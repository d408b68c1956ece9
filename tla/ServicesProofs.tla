--------------------------- MODULE ServicesProofs ---------------------------
(***************************************************************************)
(* The services for any number of tenants, rows, workers and calls.  Each  *)
(* service has its chapter: the inductive invariant, with what it adds to  *)
(* the properties that it is there for; one lemma for each of its          *)
(* operations; the theorems.  The chapters are the sending limit, posts    *)
(* and installations, knowledge, media, contacts, deals, billing, agents,  *)
(* analytics, flags, the inbox, leads, mail, and accounts; the last one    *)
(* takes the services together.  They share the lemmas on tables and pages *)
(* that come first, as the services share the queries of TenantRows.       *)
(***************************************************************************)
EXTENDS MCServices, FiniteSetTheorems, SequenceTheorems, TLAPS

-----------------------------------------------------------------------------
(***************************************************************************)
(* Sets and tables.                                                        *)
(***************************************************************************)

\* A finite set with more than one element has two.
LEMMA TwoOfMany ==
    ASSUME NEW S, IsFiniteSet(S), Cardinality(S) > 1
    PROVE  \E x, y \in S : x # y
  <1> SUFFICES ASSUME \A x, y \in S : x = y PROVE FALSE
    OBVIOUS
  <1>1. S # {}
    BY FS_EmptySet
  <1>2. PICK x \in S : TRUE
    BY <1>1
  <1>3. S = {x}
    BY <1>2
  <1> QED
    BY <1>3, FS_Singleton

\* One with no two has one at most.
LEMMA NoTwo ==
    ASSUME NEW S, IsFiniteSet(S), \A x, y \in S : x = y
    PROVE  Cardinality(S) <= 1
  BY TwoOfMany, FS_CardinalityType

\* A table has finitely many rows.
LEMMA RowsAreFinite ==
    ASSUME NEW R, NEW table \in Seq(R)
    PROVE  DOMAIN table = 1 .. Len(table) /\ IsFiniteSet(DOMAIN table)
  <1>1. DOMAIN table = 1 .. Len(table) /\ Len(table) \in Nat
    OBVIOUS
  <1> QED
    BY <1>1, FS_Interval

\* A table stays one when rows of it are changed.
LEMMA RowsChanged ==
    ASSUME NEW R, NEW table \in Seq(R), NEW new,
           new = [i \in DOMAIN table |-> new[i]], \A i \in DOMAIN table : new[i] \in R
    PROVE  new \in Seq(R) /\ Len(new) = Len(table) /\ DOMAIN new = DOMAIN table
  <1>1. new \in [1 .. Len(table) -> R] /\ Len(table) \in Nat
    OBVIOUS
  <1>2. new \in Seq(R)
    BY <1>1, SeqDef
  <1>3. DOMAIN new = 1 .. Len(new) /\ DOMAIN new = 1 .. Len(table) /\ Len(new) \in Nat
    BY <1>1, <1>2
  <1>4. Len(new) = Len(table)
    BY <1>1, <1>3
  <1> QED
    BY <1>2, <1>3, <1>4

\* Who walks the pages of a list, each of one row, sees all of its rows, if there
\* are as many pages as rows.
LEMMA PagesShowAll ==
    ASSUME NEW ids \in SUBSET Nat, IsFiniteSet(ids), NEW n \in Nat, Cardinality(ids) <= n
    PROVE  UNION {Page(ids, p, 1) : p \in 1 .. n} = ids
  <1>1. ASSUME NEW i \in ids PROVE \E p \in 1 .. n : i \in Page(ids, p, 1)
    <2> DEFINE newer == {j \in ids : j > i}
    <2>1. newer \subseteq ids /\ i \notin newer
      OBVIOUS
    <2>2. /\ IsFiniteSet(newer) /\ Cardinality(newer) \in Nat /\ Cardinality(ids) \in Nat
          /\ Cardinality(newer) <= Cardinality(ids) /\ Cardinality(newer) # Cardinality(ids)
      BY <2>1, FS_Subset, FS_CardinalityType
    <2>3. i \in Page(ids, Cardinality(newer) + 1, 1)
      BY <2>2 DEF Page
    <2> QED
      BY <2>2, <2>3
  <1>2. \A p \in 1 .. n : Page(ids, p, 1) \subseteq ids
    BY DEF Page
  <1> QED
    BY <1>1, <1>2

\* In particular some rows of a table that has no more than there are pages.
LEMMA WalkShowsAll ==
    ASSUME NEW n \in Nat, NEW m \in 0 .. n, NEW ids \in SUBSET (1 .. m)
    PROVE  UNION {Page(ids, p, 1) : p \in 1 .. n} = ids
  <1>1. IsFiniteSet(1 .. m) /\ Cardinality(1 .. m) <= n
    <2>1. \A k \in Int : IsFiniteSet(1 .. k) /\ Cardinality(1 .. k) = IF 1 > k THEN 0 ELSE k - 1 + 1
      BY FS_Interval
    <2>2. IsFiniteSet(1 .. m) /\ Cardinality(1 .. m) = IF 1 > m THEN 0 ELSE m - 1 + 1
      BY <2>1
    <2> QED
      BY <2>2
  <1>2. IsFiniteSet(ids) /\ Cardinality(ids) <= n
    <2>1. /\ IsFiniteSet(ids) /\ Cardinality(ids) <= Cardinality(1 .. m)
          /\ Cardinality(ids) \in Nat /\ Cardinality(1 .. m) \in Nat
      BY <1>1, FS_Subset, FS_CardinalityType
    <2> QED
      BY <1>1, <2>1
  <1>3. ids \subseteq Nat
    OBVIOUS
  <1> QED
    BY <1>2, <1>3, PagesShowAll

\* A table with one more row, and one with another row at some place.
Grown(table, new, row, R) ==
    /\ new \in Seq(R) /\ Len(new) = Len(table) + 1
    /\ DOMAIN new = DOMAIN table \cup {Len(table) + 1} /\ Len(table) + 1 \notin DOMAIN table
    /\ new[Len(table) + 1] = row /\ \A i \in DOMAIN table : new[i] = table[i]

Rewritten(table, new, i, row, R) ==
    /\ new \in Seq(R) /\ Len(new) = Len(table) /\ DOMAIN new = DOMAIN table
    /\ new[i] = row /\ \A j \in DOMAIN table \ {i} : new[j] = table[j]

LEMMA RowInserted ==
    ASSUME NEW R, NEW table \in Seq(R), NEW row \in R, NEW new, new = Append(table, row)
    PROVE  Grown(table, new, row, R)
  BY DEF Grown

LEMMA RowReplaced ==
    ASSUME NEW R, NEW table \in Seq(R), NEW i \in DOMAIN table, NEW row \in R,
           NEW new, new = [table EXCEPT ![i] = row]
    PROVE  Rewritten(table, new, i, row, R)
  <1>1. new = [j \in DOMAIN table |-> new[j]]
    <2>1. new = [j \in DOMAIN table |-> IF j = i THEN row ELSE table[j]]
      OBVIOUS
    <2> QED
      BY <2>1
  <1>2. \A j \in DOMAIN table : new[j] \in R
    <2> SUFFICES ASSUME NEW j \in DOMAIN table PROVE new[j] \in R
      OBVIOUS
    <2>1. table[j] \in R
      OBVIOUS
    <2>2. new[j] = IF j = i THEN row ELSE table[j]
      OBVIOUS
    <2> QED
      BY <2>1, <2>2
  <1>3. new \in Seq(R) /\ Len(new) = Len(table) /\ DOMAIN new = DOMAIN table
    BY <1>1, <1>2, RowsChanged
  <1>4. new[i] = row /\ \A j \in DOMAIN table \ {i} : new[j] = table[j]
    OBVIOUS
  <1> QED
    BY <1>3, <1>4 DEF Rewritten
-----------------------------------------------------------------------------
(***************************************************************************)
(* The sending limit.  A mail of the last minute has a stamp that its      *)
(* worker still keeps, and the requests that have passed the check are     *)
(* among those that have a recipient: the check lets the stamps come to    *)
(* one below the limit before it lets another request pass.                *)
(***************************************************************************)
Senders(w) == {r \in Of(w) : Recipients[r] > 0}

CountsKept == \A w \in Workers : Recent(w) \subseteq counts[w]

SendersOnly == \A r \in Requests :
    /\ left[r] <= Recipients[r]
    /\ r \in sending => left[r] > 0

PassedBounded == \A w \in Workers :
    /\ IsFiniteSet(counts[w])
    /\ Cardinality(Pruned(w)) + Cardinality(sending \cap Of(w))
        <= Limit + Cardinality(Senders(w)) - 1

LimiterIInv == LimiterTypeOK /\ CountsKept /\ SendersOnly /\ PassedBounded

LEMMA SendersFinite ==
    ASSUME NEW w
    PROVE  /\ IsFiniteSet(Of(w)) /\ IsFiniteSet(Senders(w))
           /\ Cardinality(Of(w)) \in Nat /\ Cardinality(Senders(w)) \in Nat
  <1>1. Of(w) \subseteq Requests /\ Senders(w) \subseteq Of(w)
    BY DEF Of, Senders
  <1> QED
    BY <1>1, LimiterAssumption, FS_Subset, FS_CardinalityType

\* The requests of a worker that await the backend have a recipient.
LEMMA SendingFinite ==
    ASSUME LimiterTypeOK, SendersOnly, NEW w
    PROVE  /\ sending \cap Of(w) \subseteq Senders(w)
           /\ IsFiniteSet(sending \cap Of(w)) /\ Cardinality(sending \cap Of(w)) \in Nat
  <1>1. sending \cap Of(w) \subseteq Of(w)
    OBVIOUS
  <1>2. sending \cap Of(w) \subseteq Senders(w)
    BY LimiterAssumption DEF LimiterTypeOK, SendersOnly, Senders, Of
  <1> QED
    BY <1>1, <1>2, SendersFinite, FS_Subset, FS_CardinalityType

\* What the check leaves of a worker's stamps.
LEMMA PrunedFinite ==
    ASSUME NEW w, IsFiniteSet(counts[w])
    PROVE  IsFiniteSet(Pruned(w)) /\ Cardinality(Pruned(w)) \in Nat
  <1>1. Pruned(w) \subseteq counts[w]
    BY DEF Pruned
  <1> QED
    BY <1>1, FS_Subset, FS_CardinalityType

LEMMA LimiterInitIInv == LimiterInit => LimiterIInv
  <1> SUFFICES ASSUME LimiterInit PROVE LimiterIInv
    OBVIOUS
  <1>1. LimiterTypeOK /\ SendersOnly
    BY LimiterAssumption DEF LimiterInit, LimiterTypeOK, SendersOnly
  <1>2. CountsKept
    BY DEF LimiterInit, CountsKept, Recent
  <1>3. ASSUME NEW w \in Workers
        PROVE  /\ IsFiniteSet(counts[w])
               /\ Cardinality(Pruned(w)) + Cardinality(sending \cap Of(w))
                    <= Limit + Cardinality(Senders(w)) - 1
    <2>1. counts[w] = {} /\ Pruned(w) = {} /\ sending \cap Of(w) = {}
      BY DEF LimiterInit, Pruned
    <2> QED
      BY <2>1, FS_EmptySet, SendersFinite, LimiterAssumption
  <1> QED
    BY <1>1, <1>2, <1>3 DEF LimiterIInv, PassedBounded

\* The clock only takes stamps out of the window.
LEMMA TickKeeps ==
    ASSUME LimiterIInv, Tick
    PROVE  LimiterIInv'
  <1> USE DEF LimiterIInv, Tick
  <1>1. LimiterTypeOK' /\ SendersOnly'
    BY LimiterAssumption DEF LimiterTypeOK, SendersOnly
  <1>2. \A w \in Workers : Recent(w)' \subseteq Recent(w) /\ Pruned(w)' \subseteq Pruned(w)
    BY LimiterAssumption DEF LimiterTypeOK, Recent, Pruned, Stamp
  <1>3. CountsKept'
    BY <1>2 DEF CountsKept
  <1>4. ASSUME NEW w \in Workers
        PROVE  /\ IsFiniteSet(counts'[w])
               /\ Cardinality(Pruned(w)') + Cardinality(sending \cap Of(w))
                    <= Limit + Cardinality(Senders(w)) - 1
    <2>1. /\ IsFiniteSet(counts[w])
          /\ Cardinality(Pruned(w)) + Cardinality(sending \cap Of(w))
                <= Limit + Cardinality(Senders(w)) - 1
      BY DEF PassedBounded
    <2>2. Cardinality(Pruned(w)') <= Cardinality(Pruned(w)) /\ Cardinality(Pruned(w)') \in Nat
      BY <1>2, <2>1, PrunedFinite, FS_Subset, FS_CardinalityType
    <2>3. Cardinality(Pruned(w)) \in Nat /\ Cardinality(sending \cap Of(w)) \in Nat
          /\ Cardinality(Senders(w)) \in Nat /\ Limit \in Nat
      BY <2>1, PrunedFinite, SendingFinite, SendersFinite, LimiterAssumption
    <2> HIDE DEF Tick, LimiterIInv
    <2>4. IsFiniteSet(counts'[w])
      BY <2>1 DEF Tick
    <2> QED
      BY <2>1, <2>2, <2>3, <2>4
  <1> QED
    BY <1>1, <1>3, <1>4 DEF PassedBounded, Senders, Of

\* The check of a request finds a stamp less than the limit and lets it pass.
LEMMA CheckKeeps ==
    ASSUME LimiterIInv, NEW r \in Requests, Check(r)
    PROVE  LimiterIInv'
  <1> USE DEF LimiterIInv
  <1> DEFINE v == WorkerOf[r]
  <1>0. /\ v \in Workers /\ r \in Of(v) /\ r \in Senders(v)
        /\ \A w \in Workers : w # v => r \notin Of(w)
        /\ counts' = [counts EXCEPT ![v] = Pruned(v)]
        /\ Cardinality(Pruned(v)) < Limit
        /\ r \notin sending /\ sending' = sending \cup {r}
        /\ UNCHANGED <<clock, left, sent>>
    BY LimiterAssumption DEF Check, UnderLimit, Of, Senders, LimiterTypeOK, SendersOnly
  <1>1. LimiterTypeOK' /\ SendersOnly'
    BY <1>0 DEF Check, LimiterTypeOK, SendersOnly, Pruned
  <1>2. ASSUME NEW w \in Workers
        PROVE  /\ Pruned(w)' = Pruned(w) /\ Recent(w)' = Recent(w)
               /\ counts'[w] \in {counts[w], Pruned(w)}
               /\ Pruned(w) \subseteq counts'[w]
    BY <1>0 DEF LimiterTypeOK, Pruned, Recent
  <1>3. CountsKept'
    <2> SUFFICES ASSUME NEW w \in Workers, NEW m \in Recent(w) PROVE m \in counts'[w]
      BY <1>2 DEF CountsKept
    <2>1. m \in Pruned(w)
      BY DEF CountsKept, Recent, Pruned
    <2> QED
      BY <2>1, <1>2
  <1>4. ASSUME NEW w \in Workers
        PROVE  /\ IsFiniteSet(counts'[w])
               /\ Cardinality(Pruned(w)) + Cardinality(sending' \cap Of(w))
                    <= Limit + Cardinality(Senders(w)) - 1
    <2>1. /\ IsFiniteSet(counts[w])
          /\ Cardinality(Pruned(w)) + Cardinality(sending \cap Of(w))
                <= Limit + Cardinality(Senders(w)) - 1
      BY DEF PassedBounded
    <2>2. IsFiniteSet(counts'[w])
      BY <2>1, <1>2, PrunedFinite
    <2>3. CASE w # v
      <3>1. sending' \cap Of(w) = sending \cap Of(w)
        BY <2>3, <1>0
      <3> QED
        BY <3>1, <2>1, <2>2
    <2>4. CASE w = v
      <3>1. sending' \cap Of(w) \subseteq Senders(w)
        BY <2>4, <1>0, SendingFinite
      <3>2. Cardinality(sending' \cap Of(w)) <= Cardinality(Senders(w))
            /\ Cardinality(sending' \cap Of(w)) \in Nat
        BY <3>1, SendersFinite, FS_Subset, FS_CardinalityType
      <3>3. Cardinality(Pruned(w)) <= Limit - 1
        BY <2>4, <1>0, <2>1, PrunedFinite, LimiterAssumption
      <3> QED
        BY <3>2, <3>3, <2>1, <2>2, PrunedFinite, SendersFinite, LimiterAssumption
    <2> QED
      BY <2>3, <2>4
  <1> QED
    BY <1>1, <1>2, <1>3, <1>4 DEF PassedBounded, Senders, Of

\* A mail that is kept back costs a recipient; the stamps are pruned all the same.
LEMMA KeepBackKeeps ==
    ASSUME LimiterIInv, NEW r \in Requests, KeepBack(r)
    PROVE  LimiterIInv'
  <1> USE DEF LimiterIInv
  <1> DEFINE v == WorkerOf[r]
  <1>0. /\ v \in Workers
        /\ counts' = [counts EXCEPT ![v] = Pruned(v)]
        /\ left[r] > 0 /\ left' = [left EXCEPT ![r] = @ - 1]
        /\ r \notin sending
        /\ UNCHANGED <<clock, sending, sent>>
    BY LimiterAssumption DEF KeepBack
  <1>1. LimiterTypeOK' /\ SendersOnly'
    <2>1. left[r] \in Nat \ {0} /\ Recipients[r] \in Nat
      <3>1. left[r] \in Nat
        BY DEF LimiterTypeOK
      <3>2. Recipients[r] \in Nat
        BY LimiterAssumption
      <3> QED
        BY <3>1, <3>2, <1>0
    <2>2. LimiterTypeOK'
      BY <1>0, <2>1 DEF KeepBack, LimiterTypeOK, Pruned
    <2>3. SendersOnly'
      BY <1>0, <2>1, LimiterAssumption DEF LimiterTypeOK, SendersOnly
    <2> QED
      BY <2>2, <2>3
  <1>2. ASSUME NEW w \in Workers
        PROVE  /\ Pruned(w)' = Pruned(w) /\ Recent(w)' = Recent(w)
               /\ counts'[w] \in {counts[w], Pruned(w)}
               /\ Pruned(w) \subseteq counts'[w]
    BY <1>0 DEF LimiterTypeOK, Pruned, Recent
  <1>3. CountsKept'
    <2> SUFFICES ASSUME NEW w \in Workers, NEW m \in Recent(w) PROVE m \in counts'[w]
      BY <1>2 DEF CountsKept
    <2>1. m \in Pruned(w)
      BY DEF CountsKept, Recent, Pruned
    <2> QED
      BY <2>1, <1>2
  <1>4. PassedBounded'
    BY <1>0, <1>2, PrunedFinite DEF PassedBounded, Senders, Of
  <1> QED
    BY <1>1, <1>3, <1>4

\* A request that has its answer does not await the backend any more.
LEMMA DoneFacts ==
    ASSUME LimiterIInv, NEW r \in Requests, Done(r)
    PROVE  /\ left' \in [Requests -> Nat] /\ sending' \subseteq Requests
           /\ SendersOnly'
           /\ \A w \in Workers : w # WorkerOf[r] => sending' \cap Of(w) = sending \cap Of(w)
           /\ Cardinality(sending' \cap Of(WorkerOf[r]))
                = Cardinality(sending \cap Of(WorkerOf[r])) - 1
  <1> USE DEF LimiterIInv, Done
  <1>1. left[r] \in Nat \ {0} /\ Recipients[r] \in Nat
    <2>1. left[r] \in Nat
      BY DEF LimiterTypeOK
    <2>2. left[r] > 0
      BY DEF SendersOnly
    <2>3. Recipients[r] \in Nat
      BY LimiterAssumption
    <2> QED
      BY <2>1, <2>2, <2>3
  <1>2. left' \in [Requests -> Nat] /\ sending' \subseteq Requests /\ SendersOnly'
    <2>1. left' \in [Requests -> Nat] /\ sending' \subseteq Requests
      BY <1>1 DEF LimiterTypeOK
    <2>2. SendersOnly'
      BY <1>1, LimiterAssumption DEF LimiterTypeOK, SendersOnly
    <2> QED
      BY <2>1, <2>2
  <1>3. \A w \in Workers : w # WorkerOf[r] => sending' \cap Of(w) = sending \cap Of(w)
    BY DEF Of
  <1>4. /\ sending' \cap Of(WorkerOf[r]) = (sending \cap Of(WorkerOf[r])) \ {r}
        /\ r \in sending \cap Of(WorkerOf[r])
    BY DEF Of
  <1>5. IsFiniteSet(sending \cap Of(WorkerOf[r]))
    BY SendingFinite
  <1> HIDE DEF LimiterIInv, Done
  <1>6. Cardinality(sending' \cap Of(WorkerOf[r])) = Cardinality(sending \cap Of(WorkerOf[r])) - 1
    <2> DEFINE S == sending \cap Of(WorkerOf[r])
    <2>1. r \in S /\ IsFiniteSet(S) /\ sending' \cap Of(WorkerOf[r]) = S \ {r}
      BY <1>4, <1>5
    <2> HIDE DEF S
    <2>2. Cardinality(S \ {r}) = Cardinality(S) - 1
      BY <2>1, FS_RemoveElement
    <2> QED
      BY <2>1, <2>2 DEF S
  <1> QED
    BY <1>2, <1>3, <1>6

\* A mail that went out is one stamp more, and one request less on its way.
LEMMA SentKeeps ==
    ASSUME LimiterIInv, NEW r \in Requests, Sent(r)
    PROVE  LimiterIInv'
  <1> USE DEF LimiterIInv
  <1> DEFINE v == WorkerOf[r]
             m == StampOf(r)
  <1>0. /\ v \in Workers /\ Done(r)
        /\ counts' = [counts EXCEPT ![v] = @ \cup {m}]
        /\ sent' = sent \cup {m} /\ clock' = clock /\ queued' = queued
        /\ m \in Stamp /\ WorkerOf[m.by] = v
    BY LimiterAssumption DEF Sent, Counted, StampOf, Stamp, LimiterTypeOK
  <1> HIDE DEF v, m
  <1>1. LimiterTypeOK' /\ SendersOnly'
    BY <1>0, DoneFacts DEF LimiterTypeOK
  <1>2. ASSUME NEW w \in Workers
        PROVE  /\ w # v => counts'[w] = counts[w] /\ Recent(w)' = Recent(w)
                        /\ Pruned(w)' = Pruned(w)
               /\ w = v => counts'[w] = counts[w] \cup {m} /\ Recent(w)' \subseteq Recent(w) \cup {m}
                        /\ Pruned(w)' \subseteq Pruned(w) \cup {m}
    BY <1>0 DEF LimiterTypeOK, Recent, Pruned
  <1>3. CountsKept'
    BY <1>2 DEF CountsKept
  <1>4. ASSUME NEW w \in Workers
        PROVE  /\ IsFiniteSet(counts'[w])
               /\ Cardinality(Pruned(w)') + Cardinality(sending' \cap Of(w))
                    <= Limit + Cardinality(Senders(w)) - 1
    <2>1. /\ IsFiniteSet(counts[w])
          /\ Cardinality(Pruned(w)) + Cardinality(sending \cap Of(w))
                <= Limit + Cardinality(Senders(w)) - 1
      BY DEF PassedBounded
    <2>2. CASE w # v
      BY <2>1, <2>2, <1>0, <1>2, DoneFacts DEF v
    <2>3. CASE w = v
      <3>1. IsFiniteSet(counts'[w])
        BY <2>1, <2>3, <1>2, FS_AddElement
      <3>2. /\ Cardinality(Pruned(w)') <= Cardinality(Pruned(w)) + 1
            /\ Cardinality(Pruned(w)') \in Nat /\ Cardinality(Pruned(w)) \in Nat
        <4>1. IsFiniteSet(Pruned(w)) /\ Cardinality(Pruned(w)) \in Nat
          BY <2>1, PrunedFinite
        <4>2. IsFiniteSet(Pruned(w) \cup {m})
              /\ Cardinality(Pruned(w) \cup {m}) <= Cardinality(Pruned(w)) + 1
          BY <4>1, FS_AddElement
        <4>3. Pruned(w)' \in SUBSET (Pruned(w) \cup {m})
          BY <2>3, <1>2
        <4>4. /\ Cardinality(Pruned(w)') <= Cardinality(Pruned(w) \cup {m})
              /\ Cardinality(Pruned(w)') \in Nat /\ Cardinality(Pruned(w) \cup {m}) \in Nat
          BY <4>2, <4>3, FS_Subset, FS_CardinalityType
        <4> QED
          BY <4>1, <4>2, <4>4
      <3>3. /\ Cardinality(sending' \cap Of(w)) = Cardinality(sending \cap Of(w)) - 1
            /\ Cardinality(sending \cap Of(w)) \in Nat
        BY <2>3, <1>0, DoneFacts, SendingFinite DEF v
      <3>4. Cardinality(Senders(w)) \in Nat /\ Limit \in Nat
        BY SendersFinite, LimiterAssumption
      <3> QED
        BY <2>1, <3>1, <3>2, <3>3, <3>4
    <2> QED
      BY <2>2, <2>3
  <1>5. PassedBounded'
    BY <1>4 DEF PassedBounded, Senders, Of
  <1> QED
    BY <1>1, <1>3, <1>5

\* An error leaves the stamps as they are.
LEMMA FailedKeeps ==
    ASSUME LimiterIInv, NEW r \in Requests, Failed(r)
    PROVE  LimiterIInv'
  <1> USE DEF LimiterIInv
  <1>0. /\ Done(r) /\ WorkerOf[r] \in Workers
        /\ UNCHANGED <<clock, counts, queued, sent>>
    BY LimiterAssumption DEF Failed
  <1>1. LimiterTypeOK' /\ SendersOnly' /\ CountsKept'
    BY <1>0, DoneFacts DEF LimiterTypeOK, CountsKept, Recent
  <1>2. ASSUME NEW w \in Workers
        PROVE  Cardinality(sending' \cap Of(w)) <= Cardinality(sending \cap Of(w))
               /\ Cardinality(sending' \cap Of(w)) \in Int
    <2>1. Cardinality(sending \cap Of(w)) \in Nat
      BY SendingFinite
    <2>2. \/ sending' \cap Of(w) = sending \cap Of(w)
          \/ Cardinality(sending' \cap Of(w)) = Cardinality(sending \cap Of(w)) - 1
      BY <1>0, DoneFacts
    <2> HIDE DEF LimiterIInv
    <2> QED
      BY <2>1, <2>2
  <1>3. ASSUME NEW w \in Workers
        PROVE  /\ IsFiniteSet(counts[w])
               /\ Cardinality(Pruned(w)) + Cardinality(sending' \cap Of(w))
                    <= Limit + Cardinality(Senders(w)) - 1
    <2>1. /\ IsFiniteSet(counts[w])
          /\ Cardinality(Pruned(w)) + Cardinality(sending \cap Of(w))
                <= Limit + Cardinality(Senders(w)) - 1
      BY DEF PassedBounded
    <2>2. Cardinality(Pruned(w)) \in Nat /\ Cardinality(sending \cap Of(w)) \in Nat
          /\ Cardinality(Senders(w)) \in Nat /\ Limit \in Nat
      BY <2>1, PrunedFinite, SendingFinite, SendersFinite, LimiterAssumption
    <2> HIDE DEF LimiterIInv
    <2> QED
      BY <2>1, <2>2, <1>2
  <1>4. PassedBounded'
    BY <1>0, <1>3 DEF PassedBounded, Pruned, Senders, Of
  <1> QED
    BY <1>1, <1>4

LEMMA LimiterNextIInv == LimiterIInv /\ [LimiterNext]_limiterVars => LimiterIInv'
  <1> SUFFICES ASSUME LimiterIInv, [LimiterNext]_limiterVars PROVE LimiterIInv'
    OBVIOUS
  <1>1. CASE UNCHANGED limiterVars
    BY <1>1 DEF limiterVars, LimiterIInv, LimiterTypeOK, CountsKept, Recent,
       SendersOnly, PassedBounded, Pruned, Senders, Of
  <1> QED
    BY <1>1, TickKeeps, CheckKeeps, KeepBackKeeps, SentKeeps, FailedKeeps DEF LimiterNext

LEMMA LimiterSpecIInv == LimiterSpec => []LimiterIInv
  BY LimiterInitIInv, LimiterNextIInv, PTL DEF LimiterSpec

\* Clock, stamps and requests are what they are declared to be.
THEOREM LimiterTyped == LimiterSpec => []LimiterTypeOK
  <1>1. LimiterIInv => LimiterTypeOK
    BY DEF LimiterIInv
  <1> QED
    BY <1>1, LimiterSpecIInv, PTL

\* A worker sends no more in a minute than the limit and its other requests with
\* a recipient, however its requests overlap and whatever fails.
THEOREM OvershootIsBounded == LimiterSpec => []OvershootBounded
  <1>1. ASSUME LimiterIInv PROVE OvershootBounded
    <2> SUFFICES ASSUME NEW w \in Workers
                 PROVE  Cardinality(Recent(w)) + Cardinality(sending \cap Of(w))
                            <= Limit + Cardinality(Senders(w)) - 1
      BY DEF OvershootBounded, Senders
    <2>1. /\ IsFiniteSet(counts[w])
          /\ Cardinality(Pruned(w)) + Cardinality(sending \cap Of(w))
                <= Limit + Cardinality(Senders(w)) - 1
      BY <1>1 DEF LimiterIInv, PassedBounded
    <2>2. Recent(w) \in SUBSET Pruned(w)
      BY <1>1 DEF LimiterIInv, CountsKept, Recent, Pruned
    <2>3. Cardinality(Recent(w)) <= Cardinality(Pruned(w)) /\ Cardinality(Recent(w)) \in Nat
      BY <2>1, <2>2, PrunedFinite, FS_Subset, FS_CardinalityType
    <2>4. Cardinality(Pruned(w)) \in Nat /\ Cardinality(sending \cap Of(w)) \in Nat
          /\ Cardinality(Senders(w)) \in Nat /\ Limit \in Nat
      BY <1>1, <2>1, PrunedFinite, SendingFinite, SendersFinite, LimiterAssumption DEF LimiterIInv
    <2> QED
      BY <2>1, <2>3, <2>4
  <1> QED
    BY <1>1, LimiterSpecIInv, PTL
-----------------------------------------------------------------------------
(***************************************************************************)
(* Posts and installations.  A post that is not published has been taken   *)
(* no more often than a PATCH has taken it back; two live installations of *)
(* one listing are there only because one of them was switched on after    *)
(* its end.                                                                *)
(***************************************************************************)
PublishedAgain == \A p \in DOMAIN posts :
    /\ posts[p].taken <= 1 + posts[p].reopened
    /\ posts[p].status # "published" => posts[p].taken <= posts[p].reopened

NoSecond == \A t \in Tenants, listing \in Listings : \A i, j \in Existing(t, listing) :
    i # j => installations[i].toggled \/ installations[j].toggled

\* No table has more rows than its bound.
OutreachBounded ==
    /\ Len(posts) <= MaxPosts /\ Len(installations) <= MaxInstallations
    /\ Len(keywords) <= MaxKeywords /\ Len(assets) <= MaxAssets

\* Nothing deletes a keyword.
KeywordsStay == \A k \in DOMAIN keywords : ~keywords[k].deleted

OutreachIInv == OutreachTypeOK /\ OutreachBounded /\ KeywordsStay /\ PublishedAgain /\ NoSecond

\* A step on posts: the other tables stay.
LEMMA PostsKeep ==
    ASSUME OutreachIInv, posts' \in Seq(SocialPost), PublishedAgain',
           Len(posts') = Len(posts) \/ Len(posts') <= MaxPosts,
           UNCHANGED <<installations, keywords, assets>>
    PROVE  OutreachIInv'
  BY DEF OutreachIInv, OutreachTypeOK, OutreachBounded, KeywordsStay, NoSecond, Existing, OfTenant

LEMMA CreatePostKeeps ==
    ASSUME OutreachIInv, NEW t \in Tenants, CreatePost(t)
    PROVE  OutreachIInv'
  <1> USE DEF OutreachIInv, OutreachTypeOK
  <1>1. PICK status \in {"draft", "scheduled"} : NewPost(t, status)
    BY DEF CreatePost
  <1> DEFINE new == [tenant |-> t, deleted |-> FALSE, status |-> status, taken |-> 0, reopened |-> 0]
  <1>2. new \in SocialPost /\ posts' = Append(posts, new)
    BY <1>1, OutreachAssumption DEF NewPost, Inserted, SocialPost
  <1>3. /\ posts' \in Seq(SocialPost) /\ new.taken = 0 /\ new.reopened = 0
        /\ Len(posts') <= MaxPosts
    BY <1>2, OutreachAssumption DEF CreatePost
  <1> HIDE DEF new
  <1>4. PublishedAgain'
    BY <1>2, <1>3 DEF PublishedAgain
  <1> QED
    BY <1>3, <1>4, PostsKeep DEF CreatePost

LEMMA UpdatePostKeeps ==
    ASSUME OutreachIInv, NEW t \in Tenants, NEW p, UpdatePost(t, p)
    PROVE  OutreachIInv'
  <1> USE DEF OutreachIInv, OutreachTypeOK
  <1>1. PICK status \in {"draft", "scheduled", "published", "cancelled"} :
            posts' = [posts EXCEPT ![p].status = status,
                ![p].reopened = IF posts[p].status = "published" /\ status # "published"
                                THEN @ + 1 ELSE @]
    BY DEF UpdatePost
  <1>2. p \in DOMAIN posts /\ posts[p] \in SocialPost
    BY DEF UpdatePost, Gets
  <1> DEFINE n == IF posts[p].status = "published" /\ status # "published"
                   THEN posts[p].reopened + 1 ELSE posts[p].reopened
  <1>3. /\ posts' = [i \in DOMAIN posts |-> posts'[i]]
        /\ \A i \in DOMAIN posts : i # p => posts'[i] = posts[i]
        /\ posts'[p] = [posts[p] EXCEPT !.status = status, !.reopened = n]
    BY <1>1, <1>2
  <1>4. n \in Nat /\ posts[p].taken \in Nat /\ posts[p].reopened \in Nat
    BY <1>2, OutreachAssumption DEF SocialPost
  <1>5. posts' \in Seq(SocialPost) /\ Len(posts') = Len(posts)
    <2>1. posts'[p] \in SocialPost
      <3> HIDE DEF n
      <3> QED
        BY <1>2, <1>3, <1>4 DEF SocialPost
    <2>2. posts \in Seq(SocialPost) /\ \A i \in DOMAIN posts : posts'[i] \in SocialPost
      BY <1>3, <2>1
    <2> QED
      BY <1>3, <2>2, RowsChanged
  <1>6. /\ posts'[p].taken = posts[p].taken /\ posts'[p].reopened = n
        /\ posts'[p].status = status
    BY <1>2, <1>3 DEF SocialPost
  <1>7. PublishedAgain'
    <2>1. /\ posts[p].taken <= 1 + posts[p].reopened
          /\ posts[p].status # "published" => posts[p].taken <= posts[p].reopened
      BY <1>2 DEF PublishedAgain
    <2>2. /\ posts'[p].taken <= 1 + posts'[p].reopened
          /\ posts'[p].status # "published" => posts'[p].taken <= posts'[p].reopened
      BY <2>1, <1>4, <1>6
    <2> QED
      BY <2>2, <1>3 DEF PublishedAgain
  <1> QED
    BY <1>5, <1>7, PostsKeep DEF UpdatePost

LEMMA PublishPostKeeps ==
    ASSUME OutreachIInv, NEW t \in Tenants, NEW p, PublishPost(t, p)
    PROVE  OutreachIInv'
  <1> USE DEF OutreachIInv, OutreachTypeOK
  <1>1. /\ p \in DOMAIN posts /\ posts[p] \in SocialPost
        /\ posts[p].status # "published"
    BY DEF PublishPost, Gets, Publishable
  <1>2. CASE posts[p].taken < MaxTaken
            /\ posts' = [posts EXCEPT ![p].status = "published", ![p].taken = @ + 1]
    <2>1. /\ posts' = [i \in DOMAIN posts |-> posts'[i]]
          /\ \A i \in DOMAIN posts : i # p => posts'[i] = posts[i]
          /\ posts'[p] = [posts[p] EXCEPT !.status = "published", !.taken = posts[p].taken + 1]
      BY <1>1, <1>2
    <2>2. /\ posts[p].taken + 1 \in 0 .. MaxTaken
          /\ posts[p].taken \in Nat /\ posts[p].reopened \in Nat
      BY <1>1, <1>2, OutreachAssumption DEF SocialPost
    <2>3. posts' \in Seq(SocialPost) /\ Len(posts') = Len(posts)
      <3>1. posts'[p] \in SocialPost
        BY <1>1, <2>1, <2>2 DEF SocialPost
      <3> QED
        BY <2>1, <3>1, RowsChanged
    <2>4. /\ posts'[p].taken = posts[p].taken + 1 /\ posts'[p].status = "published"
          /\ posts'[p].reopened = posts[p].reopened
      BY <1>1, <2>1 DEF SocialPost
    <2>5. PublishedAgain'
      <3>1. posts[p].taken <= posts[p].reopened
        BY <1>1 DEF PublishedAgain
      <3>2. posts'[p].taken <= 1 + posts'[p].reopened
        BY <3>1, <2>2, <2>4
      <3> QED
        BY <2>1, <2>4, <3>2 DEF PublishedAgain
    <2> QED
      BY <2>3, <2>5, PostsKeep DEF PublishPost
  <1>3. CASE posts' = [posts EXCEPT ![p].status = "failed"]
    <2>1. posts' \in Seq(SocialPost) /\ Len(posts') = Len(posts)
      <3>1. /\ posts' = [i \in DOMAIN posts |-> posts'[i]]
            /\ \A i \in DOMAIN posts : i # p => posts'[i] = posts[i]
        BY <1>1, <1>3
      <3>2. posts'[p] \in SocialPost
        BY <1>1, <1>3 DEF SocialPost
      <3> QED
        BY <3>1, <3>2, RowsChanged
    <2>2. PublishedAgain'
      BY <1>1, <1>3 DEF PublishedAgain, SocialPost
    <2> QED
      BY <2>1, <2>2, PostsKeep DEF PublishPost
  <1> QED
    BY <1>2, <1>3 DEF PublishPost, Published

LEMMA DeletePostKeeps ==
    ASSUME OutreachIInv, NEW t \in Tenants, NEW p, DeletePost(t, p)
    PROVE  OutreachIInv'
  <1> USE DEF OutreachIInv, OutreachTypeOK
  <1>1. p \in DOMAIN posts /\ posts[p] \in SocialPost
        /\ posts' = [posts EXCEPT ![p].deleted = TRUE]
    BY DEF DeletePost, Gets, SoftDeleted
  <1>2. posts' \in Seq(SocialPost) /\ Len(posts') = Len(posts)
    <2>1. /\ posts' = [i \in DOMAIN posts |-> posts'[i]]
          /\ \A i \in DOMAIN posts : i # p => posts'[i] = posts[i]
      BY <1>1
    <2>2. posts'[p] \in SocialPost
      BY <1>1 DEF SocialPost
    <2> QED
      BY <2>1, <2>2, RowsChanged
  <1>3. PublishedAgain'
    BY <1>1 DEF PublishedAgain, SocialPost
  <1> QED
    BY <1>2, <1>3, PostsKeep DEF DeletePost

\* A step on installations.
LEMMA InstallationsKeep ==
    ASSUME OutreachIInv, installations' \in Seq(Installation), NoSecond',
           Len(installations') = Len(installations) \/ Len(installations') <= MaxInstallations,
           UNCHANGED <<posts, keywords, assets>>
    PROVE  OutreachIInv'
  BY DEF OutreachIInv, OutreachTypeOK, OutreachBounded, KeywordsStay, PublishedAgain

LEMMA InstallKeeps ==
    ASSUME OutreachIInv, NEW t \in Tenants, NEW listing \in Listings, InstallPlugin(t, listing)
    PROVE  OutreachIInv'
  <1> USE DEF OutreachIInv, OutreachTypeOK
  <1> DEFINE new == [tenant |-> t, listing |-> listing, status |-> "installed", toggled |-> FALSE]
  <1>1. /\ new \in Installation /\ installations' = Append(installations, new)
        /\ Existing(t, listing) = {}
    BY DEF InstallPlugin, Install, Inserted, Installation, Live
  <1>2. /\ installations' \in Seq(Installation) /\ new.tenant = t /\ new.listing = listing
        /\ Len(installations') <= MaxInstallations
    BY <1>1, OutreachAssumption DEF InstallPlugin
  <1> HIDE DEF new
  <1>3. /\ DOMAIN installations' = DOMAIN installations \cup {Len(installations) + 1}
        /\ \A i \in DOMAIN installations : installations'[i] = installations[i]
        /\ installations'[Len(installations) + 1] = new
    BY <1>1
  <1>4. ASSUME NEW u \in Tenants, NEW l \in Listings,
               NEW i \in Existing(u, l)', NEW j \in Existing(u, l)', i # j
        PROVE  installations'[i].toggled \/ installations'[j].toggled
    <2>1. CASE i \in DOMAIN installations /\ j \in DOMAIN installations
      BY <2>1, <1>4, <1>3 DEF NoSecond, Existing, OfTenant
    <2>2. CASE ~(i \in DOMAIN installations /\ j \in DOMAIN installations)
      <3>1. u = t /\ l = listing
        BY <2>2, <1>2, <1>3 DEF Existing, OfTenant
      <3>2. \A k \in Existing(t, listing)' : k \in DOMAIN installations => k \in Existing(t, listing)
        BY <1>3 DEF Existing, OfTenant
      <3>3. i \notin DOMAIN installations /\ j \notin DOMAIN installations
        BY <3>1, <3>2, <1>1
      <3> QED
        BY <3>3, <1>3, <1>4 DEF Existing, OfTenant
    <2> QED
      BY <2>1, <2>2
  <1>5. NoSecond'
    BY <1>4 DEF NoSecond
  <1> QED
    BY <1>2, <1>5, InstallationsKeep DEF InstallPlugin

LEMMA UninstallKeeps ==
    ASSUME OutreachIInv, NEW t \in Tenants, NEW i, UninstallPlugin(t, i)
    PROVE  OutreachIInv'
  <1> USE DEF OutreachIInv, OutreachTypeOK
  <1>1. /\ i \in DOMAIN installations /\ installations[i] \in Installation
        /\ installations' = [installations EXCEPT ![i].status = "uninstalled"]
    BY DEF UninstallPlugin, FindInstallation, OfTenant, Uninstalled
  <1>2. installations' \in Seq(Installation) /\ Len(installations') = Len(installations)
    <2>1. /\ installations' = [j \in DOMAIN installations |-> installations'[j]]
          /\ \A j \in DOMAIN installations : j # i => installations'[j] = installations[j]
      BY <1>1
    <2>2. installations'[i] \in Installation
      BY <1>1 DEF Installation
    <2>3. \A j \in DOMAIN installations : installations'[j] \in Installation
      BY <2>1, <2>2
    <2> QED
      BY <2>1, <2>3, RowsChanged
  <1>3. \A u \in Tenants, l \in Listings : Existing(u, l)' \subseteq Existing(u, l)
    BY <1>1 DEF Existing, OfTenant, Installation, Live
  <1>4. \A j \in DOMAIN installations : installations'[j].toggled = installations[j].toggled
    BY <1>1 DEF Installation
  <1>5. NoSecond'
    BY <1>3, <1>4 DEF NoSecond, Existing, OfTenant
  <1> QED
    BY <1>2, <1>5, InstallationsKeep DEF UninstallPlugin

LEMMA ToggleKeeps ==
    ASSUME OutreachIInv, NEW t \in Tenants, NEW i, ToggleInstallation(t, i)
    PROVE  OutreachIInv'
  <1> USE DEF OutreachIInv, OutreachTypeOK
  <1>1. PICK active \in BOOLEAN : ToggledStatus(i, active)
    BY DEF ToggleInstallation
  <1> DEFINE s == IF active THEN "active" ELSE "inactive"
             g == installations[i].toggled \/ installations[i].status = "uninstalled"
  <1>2. /\ i \in DOMAIN installations /\ installations[i] \in Installation
        /\ s \in Live /\ g \in BOOLEAN
    <2>1. i \in DOMAIN installations /\ installations[i] \in Installation
      BY DEF ToggleInstallation, FindInstallation, OfTenant
    <2>2. s \in Live
      BY DEF Live
    <2> QED
      BY <2>1, <2>2
  <1>2a. /\ installations' = [j \in DOMAIN installations |-> installations'[j]]
         /\ \A j \in DOMAIN installations : j # i => installations'[j] = installations[j]
         /\ installations'[i] = [installations[i] EXCEPT !.status = s, !.toggled = g]
    BY <1>1, <1>2 DEF ToggledStatus
  <1> HIDE DEF s
  <1>3. installations' \in Seq(Installation) /\ Len(installations') = Len(installations)
    <2>1. installations'[i] \in Installation
      BY <1>2, <1>2a DEF Installation
    <2>2. \A j \in DOMAIN installations : installations'[j] \in Installation
      BY <1>2a, <2>1
    <2> QED
      BY <1>2a, <2>2, RowsChanged
  <1>4. /\ \A j \in DOMAIN installations : j # i => installations'[j] = installations[j]
        /\ installations'[i].toggled = g /\ installations'[i].tenant = installations[i].tenant
        /\ installations'[i].listing = installations[i].listing
        /\ DOMAIN installations' = DOMAIN installations
    BY <1>2, <1>2a DEF Installation
  <1>5. \A u \in Tenants, l \in Listings : i \in Existing(u, l)' /\ ~g => i \in Existing(u, l)
    BY <1>2, <1>4 DEF Existing, OfTenant, Installation
  <1>6. \A u \in Tenants, l \in Listings : \A j : j # i /\ j \in Existing(u, l)' => j \in Existing(u, l)
    BY <1>4 DEF Existing, OfTenant
  <1>7. NoSecond'
    <2> SUFFICES ASSUME NEW u \in Tenants, NEW l \in Listings,
                        NEW j \in Existing(u, l)', NEW k \in Existing(u, l)', j # k,
                        ~installations'[j].toggled, ~installations'[k].toggled
                 PROVE  FALSE
      BY DEF NoSecond
    <2>1. j \in Existing(u, l) /\ k \in Existing(u, l)
      BY <1>4, <1>5, <1>6
    <2>2. ~installations[j].toggled /\ ~installations[k].toggled
      BY <2>1, <1>4 DEF Existing, OfTenant
    <2> QED
      BY <2>1, <2>2 DEF NoSecond
  <1> QED
    BY <1>3, <1>7, InstallationsKeep DEF ToggleInstallation

\* Keywords and marketing's tables share no row with these.
LEMMA CollectionsKeep ==
    ASSUME OutreachIInv, CollectionsNext
    PROVE  OutreachIInv'
  <1> USE DEF OutreachIInv, OutreachTypeOK
  <1>1. ASSUME keywords' \in Seq(Keyword), Len(keywords') <= MaxKeywords, KeywordsStay',
               assets' \in Seq(Asset), Len(assets') <= MaxAssets, UNCHANGED <<posts, installations>>
        PROVE  OutreachIInv'
    BY <1>1 DEF OutreachBounded, PublishedAgain, NoSecond, Existing, OfTenant
  <1>2. ASSUME NEW t \in Tenants, TrackKeyword(t) PROVE OutreachIInv'
    <2>1. [tenant |-> t, deleted |-> FALSE] \in Keyword
      BY DEF Keyword
    <2>2. keywords' \in Seq(Keyword) /\ Len(keywords') <= MaxKeywords
      BY <1>2, <2>1, OutreachAssumption DEF TrackKeyword, Inserted
    <2>3. KeywordsStay'
      BY <1>2, <2>1 DEF TrackKeyword, Inserted, KeywordsStay
    <2> QED
      BY <2>2, <2>3, <1>1, <1>2 DEF TrackKeyword, OutreachBounded
  <1>3. ASSUME NEW t \in Tenants, NEW kind \in Kinds, CreateAsset(t, kind) PROVE OutreachIInv'
    <2>1. [tenant |-> t, deleted |-> FALSE, kind |-> kind] \in Asset
      BY DEF Asset
    <2>2. assets' \in Seq(Asset) /\ Len(assets') <= MaxAssets
      BY <1>3, <2>1, OutreachAssumption DEF CreateAsset, Inserted
    <2> QED
      BY <2>2, <1>1, <1>3 DEF CreateAsset, OutreachBounded, KeywordsStay
  <1>4. ASSUME NEW a, DeleteAsset(a) PROVE OutreachIInv'
    <2>1. a \in DOMAIN assets /\ assets[a] \in Asset /\ assets' = [assets EXCEPT ![a].deleted = TRUE]
      BY <1>4 DEF DeleteAsset, FindAsset, NotDeleted, SoftDeleted
    <2>2. assets' \in Seq(Asset) /\ Len(assets') = Len(assets)
      <3>1. /\ assets' = [j \in DOMAIN assets |-> assets'[j]]
            /\ \A j \in DOMAIN assets : j # a => assets'[j] = assets[j]
        BY <2>1
      <3>2. assets'[a] \in Asset
        BY <2>1 DEF Asset
      <3>3. \A j \in DOMAIN assets : assets'[j] \in Asset
        BY <3>1, <3>2
      <3> QED
        BY <3>1, <3>3, RowsChanged
    <2> QED
      BY <2>2, <1>1, <1>4 DEF DeleteAsset, OutreachBounded, KeywordsStay
  <1> QED
    BY <1>2, <1>3, <1>4 DEF CollectionsNext

LEMMA OutreachInitIInv == OutreachInit => OutreachIInv
  BY OutreachAssumption DEF OutreachInit, OutreachIInv, OutreachTypeOK, OutreachBounded, KeywordsStay,
     PublishedAgain, NoSecond, Existing, OfTenant

LEMMA OutreachNextIInv == OutreachIInv /\ [OutreachNext]_outreachVars => OutreachIInv'
  <1> SUFFICES ASSUME OutreachIInv, [OutreachNext]_outreachVars PROVE OutreachIInv'
    OBVIOUS
  <1>1. CASE UNCHANGED outreachVars
    BY <1>1 DEF outreachVars, OutreachIInv, OutreachTypeOK, OutreachBounded, KeywordsStay, PublishedAgain,
       NoSecond, Existing, OfTenant
  <1> QED
    BY <1>1, CreatePostKeeps, UpdatePostKeeps, PublishPostKeeps, DeletePostKeeps, InstallKeeps,
       UninstallKeeps, ToggleKeeps, CollectionsKeep DEF OutreachNext, SocialNext, MarketplaceNext

LEMMA OutreachSpecIInv == OutreachSpec => []OutreachIInv
  BY OutreachInitIInv, OutreachNextIInv, PTL DEF OutreachSpec

\* Posts, installations, keywords and assets are what they are declared to be.
THEOREM OutreachTyped == OutreachSpec => []OutreachTypeOK
  <1>1. OutreachIInv => OutreachTypeOK
    BY DEF OutreachIInv
  <1> QED
    BY <1>1, OutreachSpecIInv, PTL

\* What is to happen once happens once: no sequence of failures, retries, PATCHes
\* and switches publishes a post twice or installs a listing twice, but for the
\* two ways in which the history says so.
THEOREM OncePerTenant == OutreachSpec => []OutreachOnce
  <1>1. ASSUME OutreachIInv PROVE PublishedOnce
    BY <1>1 DEF OutreachIInv, PublishedAgain, PublishedOnce
  <1>2. ASSUME OutreachIInv PROVE InstalledOnce
    <2> SUFFICES ASSUME NEW t \in Tenants, NEW listing \in Listings,
                        Cardinality(Existing(t, listing)) > 1
                 PROVE  \E i \in Existing(t, listing) : installations[i].toggled
      BY DEF InstalledOnce
    <2>1. Existing(t, listing) \subseteq DOMAIN installations
      BY DEF Existing, OfTenant
    <2>2. IsFiniteSet(Existing(t, listing))
      BY <1>2, <2>1, RowsAreFinite, FS_Subset DEF OutreachIInv, OutreachTypeOK
    <2>3. PICK i, j \in Existing(t, listing) : i # j
      BY <2>2, TwoOfMany
    <2> QED
      BY <1>2, <2>3 DEF OutreachIInv, NoSecond
  <1>3. OutreachIInv => OutreachOnce
    BY <1>1, <1>2 DEF OutreachOnce
  <1> QED
    BY <1>3, OutreachSpecIInv, PTL

\* What the readers show agrees, for any number of rows: the lists of posts and of
\* marketing's tables fail when a get does, and otherwise for deleted posts and
\* segments only; what a get finds of installations and keywords is on some page.
THEOREM OutreachViews == OutreachSpec => []OutreachViewsAgree
  <1>1. ASSUME OutreachIInv PROVE OutreachViewsAgree
    <2> USE <1>1 DEF OutreachIInv, OutreachTypeOK, OutreachBounded
    <2>0. /\ Len(posts) \in 0 .. MaxPosts /\ Len(installations) \in 0 .. MaxInstallations
          /\ Len(keywords) \in 0 .. MaxKeywords /\ Len(assets) \in 0 .. MaxAssets
          /\ MaxPosts \in Nat /\ MaxInstallations \in Nat /\ MaxKeywords \in Nat /\ MaxAssets \in Nat
      BY OutreachAssumption
    <2> SUFFICES ASSUME NEW t \in Tenants
                 PROVE  /\ LET listed == \E p \in 1 .. MaxPosts : ListPosts(t, p, 1) = "error"
                           IN  /\ listed <=> \E p \in OfTenant(posts, t) :
                                                GetPost(t, p) = "error" \/ posts[p].deleted
                               /\ GetCalendar(t) = "error" => listed
                        /\ {i \in DOMAIN installations : GetInstallation(t, i)}
                            = Walk(LAMBDA p, l : ListInstalled(t, p, l), MaxInstallations)
                        /\ KeywordRankings(t) = Walk(LAMBDA p, l : ListKeywords(t, p, l), MaxKeywords)
                        /\ \A kind \in Kinds :
                            LET shown == \E p \in 1 .. MaxAssets : ListAssets(t, kind, p, 1) = "error"
                                found == \E a \in OfTenant(assets, t) :
                                            assets[a].kind = kind /\ GetAsset(a) = "error"
                            IN  (found => shown) /\ (shown => found \/ kind = "segment")
      BY DEF OutreachViewsAgree
    \* Some page of a list fails when there is a row on one.
    <2>1. ASSUME NEW n \in Nat, NEW m \in 0 .. n, NEW ids \in SUBSET (1 .. m)
          PROVE  (\E p \in 1 .. n : Answer(Page(ids, p, 1)) = "error") <=> ids # {}
      <3>1. UNION {Page(ids, p, 1) : p \in 1 .. n} = ids
        BY WalkShowsAll
      <3>2. ids # {} <=> \E p \in 1 .. n : Page(ids, p, 1) # {}
        <4>1. ASSUME NEW i \in ids PROVE \E p \in 1 .. n : i \in Page(ids, p, 1)
          BY <3>1, <4>1
        <4>2. ASSUME NEW p \in 1 .. n, NEW i \in Page(ids, p, 1) PROVE i \in ids
          BY DEF Page
        <4> QED
          BY <4>1, <4>2
      <3> QED
        BY <3>2 DEF Answer
    <2>2. Walk(LAMBDA p, l : ListInstalled(t, p, l), MaxInstallations) = OfTenant(installations, t)
      <3>1. OfTenant(installations, t) \subseteq 1 .. Len(installations)
        BY DEF OfTenant
      <3>2. UNION {Page(OfTenant(installations, t), p, 1) : p \in 1 .. MaxInstallations} = OfTenant(installations, t)
        BY <2>0, <3>1, WalkShowsAll
      <3> QED
        BY <3>2 DEF Walk, ListInstalled, InstalledBy
    <2>3. Walk(LAMBDA p, l : ListKeywords(t, p, l), MaxKeywords) = Listed(keywords, t)
      <3>1. Listed(keywords, t) \subseteq 1 .. Len(keywords)
        BY DEF Listed, OfTenant
      <3>2. UNION {Page(Listed(keywords, t), p, 1) : p \in 1 .. MaxKeywords} = Listed(keywords, t)
        BY <2>0, <3>1, WalkShowsAll
      <3> QED
        BY <3>2 DEF Walk, ListKeywords
    <2>4. {i \in DOMAIN installations : GetInstallation(t, i)} = OfTenant(installations, t)
          /\ KeywordRankings(t) = Listed(keywords, t)
      BY DEF GetInstallation, FindInstallation, KeywordRankings, OfTenant, NotDeleted, Listed, KeywordsStay
    <2>5. (\E p \in 1 .. MaxPosts : ListPosts(t, p, 1) = "error") <=> OfTenant(posts, t) # {}
      <3>1. OfTenant(posts, t) \subseteq 1 .. Len(posts)
        BY DEF OfTenant
      <3> QED
        BY <2>0, <2>1, <3>1 DEF ListPosts, PostsOf
    <2>6. /\ \A p \in OfTenant(posts, t) : GetPost(t, p) = "error" \/ posts[p].deleted
          /\ GetCalendar(t) = "error" => OfTenant(posts, t) # {}
      BY DEF GetPost, Gets, GetCalendar, Answer, OfTenant
    <2>7. ASSUME NEW kind \in Kinds
          PROVE  LET shown == \E p \in 1 .. MaxAssets : ListAssets(t, kind, p, 1) = "error"
                     found == \E a \in OfTenant(assets, t) :
                                assets[a].kind = kind /\ GetAsset(a) = "error"
                 IN  (found => shown) /\ (shown => found \/ kind = "segment")
      <3> DEFINE ids == IF kind = "segment" THEN SegmentsOf(t) ELSE AssetsOf(t, kind)
      <3>1. ids \subseteq 1 .. Len(assets)
        BY DEF SegmentsOf, AssetsOf, OfTenant, Listed
      <3>2. (\E p \in 1 .. MaxAssets : ListAssets(t, kind, p, 1) = "error") <=> ids # {}
        <4>1. \A p : ListAssets(t, kind, p, 1) = Answer(Page(ids, p, 1))
          BY DEF ListAssets
        <4> HIDE DEF ids
        <4> QED
          BY <2>0, <2>1, <3>1, <4>1
      <3>3. \A a \in OfTenant(assets, t) : assets[a].kind = kind /\ GetAsset(a) = "error" => a \in ids
        BY DEF GetAsset, FindAsset, SegmentsOf, AssetsOf, OfTenant, Listed
      <3>4. kind # "segment" => \A a \in ids :
                a \in OfTenant(assets, t) /\ assets[a].kind = kind /\ GetAsset(a) = "error"
        BY DEF GetAsset, FindAsset, AssetsOf, OfTenant, NotDeleted, Listed
      <3> HIDE DEF ids
      <3> QED
        BY <3>2, <3>3, <3>4
    <2> QED
      BY <2>2, <2>3, <2>4, <2>5, <2>6, <2>7
  <1> QED
    BY <1>1, OutreachSpecIInv, PTL
-----------------------------------------------------------------------------
(***************************************************************************)
(* Documents and points.  Points are of documents that are there, in their *)
(* tenant's collection, and a document's points are of one content.  A     *)
(* document's call changes its own row and its own points: the points are  *)
(* removed before others are stored, and where the call ends between the   *)
(* two stores the row is marked.                                           *)
(***************************************************************************)
Sound(docs, pts, colls) ==
    /\ docs \in Seq(KnowledgeDocument) /\ Len(docs) <= MaxDocuments
    /\ pts \subseteq Point /\ colls \subseteq Tenants
    /\ \A q \in pts :
        /\ q.doc \in DOMAIN docs /\ ~docs[q.doc].deleted
        /\ docs[q.doc].tenant \in colls
    /\ \A p, q \in pts : p.doc = q.doc => p.version = q.version

\* The points N of a document are those that its row says.
Holds(doc, d, N) == ~doc.deleted /\ ~doc.stale =>
    /\ N = IF doc.indexed THEN ChunkText(doc, d) ELSE {}
    /\ doc.indexed => doc.chunks > 0

KnowledgeIInv ==
    /\ Sound(documents, points, collections)
    /\ \A d \in DOMAIN documents : Holds(documents[d], d, PointsOf(d))

LEMMA ChunkTextIs ==
    ASSUME NEW doc, NEW d, NEW q
    PROVE  q \in ChunkText(doc, d) <=>
            /\ q = [doc |-> q.doc, chunk |-> q.chunk, version |-> q.version]
            /\ q.doc = d /\ q.chunk \in 1 .. doc.chunks /\ q.version = doc.version
  BY DEF ChunkText

\* The document of one row is changed, and its points are then those of N: what
\* was sound is sound, and holds for this row if it does for N.
LEMMA ChangeKeeps ==
    ASSUME KnowledgeIInv, NEW d \in DOMAIN documents, NEW N \in SUBSET Point,
           documents' = [e \in DOMAIN documents |-> documents'[e]],
           \A e \in DOMAIN documents : e # d => documents'[e] = documents[e],
           documents'[d] \in KnowledgeDocument, documents'[d].tenant = documents[d].tenant,
           points' = RemovePoints(d) \cup N,
           collections \subseteq collections', collections' \subseteq Tenants,
           \A q \in N : /\ q.doc = d /\ ~documents'[d].deleted
                        /\ documents'[d].tenant \in collections',
           \A p, q \in N : p.version = q.version,
           Holds(documents'[d], d, N)
    PROVE  KnowledgeIInv'
  <1>1. /\ documents \in Seq(KnowledgeDocument) /\ Len(documents) <= MaxDocuments
        /\ \A e \in DOMAIN documents : documents'[e] \in KnowledgeDocument
    BY DEF KnowledgeIInv, Sound
  <1>2. /\ documents' \in Seq(KnowledgeDocument) /\ Len(documents') = Len(documents)
        /\ DOMAIN documents' = DOMAIN documents
    <2>1. documents' = [e \in DOMAIN documents |-> documents'[e]]
      OBVIOUS
    <2> QED
      BY <1>1, <2>1, RowsChanged
  <1>3. ASSUME NEW q \in points', q \notin N PROVE q \in points /\ q.doc # d
    BY <1>3 DEF RemovePoints, PointsOf
  <1>4. points' \subseteq Point
    BY <1>3 DEF KnowledgeIInv, Sound
  <1>5. ASSUME NEW q \in points'
        PROVE  /\ q.doc \in DOMAIN documents' /\ ~documents'[q.doc].deleted
               /\ documents'[q.doc].tenant \in collections'
    <2>1. CASE q \in N
      BY <2>1, <1>2
    <2>2. CASE q \notin N
      BY <2>2, <1>2, <1>3 DEF KnowledgeIInv, Sound
    <2> QED
      BY <2>1, <2>2
  <1>6. ASSUME NEW p \in points', NEW q \in points', p.doc = q.doc PROVE p.version = q.version
    <2>1. CASE p \in N /\ q \in N
      BY <2>1
    <2>2. CASE p \notin N /\ q \notin N
      BY <2>2, <1>3, <1>6 DEF KnowledgeIInv, Sound
    <2> QED
      BY <2>1, <2>2, <1>3, <1>6
  <1>7. Sound(documents', points', collections')
    BY <1>1, <1>2, <1>4, <1>5, <1>6 DEF Sound
  <1>8. ASSUME NEW e \in DOMAIN documents' PROVE Holds(documents'[e], e, PointsOf(e)')
    <2>1. CASE e = d
      <3>1. PointsOf(d)' = N
        BY <1>3 DEF PointsOf, RemovePoints
      <3>2. PointsOf(e)' = N
        BY <2>1, <3>1 DEF PointsOf
      <3> QED
        BY <2>1, <3>2
    <2>2. CASE e # d
      <3>1. PointsOf(e)' = PointsOf(e)
        BY <2>2 DEF PointsOf, RemovePoints
      <3> QED
        BY <2>2, <3>1, <1>2 DEF KnowledgeIInv
    <2> QED
      BY <2>1, <2>2
  <1> QED
    BY <1>7, <1>8 DEF KnowledgeIInv

\* A collection comes, and nothing else.
LEMMA CollectionKeeps ==
    ASSUME KnowledgeIInv, NEW t \in Tenants, CollectionAttempted(t), UNCHANGED <<documents, points>>
    PROVE  KnowledgeIInv'
  BY DEF KnowledgeIInv, Sound, CollectionAttempted, PointsOf

\* A document that is inserted has no points, and is not indexed.
LEMMA NewDocumentKeeps ==
    ASSUME KnowledgeIInv, NEW t \in Tenants, NEW n \in 0 .. MaxChunks, Len(documents) < MaxDocuments,
           documents' = NewDocument(t, n), points' = points,
           collections \subseteq collections', collections' \subseteq Tenants
    PROVE  KnowledgeIInv'
  <1> DEFINE row == [tenant |-> t, deleted |-> FALSE, indexed |-> FALSE, version |-> 1,
                     chunks |-> n, contents |-> 1, stale |-> FALSE]
             d == Len(documents) + 1
  <1>1. documents' = Inserted(documents, row)
    BY DEF NewDocument
  <1>2. documents \in Seq(KnowledgeDocument) /\ row \in KnowledgeDocument
    BY KnowledgeAssumption DEF KnowledgeIInv, Sound, KnowledgeDocument
  <1>3. ~row.indexed
    OBVIOUS
  <1> HIDE DEF row
  <1>4. /\ documents' \in Seq(KnowledgeDocument) /\ Len(documents') = d
        /\ DOMAIN documents' = DOMAIN documents \cup {d} /\ d \notin DOMAIN documents
        /\ \A i \in DOMAIN documents : documents'[i] = documents[i]
        /\ documents'[d] = row
    BY <1>1, <1>2 DEF Inserted
  <1>5. Len(documents') <= MaxDocuments
    BY <1>2, <1>4, KnowledgeAssumption
  <1>6. Sound(documents', points', collections')
    BY <1>4, <1>5 DEF KnowledgeIInv, Sound
  <1>7. ASSUME NEW e \in DOMAIN documents' PROVE Holds(documents'[e], e, PointsOf(e)')
    <2>1. PointsOf(e)' = PointsOf(e)
      BY DEF PointsOf
    <2>2. CASE e = d
      <3>1. PointsOf(e) = {}
        BY <2>2, <1>4 DEF KnowledgeIInv, Sound, PointsOf
      <3> QED
        BY <2>1, <2>2, <3>1, <1>3, <1>4 DEF Holds
    <2>3. CASE e # d
      BY <2>1, <2>3, <1>4 DEF KnowledgeIInv
    <2> QED
      BY <2>2, <2>3
  <1> QED
    BY <1>6, <1>7 DEF KnowledgeIInv

\* The handlers, one by one.
LEMMA CreateDocumentKeeps ==
    ASSUME KnowledgeIInv, NEW t \in Tenants, NEW n \in 1 .. MaxChunks, CreateDocument(t, n)
    PROVE  KnowledgeIInv'
  <1>1. n \in 0 .. MaxChunks
    OBVIOUS
  <1>2. collections' = collections /\ collections \subseteq Tenants
    BY DEF CreateDocument, KnowledgeIInv, Sound
  <1> QED
    BY <1>1, <1>2, NewDocumentKeeps DEF CreateDocument

LEMMA UploadDocumentKeeps ==
    ASSUME KnowledgeIInv, NEW t \in Tenants, NEW n \in 0 .. MaxChunks, UploadDocument(t, n)
    PROVE  KnowledgeIInv'
  <1>1. /\ Len(documents) < MaxDocuments /\ points' = points
        /\ collections \subseteq collections' /\ collections' \subseteq Tenants
    BY DEF UploadDocument, CollectionAttempted, KnowledgeIInv, Sound
  <1>2. CASE documents' = NewDocument(t, n)
    BY <1>1, <1>2, NewDocumentKeeps
  <1>3. CASE documents' = documents
    BY <1>1, <1>3, CollectionKeeps DEF UploadDocument
  <1> QED
    BY <1>2, <1>3 DEF UploadDocument

\* Each end of an update is a change of the document's row and points.
LEMMA UpdateDocumentKeeps ==
    ASSUME KnowledgeIInv, NEW t \in Tenants, NEW d, NEW n \in 0 .. MaxChunks, NEW metadata \in BOOLEAN,
           UpdateDocument(t, d, n, metadata)
    PROVE  KnowledgeIInv'
  <1> DEFINE given == documents[d].contents + 1
             old == [documents EXCEPT ![d].contents = @ + 1]
             changed == [old EXCEPT ![d].version = old[d].contents, ![d].chunks = n]
             Renewed(docs) == /\ docs = [e \in DOMAIN documents |-> docs[e]]
                              /\ \A e \in DOMAIN documents : e # d => docs[e] = documents[e]
                              /\ docs[d] \in KnowledgeDocument
                              /\ docs[d].tenant = documents[d].tenant
                              /\ ~docs[d].deleted
  <1>1. /\ d \in DOMAIN documents /\ documents[d].tenant = t /\ ~documents[d].deleted
        /\ documents[d].contents < MaxVersions
        /\ documents \in Seq(KnowledgeDocument) /\ documents[d] \in KnowledgeDocument
        /\ points \subseteq Point /\ collections \subseteq Tenants
    BY DEF UpdateDocument, Gets, KnowledgeIInv, Sound
  <1>2. given \in 1 .. MaxVersions
    BY <1>1, KnowledgeAssumption DEF KnowledgeDocument
  <1>3. /\ old = [e \in DOMAIN documents |-> old[e]]
        /\ \A e \in DOMAIN documents : e # d => old[e] = documents[e]
        /\ old[d] = [documents[d] EXCEPT !.contents = given]
    BY <1>1
  <1>4. /\ Renewed(old) /\ old[d].stale = documents[d].stale /\ old[d].indexed = documents[d].indexed
        /\ old[d].version = documents[d].version /\ old[d].chunks = documents[d].chunks
        /\ old[d].contents = given
    <2>1. /\ old[d] \in KnowledgeDocument /\ old[d].tenant = documents[d].tenant
          /\ old[d].deleted = documents[d].deleted
          /\ old[d].stale = documents[d].stale /\ old[d].indexed = documents[d].indexed
          /\ old[d].version = documents[d].version /\ old[d].chunks = documents[d].chunks
          /\ old[d].contents = given
      BY <1>1, <1>2, <1>3 DEF KnowledgeDocument
    <2> QED
      BY <1>1, <1>3, <2>1
  <1> HIDE DEF old
  <1>5. /\ changed = [e \in DOMAIN documents |-> changed[e]]
        /\ \A e \in DOMAIN documents : e # d => changed[e] = documents[e]
        /\ changed[d] = [old[d] EXCEPT !.version = given, !.chunks = n]
    <2>1. /\ old = [e \in DOMAIN documents |-> old[e]] /\ old[d].contents = given
          /\ \A e \in DOMAIN documents : e # d => old[e] = documents[e]
      BY <1>3, <1>4
    <2> QED
      BY <1>1, <2>1
  <1>6. /\ Renewed(changed) /\ changed[d].version = given /\ changed[d].chunks = n
    <2>1. /\ changed[d] \in KnowledgeDocument /\ changed[d].tenant = documents[d].tenant
          /\ ~changed[d].deleted /\ changed[d].version = given /\ changed[d].chunks = n
      <3> HIDE DEF changed, given
      <3>1. old[d] \in KnowledgeDocument /\ ~old[d].deleted /\ n \in 0 .. MaxChunks
            /\ old[d].tenant = documents[d].tenant /\ given \in 1 .. MaxVersions
            /\ changed[d] = [old[d] EXCEPT !.version = given, !.chunks = n]
        BY <1>2, <1>4, <1>5
      <3> QED
        BY <3>1 DEF KnowledgeDocument
    <2> QED
      BY <1>5, <2>1
  <1> HIDE DEF changed
  <1>7. ASSUME NEW docs, Renewed(docs), d \in DOMAIN docs
        PROVE  /\ Renewed(Stale(docs, d)) /\ Stale(docs, d)[d].stale
               /\ Renewed(Indexed(docs, d)) /\ Indexed(docs, d)[d].indexed
               /\ Indexed(docs, d)[d].version = docs[d].version
               /\ Indexed(docs, d)[d].chunks = docs[d].chunks
    <2>1. docs = [e \in DOMAIN documents |-> docs[e]] /\ docs[d] \in KnowledgeDocument
      BY <1>7
    <2>2. /\ Stale(docs, d) = [e \in DOMAIN documents |-> Stale(docs, d)[e]]
          /\ \A e \in DOMAIN documents : e # d => Stale(docs, d)[e] = docs[e]
          /\ Stale(docs, d)[d] = [docs[d] EXCEPT !.stale = TRUE]
      BY <1>1, <2>1 DEF Stale
    <2>3. /\ Indexed(docs, d) = [e \in DOMAIN documents |-> Indexed(docs, d)[e]]
          /\ \A e \in DOMAIN documents : e # d => Indexed(docs, d)[e] = docs[e]
          /\ Indexed(docs, d)[d] = [docs[d] EXCEPT !.indexed = TRUE, !.stale = FALSE]
      BY <1>1, <2>1 DEF Indexed
    <2>4. /\ Stale(docs, d)[d] \in KnowledgeDocument /\ Stale(docs, d)[d].tenant = docs[d].tenant
          /\ Stale(docs, d)[d].deleted = docs[d].deleted /\ Stale(docs, d)[d].stale
      BY <2>1, <2>2 DEF KnowledgeDocument
    <2>5. /\ Indexed(docs, d)[d] \in KnowledgeDocument /\ Indexed(docs, d)[d].tenant = docs[d].tenant
          /\ Indexed(docs, d)[d].deleted = docs[d].deleted /\ Indexed(docs, d)[d].indexed
          /\ Indexed(docs, d)[d].version = docs[d].version /\ Indexed(docs, d)[d].chunks = docs[d].chunks
      BY <2>1, <2>3 DEF KnowledgeDocument
    <2> QED
      BY <1>7, <2>2, <2>3, <2>4, <2>5
  <1>8. d \in DOMAIN old /\ d \in DOMAIN changed
    BY <1>1, <1>4, <1>6
  <1> DEFINE N == ChunkText(changed[d], d)
  <1>9. \/ /\ documents' \in {old, Stale(changed, d)}
           /\ points' = points /\ collections' = collections
        \/ /\ documents' \in {Stale(old, d), Stale(changed, d)}
           /\ points' = RemovePoints(d) /\ CollectionAttempted(t)
        \/ /\ n > 0
           /\ documents' \in {Stale(old, d), Stale(changed, d), Indexed(changed, d)}
           /\ points' = UpsertPoints(RemovePoints(d), N) /\ CreateCollection(t)
    BY DEF UpdateDocument, old, changed
  <1>10. ASSUME NEW S \in SUBSET Point, Renewed(documents'), points' = RemovePoints(d) \cup S,
                collections \subseteq collections', collections' \subseteq Tenants,
                \A q \in S : q.doc = d /\ t \in collections',
                \A p, q \in S : p.version = q.version, Holds(documents'[d], d, S)
         PROVE  KnowledgeIInv'
    BY <1>1, <1>10, ChangeKeeps
  <1>11. /\ Renewed(Stale(old, d)) /\ Stale(old, d)[d].stale
         /\ Renewed(Stale(changed, d)) /\ Stale(changed, d)[d].stale
         /\ Renewed(Indexed(changed, d)) /\ Indexed(changed, d)[d].indexed
         /\ Indexed(changed, d)[d].version = given /\ Indexed(changed, d)[d].chunks = n
    BY <1>4, <1>6, <1>7, <1>8
  <1> HIDE DEF Renewed
  <1>12. CASE /\ documents' \in {old, Stale(changed, d)}
              /\ points' = points /\ collections' = collections
    <2>1. points' = RemovePoints(d) \cup PointsOf(d) /\ PointsOf(d) \subseteq Point
      BY <1>1, <1>12 DEF RemovePoints, PointsOf
    <2>2. \A q \in PointsOf(d) : q.doc = d /\ t \in collections'
      BY <1>1, <1>12 DEF PointsOf, KnowledgeIInv, Sound
    <2>3. \A p, q \in PointsOf(d) : p.version = q.version
      BY DEF PointsOf, KnowledgeIInv, Sound
    <2>4. Renewed(documents')
      BY <1>4, <1>11, <1>12
    <2>5. Holds(documents'[d], d, PointsOf(d))
      <3>1. CASE documents' = Stale(changed, d)
        BY <3>1, <1>11 DEF Holds
      <3>2. CASE documents' = old
        <4>1. ChunkText(old[d], d) = ChunkText(documents[d], d)
          BY <1>4 DEF ChunkText
        <4>2. Holds(documents[d], d, PointsOf(d))
          BY <1>1 DEF KnowledgeIInv
        <4> QED
          BY <3>2, <4>1, <4>2, <1>1, <1>4 DEF Holds
      <3> QED
        BY <3>1, <3>2, <1>12
    <2> QED
      BY <2>1, <2>2, <2>3, <2>4, <2>5, <1>1, <1>10, <1>12
  <1>13. CASE /\ documents' \in {Stale(old, d), Stale(changed, d)}
              /\ points' = RemovePoints(d) /\ CollectionAttempted(t)
    <2>1. points' = RemovePoints(d) \cup {} /\ Renewed(documents')
      BY <1>11, <1>13
    <2>2. collections \subseteq collections' /\ collections' \subseteq Tenants
      BY <1>1, <1>13 DEF CollectionAttempted
    <2>3. Holds(documents'[d], d, {})
      BY <1>11, <1>13 DEF Holds
    <2> QED
      BY <2>1, <2>2, <2>3, <1>10
  <1>14. CASE /\ n > 0
              /\ documents' \in {Stale(old, d), Stale(changed, d), Indexed(changed, d)}
              /\ points' = UpsertPoints(RemovePoints(d), N) /\ CreateCollection(t)
    <2>1. \A q \in N : /\ q.doc = d /\ q.chunk \in 1 .. n /\ q.version = given
                       /\ q = [doc |-> q.doc, chunk |-> q.chunk, version |-> q.version]
      BY <1>6, ChunkTextIs
    <2>2. N \subseteq Point
      <3>1. d \in 1 .. MaxDocuments /\ 1 .. n \subseteq 1 .. MaxChunks
        BY <1>1, KnowledgeAssumption DEF KnowledgeIInv, Sound
      <3> QED
        BY <2>1, <3>1, <1>2 DEF Point
    <2>3. points' = RemovePoints(d) \cup N
      <3>1. \A q \in RemovePoints(d) : q.doc # d
        BY DEF RemovePoints, PointsOf
      <3>2. \A q \in RemovePoints(d) : \A r \in N : <<q.doc, q.chunk>> # <<r.doc, r.chunk>>
        BY <2>1, <3>1
      <3> QED
        BY <3>2, <1>14 DEF UpsertPoints
    <2>4. collections' = collections \cup {t} /\ collections' \subseteq Tenants
      BY <1>1, <1>14 DEF CreateCollection
    <2>5. Renewed(documents')
      BY <1>11, <1>14
    <2>6. Holds(documents'[d], d, N)
      <3>1. ChunkText(Indexed(changed, d)[d], d) = N
        BY <1>6, <1>11 DEF ChunkText
      <3> QED
        BY <3>1, <1>11, <1>14 DEF Holds
    <2> HIDE DEF N
    <2> QED
      BY <2>1, <2>2, <2>3, <2>4, <2>5, <2>6, <1>10
  <1> QED
    BY <1>9, <1>12, <1>13, <1>14

\* The points go before the row does.
LEMMA DeleteDocumentKeeps ==
    ASSUME KnowledgeIInv, NEW t \in Tenants, NEW d, DeleteDocument(t, d)
    PROVE  KnowledgeIInv'
  <1>1. /\ d \in DOMAIN documents /\ documents[d] \in KnowledgeDocument
        /\ documents \in Seq(KnowledgeDocument)
        /\ documents' \in {[documents EXCEPT ![d].deleted = TRUE], [documents EXCEPT ![d].stale = TRUE]}
        /\ points' = RemovePoints(d) \cup {}
        /\ collections' = collections /\ collections \subseteq Tenants
    BY DEF DeleteDocument, Gets, SoftDeleted, Stale, KnowledgeIInv, Sound
  <1>2. /\ documents' = [e \in DOMAIN documents |-> documents'[e]]
        /\ \A e \in DOMAIN documents : e # d => documents'[e] = documents[e]
        /\ documents'[d] \in {[documents[d] EXCEPT !.deleted = TRUE],
                              [documents[d] EXCEPT !.stale = TRUE]}
    BY <1>1
  <1>3. /\ documents'[d] \in KnowledgeDocument /\ documents'[d].tenant = documents[d].tenant
        /\ documents'[d].deleted \/ documents'[d].stale
    BY <1>1, <1>2 DEF KnowledgeDocument
  <1>4. Holds(documents'[d], d, {})
    BY <1>3 DEF Holds
  <1> QED
    BY <1>1, <1>2, <1>3, <1>4, ChangeKeeps

LEMMA KnowledgeInitIInv == KnowledgeInit => KnowledgeIInv
  <1> SUFFICES ASSUME KnowledgeInit PROVE KnowledgeIInv
    OBVIOUS
  <1>1. documents = <<>> /\ points = {} /\ collections = {}
    BY DEF KnowledgeInit
  <1>2. Sound(documents, points, collections)
    BY <1>1, KnowledgeAssumption DEF Sound
  <1>3. DOMAIN documents = {}
    BY <1>1
  <1> QED
    BY <1>2, <1>3 DEF KnowledgeIInv

LEMMA KnowledgeNextIInv == KnowledgeIInv /\ [KnowledgeNext]_knowledgeVars => KnowledgeIInv'
  <1> SUFFICES ASSUME KnowledgeIInv, [KnowledgeNext]_knowledgeVars PROVE KnowledgeIInv'
    OBVIOUS
  <1>1. CASE UNCHANGED knowledgeVars
    BY <1>1 DEF knowledgeVars, KnowledgeIInv, Sound, PointsOf
  <1>2. ASSUME NEW t \in Tenants, ReindexAll(t) PROVE KnowledgeIInv'
    BY <1>2, CollectionKeeps DEF ReindexAll
  <1>3. ASSUME NEW t \in Tenants, NEW d \in 1 .. MaxDocuments, IndexDocument(t, d)
        PROVE  KnowledgeIInv'
    BY <1>3, CollectionKeeps DEF IndexDocument
  <1> QED
    BY <1>1, <1>2, <1>3, CreateDocumentKeeps, UploadDocumentKeeps, UpdateDocumentKeeps,
       DeleteDocumentKeeps DEF KnowledgeNext

LEMMA KnowledgeSpecIInv == KnowledgeSpec => []KnowledgeIInv
  BY KnowledgeInitIInv, KnowledgeNextIInv, PTL DEF KnowledgeSpec

\* Documents, points and collections are what they are declared to be.
THEOREM KnowledgeTyped == KnowledgeSpec => []KnowledgeTypeOK
  <1>1. KnowledgeIInv => KnowledgeTypeOK
    BY DEF KnowledgeIInv, KnowledgeTypeOK, Sound
  <1> QED
    BY <1>1, KnowledgeSpecIInv, PTL

\* Whatever call of Qdrant or of the database fails, and in whatever order a
\* document is changed and deleted: its points are of one of its contents, and
\* unless a call has ended between the two stores they are the chunks of the
\* content that the row holds, all of them, if the row says it is indexed.
THEOREM IndexComplete == KnowledgeSpec => []IndexedIsComplete
  <1>1. ASSUME KnowledgeIInv, NEW d \in DOMAIN documents
        PROVE  /\ \A p, q \in PointsOf(d) : p.version = q.version
               /\ ~documents[d].deleted /\ ~documents[d].stale =>
                    PointsOf(d) = IF documents[d].indexed THEN ChunkText(documents[d], d) ELSE {}
    <2>1. \A p, q \in PointsOf(d) : p.version = q.version
      BY <1>1 DEF PointsOf, KnowledgeIInv, Sound
    <2> QED
      BY <2>1, <1>1 DEF KnowledgeIInv, Holds
  <1>2. KnowledgeIInv => IndexedIsComplete
    BY <1>1 DEF IndexedIsComplete
  <1> QED
    BY <1>2, KnowledgeSpecIInv, PTL

LEMMA PointsAreFinite == IsFiniteSet(Point)
  <1> DEFINE All == (1 .. MaxDocuments) \X ((1 .. MaxChunks) \X (1 .. MaxVersions))
             f == [q \in Point |-> <<q.doc, <<q.chunk, q.version>>>>]
  <1>1. IsFiniteSet(All)
    <2>1. /\ IsFiniteSet(1 .. MaxDocuments) /\ IsFiniteSet(1 .. MaxChunks)
          /\ IsFiniteSet(1 .. MaxVersions)
      <3>1. MaxDocuments \in Int /\ MaxChunks \in Int /\ MaxVersions \in Int /\ 1 \in Int
        BY KnowledgeAssumption
      <3> QED
        BY <3>1, FS_Interval
    <2>2. IsFiniteSet((1 .. MaxChunks) \X (1 .. MaxVersions))
      BY <2>1, FS_Product
    <2> QED
      BY <2>1, <2>2, FS_Product
  <1>2. f \in [Point -> All]
    BY DEF Point
  <1>3. ASSUME NEW q \in Point, NEW r \in Point, f[q] = f[r] PROVE q = r
    <2>1. q.doc = r.doc /\ q.chunk = r.chunk /\ q.version = r.version
      BY <1>3
    <2> QED
      BY <2>1 DEF Point
  <1> HIDE DEF f, All
  <1>4. f \in Injection(Point, All)
    BY <1>2, <1>3 DEF Injection, IsInjective
  <1> QED
    BY <1>1, <1>4, FS_Injection

\* The row and the index agree on what a tenant's readers see: a search finds
\* chunks of documents that the table lists, and every chunk of them; list and get
\* refuse the same documents; and no document is counted as indexed without a chunk
\* that is counted too, unless its row and its points have parted.
THEOREM KnowledgeViews == KnowledgeSpec => []KnowledgeViewsAgree
  <1>1. ASSUME KnowledgeIInv PROVE KnowledgeViewsAgree
    <2> SUFFICES ASSUME NEW t \in Tenants
                 PROVE  /\ \A found \in SearchDocuments(t, 1) : \A q \in found :
                                q.doc \in Listed(documents, t)
                        /\ UNION {PointsOf(d) : d \in OfTenant(documents, t)} = Search(t)
                        /\ (\A p \in 1 .. MaxDocuments : ListDocuments(t, p, 1) = "empty")
                            <=> (\A d \in DOMAIN documents : GetDocument(t, d) = "not_found")
                        /\ (\A d \in OfTenant(documents, t) :
                                ~documents[d].deleted /\ ~documents[d].stale)
                            => DocumentCount(t) <= ChunkCount(t)
      BY DEF KnowledgeViewsAgree
    <2>1. Sound(documents, points, collections) /\ documents \in Seq(KnowledgeDocument)
      BY <1>1 DEF KnowledgeIInv, Sound
    <2>2. Search(t) = UNION {PointsOf(d) : d \in OfTenant(documents, t)}
      <3>1. CASE t \notin collections
        <4>1. ASSUME NEW d \in OfTenant(documents, t) PROVE PointsOf(d) = {}
          BY <3>1, <2>1 DEF PointsOf, OfTenant, Sound
        <4> QED
          BY <4>1, <3>1 DEF Search
      <3> QED
        BY <3>1 DEF Search
    <2>3. \A q \in Search(t) : q \in points /\ q.doc \in Listed(documents, t)
      BY <2>1, <2>2 DEF PointsOf, OfTenant, NotDeleted, Listed, Sound
    <2>4. (\A p \in 1 .. MaxDocuments : ListDocuments(t, p, 1) = "empty")
            <=> (\A d \in DOMAIN documents : GetDocument(t, d) = "not_found")
      <3> DEFINE ids == Listed(documents, t)
      <3>1. Len(documents) \in 0 .. MaxDocuments /\ MaxDocuments \in Nat /\ ids \subseteq 1 .. Len(documents)
        BY <2>1, KnowledgeAssumption DEF Sound, Listed, OfTenant
      <3>2. UNION {Page(ids, p, 1) : p \in 1 .. MaxDocuments} = ids
        BY <3>1, WalkShowsAll
      <3>3. \A p \in 1 .. MaxDocuments : ListDocuments(t, p, 1) = "empty" <=> Page(ids, p, 1) = {}
        BY DEF ListDocuments
      <3>4. \A d \in DOMAIN documents : GetDocument(t, d) = "not_found" <=> d \notin ids
        BY DEF GetDocument, Gets, Listed, OfTenant, NotDeleted
      <3>5. ids \subseteq DOMAIN documents
        BY DEF Listed, OfTenant
      <3> HIDE DEF ids
      <3> QED
        BY <3>2, <3>3, <3>4, <3>5
    <2>5. ASSUME \A d \in OfTenant(documents, t) : ~documents[d].deleted /\ ~documents[d].stale
          PROVE  DocumentCount(t) <= ChunkCount(t)
      <3> DEFINE S == {d \in OfTenant(documents, t) : documents[d].indexed}
                 First(d) == [doc |-> d, chunk |-> 1, version |-> documents[d].version]
                 f == [d \in S |-> First(d)]
      <3>1. ASSUME NEW d \in S PROVE First(d) \in Search(t)
        <4>1. /\ d \in OfTenant(documents, t) /\ documents[d] \in KnowledgeDocument
              /\ documents[d].chunks > 0 /\ PointsOf(d) = ChunkText(documents[d], d)
          BY <2>5, <2>1, <1>1 DEF OfTenant, KnowledgeIInv, Holds
        <4>2. First(d) \in ChunkText(documents[d], d)
          BY <4>1, KnowledgeAssumption DEF ChunkText, KnowledgeDocument
        <4> QED
          BY <4>1, <4>2, <2>2
      <3>2. f \in [S -> Search(t)]
        BY <3>1
      <3>3. \A d, e \in S : f[d] = f[e] => d = e
        OBVIOUS
      <3>4. IsFiniteSet(Search(t))
        <4>1. Search(t) \subseteq Point
          BY <2>1, <2>3 DEF Sound
        <4> QED
          BY <4>1, PointsAreFinite, FS_Subset
      <3> HIDE DEF f
      <3>5. f \in Injection(S, Search(t))
        BY <3>2, <3>3 DEF Injection, IsInjective
      <3> HIDE DEF S
      <3>6. Cardinality(S) <= Cardinality(Search(t))
        BY <3>4, <3>5, FS_Injection
      <3> QED
        BY <3>6 DEF S, DocumentCount, ChunkCount
    <2> QED
      BY <2>2, <2>3, <2>4, <2>5 DEF SearchDocuments
  <1> QED
    BY <1>1, KnowledgeSpecIInv, PTL
-----------------------------------------------------------------------------
(***************************************************************************)
(* Media.  File names are counted up and never used again, so that no      *)
(* deletion takes another row's file away.                                 *)
(***************************************************************************)
NamesCounted == \A a \in DOMAIN media : media[a].file <= named

MediaIInv == MediaTypeOK /\ NamesCounted /\ FilesFollowRows

LEMMA MediaInitIInv == MediaInit => MediaIInv
  BY MediaAssumption DEF MediaInit, MediaIInv, MediaTypeOK, NamesCounted, FilesFollowRows, NotDeleted

LEMMA FileCategoryIs ==
    ASSUME NEW mime \in MimeType
    PROVE  FileCategory(mime) \in Categories
  BY DEF FileCategory, Categories, MimeType, Majors

\* An upload that is let in, as a row.
Uploaded(new, n, b, f) ==
    /\ new \in Seq(MediaAsset) /\ Len(new) = n
    /\ DOMAIN new = DOMAIN media \cup {n} /\ n \notin DOMAIN media
    /\ \A a \in DOMAIN media : new[a] = media[a]
    /\ new[n].file = f /\ new[n].backend = b

LEMMA NewAssetIs ==
    ASSUME MediaIInv, NEW t \in Tenants, NEW upload \in Accepted, NEW b \in Backends,
           NEW f \in 1 .. MaxFiles, NEW new, new = NewAsset(t, upload, b, f),
           NEW n, n = Len(media) + 1
    PROVE  Uploaded(new, n, b, f)
  <1> DEFINE mime == DetectedMime(upload)
             row == [tenant |-> t, deleted |-> FALSE, backend |-> b, file |-> f, mime |-> mime,
                     size |-> upload.size, category |-> FileCategory(mime), halved |-> FALSE]
  <1>1. mime \in MimeType /\ FileCategory(mime) \in Categories
    BY MediaAssumption, FileCategoryIs DEF Accepted, ValidateFile
  <1>2. upload.size \in 1 .. MaxSize
    <2>1. upload.size \in 0 .. MaxSize /\ upload.size \in 1 .. SizeLimit[FileCategory(mime)]
      BY DEF Accepted, Uploads, ValidateFile
    <2>2. SizeLimit[FileCategory(mime)] \in Nat /\ MaxSize \in Nat
      BY <1>1, MediaAssumption
    <2> QED
      BY <2>1, <2>2
  <1> HIDE DEF mime
  <1>3. row \in MediaAsset
    BY <1>1, <1>2 DEF MediaAsset
  <1>4. NewAsset(t, upload, b, f) = Inserted(media, row)
    BY DEF NewAsset, mime
  <1>5. row.file = f /\ row.backend = b
    OBVIOUS
  <1>6. media \in Seq(MediaAsset)
    BY DEF MediaIInv, MediaTypeOK
  <1> HIDE DEF row
  <1> QED
    BY <1>3, <1>4, <1>5, <1>6 DEF Inserted, Uploaded

LEMMA UploadMediaKeeps ==
    ASSUME MediaIInv, NEW t \in Tenants, UploadMedia(t)
    PROVE  MediaIInv'
  <1>1. PICK upload \in Accepted : UploadFile(t, upload) /\ UNCHANGED <<minio, thumbnails>>
    BY DEF UploadMedia
  <1>2. /\ media \in Seq(MediaAsset) /\ Len(media) < MaxMedia
        /\ files \in [Backends -> SUBSET (1 .. MaxFiles)]
        /\ named \in 0 .. MaxFiles /\ named < MaxFiles /\ MaxFiles \in Nat /\ MaxMedia \in Nat
        /\ minio \in BOOLEAN /\ thumbnails \subseteq DOMAIN media
    BY <1>1, MediaAssumption DEF UploadFile, MediaIInv, MediaTypeOK
  <1>3. PICK b \in Backends, f \in 1 .. MaxFiles : b = Backend /\ f = named + 1
    <2>1. Backend \in Backends /\ named + 1 \in 1 .. MaxFiles
      BY <1>2 DEF Backend, Backends
    <2> QED
      BY <2>1
  <1>10. PICK new, n : new = NewAsset(t, upload, b, f) /\ n = Len(media) + 1
    OBVIOUS
  <1>4. /\ named' = f /\ files' = [files EXCEPT ![b] = @ \cup {f}]
        /\ media' = media \/ media' = new
    BY <1>1, <1>3, <1>10 DEF UploadFile, Stored
  <1>5. /\ files' \in [Backends -> SUBSET (1 .. MaxFiles)] /\ named' \in 0 .. MaxFiles
        /\ f \in files'[b] /\ \A c \in Backends : files[c] \subseteq files'[c]
        /\ minio' \in BOOLEAN
    BY <1>1, <1>2, <1>3, <1>4
  <1>6. ASSUME NEW a \in DOMAIN media
        PROVE  media[a] \in MediaAsset /\ media[a].file \in 1 .. MaxFiles /\ media[a].file < f
    <2>1. media[a] \in MediaAsset
      BY <1>2
    <2>2. media[a].file \in 1 .. MaxFiles
      BY <2>1 DEF MediaAsset
    <2>3. media[a].file <= named
      BY DEF MediaIInv, NamesCounted
    <2> QED
      BY <1>2, <1>3, <2>1, <2>2, <2>3
  <1>9. f \in Nat
    BY <1>2, <1>3
  <1>7. CASE media' = media
    <2>1. MediaTypeOK'
      BY <1>1, <1>2, <1>5, <1>7 DEF MediaTypeOK
    <2>2. NamesCounted'
      BY <1>4, <1>6, <1>7, <1>9 DEF NamesCounted
    <2>3. FilesFollowRows'
      <3>1. \A a \in DOMAIN media : media[a].backend \in Backends
        BY <1>6 DEF MediaAsset
      <3> QED
        BY <3>1, <1>5, <1>7 DEF MediaIInv, FilesFollowRows, NotDeleted
    <2> QED
      BY <2>1, <2>2, <2>3 DEF MediaIInv
  <1>8. CASE media' = new
    <2>1. /\ new \in Seq(MediaAsset) /\ Len(new) = n
          /\ DOMAIN new = DOMAIN media \cup {n} /\ n \notin DOMAIN media
          /\ \A a \in DOMAIN media : new[a] = media[a]
          /\ new[n].file = f /\ new[n].backend = b
      <3>1. Uploaded(new, n, b, f)
        BY <1>1, <1>3, <1>10, NewAssetIs
      <3> QED
        BY <3>1 DEF Uploaded
    <2>2. MediaTypeOK'
      BY <1>1, <1>2, <1>5, <1>8, <1>10, <2>1 DEF MediaTypeOK
    <2>3. NamesCounted'
      <3>1. \A a \in DOMAIN media : new[a].file <= f
        BY <1>6, <1>9, <2>1
      <3>2. new[n].file <= f
        BY <1>9, <2>1
      <3> QED
        BY <1>4, <1>8, <2>1, <3>1, <3>2 DEF NamesCounted
    <2>4. FilesFollowRows'
      <3>1. \A a \in DOMAIN media : new[a].file # f
        BY <1>6, <1>9, <2>1
      <3>2. \A a, c \in DOMAIN new : new[a].file = new[c].file => a = c
        BY <2>1, <3>1 DEF MediaIInv, FilesFollowRows
      <3>3. ASSUME NEW a \in DOMAIN new, ~new[a].deleted, ~new[a].halved
            PROVE  new[a].file \in files'[new[a].backend]
        <4>1. CASE a = n
          BY <4>1, <1>5, <2>1
        <4>2. CASE a \in DOMAIN media
          BY <4>2, <3>3, <1>5, <1>6, <2>1 DEF MediaIInv, FilesFollowRows, NotDeleted, MediaAsset
        <4> QED
          BY <4>1, <4>2, <2>1
      <3> QED
        BY <1>8, <3>2, <3>3 DEF FilesFollowRows, NotDeleted
    <2> QED
      BY <2>2, <2>3, <2>4 DEF MediaIInv
  <1> QED
    BY <1>4, <1>7, <1>8

\* Rows that keep their files: those whose file goes are deleted or halved.
LEMMA RemovedKeeps ==
    ASSUME MediaIInv, NEW D \in SUBSET DOMAIN media,
           media' = [a \in DOMAIN media |-> media'[a]],
           \A a \in DOMAIN media : media'[a] \in MediaAsset /\ media'[a].file = media[a].file
                                    /\ media'[a].backend = media[a].backend,
           \A a \in DOMAIN media \ D : media'[a] = media[a],
           \A a \in D : media'[a].deleted \/ media'[a].halved,
           files' \in [Backends -> SUBSET (1 .. MaxFiles)],
           \A b \in Backends : \A f \in files[b] : f \in files'[b] \/ \E a \in D : media[a].file = f,
           UNCHANGED <<named, minio, thumbnails>>
    PROVE  MediaIInv'
  <1>1. media \in Seq(MediaAsset) /\ Len(media) <= MaxMedia
    BY DEF MediaIInv, MediaTypeOK
  <1>2. /\ media' \in Seq(MediaAsset) /\ Len(media') = Len(media) /\ DOMAIN media' = DOMAIN media
    <2>1. \A a \in DOMAIN media : media'[a] \in MediaAsset
      OBVIOUS
    <2>2. media' = [a \in DOMAIN media |-> media'[a]]
      OBVIOUS
    <2> QED
      BY <1>1, <2>1, <2>2, RowsChanged
  <1>3. MediaTypeOK'
    BY <1>1, <1>2 DEF MediaIInv, MediaTypeOK
  <1>4. NamesCounted'
    BY <1>2 DEF MediaIInv, NamesCounted
  <1>5. FilesFollowRows'
    <2>1. \A a, c \in DOMAIN media' : media'[a].file = media'[c].file => a = c
      BY <1>2 DEF MediaIInv, FilesFollowRows
    <2>2. ASSUME NEW a \in DOMAIN media', ~media'[a].deleted, ~media'[a].halved
          PROVE  media'[a].file \in files'[media'[a].backend]
      <3>1. a \in DOMAIN media \ D /\ media'[a] = media[a] /\ media[a] \in MediaAsset
        BY <1>1, <1>2, <2>2
      <3>2. media[a].file \in files[media[a].backend] /\ media[a].backend \in Backends
        BY <2>2, <3>1 DEF MediaIInv, FilesFollowRows, NotDeleted, MediaAsset
      <3>3. ~\E d \in D : media[d].file = media[a].file
        BY <3>1 DEF MediaIInv, FilesFollowRows
      <3> QED
        BY <3>1, <3>2, <3>3
    <2> QED
      BY <2>1, <2>2 DEF FilesFollowRows, NotDeleted
  <1> QED
    BY <1>3, <1>4, <1>5 DEF MediaIInv

LEMMA DeleteMediaKeeps ==
    ASSUME MediaIInv, NEW t \in Tenants, NEW a, DeleteMedia(t, a)
    PROVE  MediaIInv'
  <1>1. /\ a \in DOMAIN media /\ media[a] \in MediaAsset /\ media \in Seq(MediaAsset)
        /\ files \in [Backends -> SUBSET (1 .. MaxFiles)]
        /\ RemoveFromStorage(a) /\ UNCHANGED <<named, minio, thumbnails>>
        /\ \/ media' = [media EXCEPT ![a].deleted = TRUE]
           \/ media' = [media EXCEPT ![a].halved = TRUE]
    BY DEF DeleteMedia, DeleteAssetRow, Gets, SoftDeleted, MediaIInv, MediaTypeOK
  <1>2. /\ media' = [d \in DOMAIN media |-> media'[d]]
        /\ \A d \in DOMAIN media : d # a => media'[d] = media[d]
        /\ \/ media'[a] = [media[a] EXCEPT !.deleted = TRUE]
           \/ media'[a] = [media[a] EXCEPT !.halved = TRUE]
    BY <1>1
  <1>3. /\ media'[a] \in MediaAsset /\ media'[a].file = media[a].file
        /\ media'[a].backend = media[a].backend /\ (media'[a].deleted \/ media'[a].halved)
    BY <1>1, <1>2 DEF MediaAsset
  <1>4. LookedFor(a) \in Backends
    BY DEF LookedFor, Backends
  <1>5. /\ files' \in [Backends -> SUBSET (1 .. MaxFiles)]
        /\ \A b \in Backends : \A f \in files[b] : f \in files'[b] \/ media[a].file = f
    BY <1>1, <1>4 DEF RemoveFromStorage
  <1>6. \A d \in DOMAIN media : media'[d] \in MediaAsset /\ media'[d].file = media[d].file
                                    /\ media'[d].backend = media[d].backend
    BY <1>1, <1>2, <1>3
  <1>7. /\ {a} \in SUBSET DOMAIN media
        /\ \A d \in DOMAIN media \ {a} : media'[d] = media[d]
        /\ \A d \in {a} : media'[d].deleted \/ media'[d].halved
        /\ \A b \in Backends : \A f \in files[b] : f \in files'[b] \/ \E d \in {a} : media[d].file = f
    BY <1>1, <1>2, <1>3, <1>5
  <1> QED
    BY <1>1, <1>2, <1>5, <1>6, <1>7, RemovedKeeps

LEMMA MediaNextIInv == MediaIInv /\ [MediaNext]_mediaVars => MediaIInv'
  <1> SUFFICES ASSUME MediaIInv, [MediaNext]_mediaVars PROVE MediaIInv'
    OBVIOUS
  <1>1. CASE UNCHANGED mediaVars
    BY <1>1 DEF mediaVars, MediaIInv, MediaTypeOK, NamesCounted, FilesFollowRows, NotDeleted
  <1>2. ASSUME NEW t \in Tenants, NEW a, GetMediaThumbnail(t, a) PROVE MediaIInv'
    BY <1>2 DEF GetMediaThumbnail, Gets, MediaIInv, MediaTypeOK, NamesCounted, FilesFollowRows, NotDeleted
  <1>3. CASE MediaRestart
    BY <1>3 DEF MediaRestart, MediaIInv, MediaTypeOK, NamesCounted, FilesFollowRows, NotDeleted
  <1> QED
    BY <1>1, <1>2, <1>3, UploadMediaKeeps, DeleteMediaKeeps DEF MediaNext

LEMMA MediaSpecIInv == MediaSpec => []MediaIInv
  BY MediaInitIInv, MediaNextIInv, PTL DEF MediaSpec

\* Rows, files and thumbnails are what they are declared to be.
THEOREM MediaTyped == MediaSpec => []MediaTypeOK
  <1>1. MediaIInv => MediaTypeOK
    BY DEF MediaIInv
  <1> QED
    BY <1>1, MediaSpecIInv, PTL

\* However a process is restarted with MinIO and without, and wherever an upload
\* or a deletion stops: an asset that get finds has its file where its row says,
\* unless its own deletion has gone half the way, and a file has one row.
THEOREM FilesFollow == MediaSpec => []FilesFollowRows
  <1>1. MediaIInv => FilesFollowRows
    BY DEF MediaIInv
  <1> QED
    BY <1>1, MediaSpecIInv, PTL

\* Lists and gets refuse alike, and the downloads of assets on the disk never depend
\* on the process, for any number of assets and restarts.
THEOREM MediaViews == MediaSpec => []MediaViewsAgree
  <1>1. ASSUME MediaIInv PROVE MediaViewsAgree
    <2> SUFFICES ASSUME NEW t \in Tenants
                 PROVE  /\ (\A p \in 1 .. MaxMedia : ListMedia(t, p, 1) = "empty")
                            <=> (\A a \in DOMAIN media : GetMedia(t, a) = "not_found")
                        /\ \A a \in {d \in DOMAIN media : Gets(media, d, t) /\ ~media[d].halved} :
                            /\ DownloadMedia(t, a) = "content" <=> media[a].backend = "local"
                            /\ media[a].backend = "minio" /\ minio => ReadAssetContent(a)
      BY DEF MediaViewsAgree
    <2> DEFINE ids == Listed(media, t)
    <2>1. UNION {Page(ids, p, 1) : p \in 1 .. MaxMedia} = ids
      <3>1. Len(media) \in 0 .. MaxMedia /\ MaxMedia \in Nat /\ ids \subseteq 1 .. Len(media)
        BY <1>1, MediaAssumption DEF MediaIInv, MediaTypeOK, Listed, OfTenant
      <3> HIDE DEF ids
      <3> QED
        BY <3>1, WalkShowsAll
    <2>2. \A p \in 1 .. MaxMedia : ListMedia(t, p, 1) = "empty" <=> Page(ids, p, 1) = {}
      BY DEF ListMedia
    <2>3. \A a \in DOMAIN media : GetMedia(t, a) = "not_found" <=> a \notin ids
      BY DEF GetMedia, Gets, Listed, OfTenant, NotDeleted
    <2>4. ids \subseteq DOMAIN media
      BY DEF Listed, OfTenant
    <2>5. ASSUME NEW a \in DOMAIN media, Gets(media, a, t), ~media[a].halved
          PROVE  /\ DownloadMedia(t, a) = "content" <=> media[a].backend = "local"
                 /\ media[a].backend = "minio" /\ minio => ReadAssetContent(a)
      <3>1. media[a].file \in files[media[a].backend]
        BY <1>1, <2>5 DEF Gets, MediaIInv, FilesFollowRows, NotDeleted
      <3>2. media[a].backend \in {"minio", "local"}
        <4>1. media[a] \in MediaAsset
          BY <1>1 DEF MediaIInv, MediaTypeOK
        <4> QED
          BY <4>1 DEF MediaAsset, Backends
      <3>3. CASE media[a].backend = "minio"
        BY <2>5, <3>1, <3>3 DEF DownloadMedia, DownloadUrl, ReadAssetContent, LookedFor
      <3>4. CASE media[a].backend = "local"
        BY <2>5, <3>1, <3>4 DEF DownloadMedia, ReadAssetContent, LookedFor
      <3> QED
        BY <3>2, <3>3, <3>4
    <2> HIDE DEF ids
    <2>6. (\A p \in 1 .. MaxMedia : Page(ids, p, 1) = {}) <=> ids = {}
      BY <2>1
    <2> QED
      BY <2>2, <2>3, <2>4, <2>5, <2>6
  <1> QED
    BY <1>1, MediaSpecIInv, PTL
-----------------------------------------------------------------------------
(***************************************************************************)
(* Contacts.  The score of a contact is that of the newest row among those *)
(* of its history, which are of its own tenant, or there is no such row.   *)
(***************************************************************************)
History(c) == {i \in DOMAIN scores : scores[i].tenant = contacts[c].tenant /\ scores[i].contact = c}

ScoreIsLast(c) ==
    \/ History(c) = {} /\ contacts[c].score = Unscored
    \/ \E i \in History(c) : (\A j \in History(c) : j <= i) /\ contacts[c].score = scores[i].score

ContactsIInv ==
    /\ ContactsTypeOK
    /\ Len(contacts) <= MaxContacts /\ Len(activities) <= MaxActivities /\ Len(fields) <= MaxFields
    /\ \A i \in DOMAIN scores : scores[i].contact \in DOMAIN contacts
    /\ \A c \in DOMAIN contacts : ScoreIsLast(c)

LEMMA ContactsInitIInv == ContactsInit => ContactsIInv
  BY ContactsAssumption DEF ContactsInit, ContactsIInv, ContactsTypeOK

LEMMA ContactTables ==
    ASSUME ContactsIInv
    PROVE  /\ contacts \in Seq(Contact) /\ Len(contacts) \in 0 .. MaxContacts
           /\ DOMAIN contacts = 1 .. Len(contacts) /\ MaxContacts \in Nat
           /\ scores \in Seq(LeadScore) /\ DOMAIN scores = 1 .. Len(scores) /\ Len(scores) \in Nat
           /\ activities \in Seq(Activity) /\ Len(activities) \in 0 .. MaxActivities
           /\ DOMAIN activities = 1 .. Len(activities) /\ MaxActivities \in Nat
           /\ fields \in Seq(CustomField) /\ Len(fields) \in 0 .. MaxFields
           /\ DOMAIN fields = 1 .. Len(fields) /\ MaxFields \in Nat
  BY ContactsAssumption DEF ContactsIInv, ContactsTypeOK

\* Neither a contact's tenant nor its score changes, and no history.
LEMMA ScoresRest ==
    ASSUME ContactsIInv, contacts' \in Seq(Contact), Len(contacts') = Len(contacts),
           DOMAIN contacts' = DOMAIN contacts,
           \A c \in DOMAIN contacts : /\ contacts'[c].tenant = contacts[c].tenant
                                      /\ contacts'[c].score = contacts[c].score,
           UNCHANGED scores,
           activities' \in Seq(Activity), Len(activities') <= MaxActivities,
           fields' \in Seq(CustomField), Len(fields') <= MaxFields
    PROVE  ContactsIInv'
  <1>1. ContactsTypeOK' /\ Len(contacts') <= MaxContacts
    BY DEF ContactsIInv, ContactsTypeOK
  <1>2. \A i \in DOMAIN scores' : scores'[i].contact \in DOMAIN contacts'
    BY DEF ContactsIInv
  <1>3. ASSUME NEW c \in DOMAIN contacts' PROVE ScoreIsLast(c)'
    <2>1. History(c)' = History(c)
      BY <1>3 DEF History
    <2>2. ScoreIsLast(c) /\ contacts'[c].score = contacts[c].score
      BY <1>3 DEF ContactsIInv
    <2> QED
      BY <2>1, <2>2 DEF ScoreIsLast
  <1> QED
    BY <1>1, <1>2, <1>3 DEF ContactsIInv

LEMMA CreateContactKeeps ==
    ASSUME ContactsIInv, NEW t \in Tenants, NEW name \in Words, CreateContact(t, name)
    PROVE  ContactsIInv'
  <1> DEFINE row == [tenant |-> t, deleted |-> FALSE, name |-> name, score |-> Unscored]
  <1> PICK n : n = Len(contacts) + 1
    OBVIOUS
  <1>1. /\ Len(contacts) < MaxContacts /\ contacts' = Append(contacts, row)
        /\ UNCHANGED <<scores, activities, fields>>
    BY DEF CreateContact
  <1>2. row \in Contact /\ row.score = Unscored
    BY DEF Contact
  <1> HIDE DEF row
  <1>3. Grown(contacts, contacts', row, Contact)
    BY <1>1, <1>2, ContactTables, RowInserted
  <1>4. /\ contacts' \in Seq(Contact) /\ Len(contacts') = n
        /\ DOMAIN contacts' = DOMAIN contacts \cup {n} /\ n \notin DOMAIN contacts
        /\ contacts'[n] = row /\ \A c \in DOMAIN contacts : contacts'[c] = contacts[c]
    BY <1>3 DEF Grown
  <1>5. Len(contacts') <= MaxContacts
    BY <1>1, <1>4, ContactTables
  <1>6. ContactsTypeOK'
    BY <1>1, <1>4 DEF ContactsIInv, ContactsTypeOK
  <1>7. \A i \in DOMAIN scores : scores[i].contact \in DOMAIN contacts
    BY DEF ContactsIInv
  <1>8. ASSUME NEW c \in DOMAIN contacts PROVE ScoreIsLast(c)'
    <2>1. History(c)' = History(c)
      BY <1>1, <1>4, <1>8 DEF History
    <2>2. ScoreIsLast(c) /\ contacts'[c].score = contacts[c].score
      BY <1>4, <1>8 DEF ContactsIInv
    <2> QED
      BY <1>1, <2>1, <2>2 DEF ScoreIsLast
  <1>9. ScoreIsLast(n)'
    <2>1. History(n)' = {}
      BY <1>1, <1>4, <1>7 DEF History
    <2>2. contacts'[n].score = Unscored
      BY <1>2, <1>4
    <2> QED
      BY <2>1, <2>2 DEF ScoreIsLast
  <1>10. \A c \in DOMAIN contacts' : ScoreIsLast(c)'
    BY <1>4, <1>8, <1>9
  <1> QED
    BY <1>1, <1>4, <1>5, <1>6, <1>7, <1>10 DEF ContactsIInv

LEMMA UpdateContactKeeps ==
    ASSUME ContactsIInv, NEW t \in Tenants, NEW c, NEW name \in Words,
           UpdateContact(t, c, name) \/ DeleteContact(t, c)
    PROVE  ContactsIInv'
  <1>1. /\ c \in DOMAIN contacts /\ UNCHANGED <<scores, activities, fields>>
        /\ contacts[c] \in Contact
    BY ContactTables DEF UpdateContact, DeleteContact, Gets
  <1>2. PICK new : /\ contacts' = [contacts EXCEPT ![c] = new]
                   /\ new = [contacts[c] EXCEPT !.name = name] \/ new = [contacts[c] EXCEPT !.deleted = TRUE]
    BY DEF UpdateContact, DeleteContact, SoftDeleted
  <1>3. new \in Contact /\ new.tenant = contacts[c].tenant /\ new.score = contacts[c].score
    BY <1>1, <1>2 DEF Contact
  <1>4. Rewritten(contacts, contacts', c, new, Contact)
    BY <1>1, <1>2, <1>3, ContactTables, RowReplaced
  <1>5. /\ contacts' \in Seq(Contact) /\ Len(contacts') = Len(contacts)
        /\ DOMAIN contacts' = DOMAIN contacts
        /\ \A d \in DOMAIN contacts : /\ contacts'[d].tenant = contacts[d].tenant
                                      /\ contacts'[d].score = contacts[d].score
    BY <1>3, <1>4 DEF Rewritten
  <1>6. /\ activities' \in Seq(Activity) /\ Len(activities') <= MaxActivities
        /\ fields' \in Seq(CustomField) /\ Len(fields') <= MaxFields
    BY <1>1, ContactTables
  <1> QED
    BY <1>1, <1>5, <1>6, ScoresRest

LEMMA UpdateLeadScoreKeeps ==
    ASSUME ContactsIInv, NEW t \in Tenants, NEW c, NEW s \in Scores, UpdateLeadScore(t, c, s)
    PROVE  ContactsIInv'
  <1> DEFINE new == [contacts[c] EXCEPT !.score = s]
             row == [tenant |-> t, contact |-> c, score |-> s]
             n == Len(scores) + 1
  <1>1. /\ c \in DOMAIN contacts /\ contacts[c].tenant = t /\ contacts[c] \in Contact /\ c \in Nat
        /\ contacts' = [contacts EXCEPT ![c] = new] /\ scores' = Append(scores, row)
        /\ UNCHANGED <<activities, fields>>
    BY ContactTables DEF UpdateLeadScore, Gets, Noted
  <1>2. /\ new \in Contact /\ new.tenant = t /\ new.score = s
        /\ row \in LeadScore /\ row.tenant = t /\ row.contact = c /\ row.score = s
    BY <1>1 DEF Contact, LeadScore
  <1> HIDE DEF new, row
  <1>3. Rewritten(contacts, contacts', c, new, Contact)
    BY <1>1, <1>2, ContactTables, RowReplaced
  <1>4. /\ contacts' \in Seq(Contact) /\ Len(contacts') = Len(contacts)
        /\ DOMAIN contacts' = DOMAIN contacts /\ contacts'[c] = new
        /\ \A d \in DOMAIN contacts \ {c} : contacts'[d] = contacts[d]
    BY <1>3 DEF Rewritten
  <1>5. Grown(scores, scores', row, LeadScore)
    BY <1>1, <1>2, ContactTables, RowInserted
  <1>6. /\ scores' \in Seq(LeadScore) /\ DOMAIN scores' = DOMAIN scores \cup {n}
        /\ n \notin DOMAIN scores /\ scores'[n] = row
        /\ \A i \in DOMAIN scores : scores'[i] = scores[i]
    BY <1>5 DEF Grown
  <1>7. n \in Nat /\ \A i \in DOMAIN scores' : i <= n
    BY <1>6, ContactTables
  <1> HIDE DEF n
  <1>8. ContactsTypeOK'
    BY <1>1, <1>4, <1>6 DEF ContactsIInv, ContactsTypeOK
  <1>9. \A i \in DOMAIN scores' : scores'[i].contact \in DOMAIN contacts'
    BY <1>1, <1>2, <1>4, <1>6 DEF ContactsIInv
  <1>10. ScoreIsLast(c)'
    <2>1. n \in History(c)'
      BY <1>2, <1>4, <1>6 DEF History
    <2>2. \A j \in History(c)' : j <= n
      BY <1>7 DEF History
    <2>3. contacts'[c].score = scores'[n].score
      BY <1>2, <1>4, <1>6
    <2> QED
      BY <2>1, <2>2, <2>3 DEF ScoreIsLast
  <1>11. ASSUME NEW d \in DOMAIN contacts \ {c} PROVE ScoreIsLast(d)'
    <2>1. History(d)' = History(d)
      BY <1>2, <1>4, <1>6, <1>11 DEF History
    <2>2. \A i \in History(d) : scores'[i] = scores[i]
      BY <1>6 DEF History
    <2>3. ScoreIsLast(d) /\ contacts'[d] = contacts[d]
      BY <1>4, <1>11 DEF ContactsIInv
    <2> QED
      BY <2>1, <2>2, <2>3 DEF ScoreIsLast
  <1>12. \A d \in DOMAIN contacts' : ScoreIsLast(d)'
    BY <1>4, <1>10, <1>11
  <1>13. Len(contacts') <= MaxContacts /\ Len(activities') <= MaxActivities /\ Len(fields') <= MaxFields
    BY <1>1, <1>4 DEF ContactsIInv
  <1> QED
    BY <1>8, <1>9, <1>12, <1>13 DEF ContactsIInv

\* What is about activities and custom fields.
LEMMA OthersRest ==
    ASSUME ContactsIInv, UNCHANGED <<contacts, scores>>,
           activities' \in Seq(Activity), Len(activities') <= MaxActivities,
           fields' \in Seq(CustomField), Len(fields') <= MaxFields
    PROVE  ContactsIInv'
  BY DEF ContactsIInv, ContactsTypeOK, ScoreIsLast, History

LEMMA CreateActivityKeeps ==
    ASSUME ContactsIInv, NEW t \in Tenants, CreateActivity(t)
    PROVE  ContactsIInv'
  <1>1. PICK c \in DOMAIN contacts :
            /\ Len(activities) < MaxActivities
            /\ activities' = Append(activities, [tenant |-> t, deleted |-> FALSE, contact |-> c])
            /\ UNCHANGED <<contacts, scores, fields>>
    BY DEF CreateActivity
  <1> DEFINE row == [tenant |-> t, deleted |-> FALSE, contact |-> c]
  <1>2. row \in Activity
    BY <1>1, ContactTables DEF Activity
  <1>3. activities' = Append(activities, row)
    BY <1>1
  <1> HIDE DEF row
  <1>4. activities' \in Seq(Activity) /\ Len(activities') <= MaxActivities
    BY <1>1, <1>2, <1>3, ContactTables
  <1>5. fields' \in Seq(CustomField) /\ Len(fields') <= MaxFields
    BY <1>1, ContactTables
  <1> QED
    BY <1>1, <1>4, <1>5, OthersRest

LEMMA CustomFieldKeeps ==
    ASSUME ContactsIInv, NEW t \in Tenants, NEW f, NEW k \in Keys,
           CreateCustomField(t, k) \/ UpdateCustomField(t, f, k) \/ DeleteCustomField(t, f)
    PROVE  ContactsIInv'
  <1>1. UNCHANGED <<contacts, scores, activities>>
    BY DEF CreateCustomField, UpdateCustomField, DeleteCustomField
  <1>2. fields' \in Seq(CustomField) /\ Len(fields') <= MaxFields
    <2>1. CASE CreateCustomField(t, k)
      <3> DEFINE row == [tenant |-> t, deleted |-> FALSE, key |-> k]
      <3>1. row \in CustomField
        BY DEF CustomField
      <3>2. fields' = Append(fields, row) /\ Len(fields) < MaxFields
        BY <2>1 DEF CreateCustomField
      <3> HIDE DEF row
      <3> QED
        BY <3>1, <3>2, ContactTables
    <2>2. CASE UpdateCustomField(t, f, k) \/ DeleteCustomField(t, f)
      <3>1. f \in DOMAIN fields /\ fields[f] \in CustomField
        BY <2>2, ContactTables DEF UpdateCustomField, DeleteCustomField, Gets
      <3>2. PICK new : /\ fields' = [fields EXCEPT ![f] = new]
                       /\ new = [fields[f] EXCEPT !.key = k] \/ new = [fields[f] EXCEPT !.deleted = TRUE]
        BY <2>2 DEF UpdateCustomField, DeleteCustomField, SoftDeleted
      <3>3. new \in CustomField
        BY <3>1, <3>2 DEF CustomField
      <3>4. Rewritten(fields, fields', f, new, CustomField)
        BY <3>1, <3>2, <3>3, ContactTables, RowReplaced
      <3> QED
        BY <3>4 DEF Rewritten, ContactsIInv
    <2> QED
      BY <2>1, <2>2
  <1>3. activities' \in Seq(Activity) /\ Len(activities') <= MaxActivities
    BY <1>1, ContactTables
  <1> QED
    BY <1>1, <1>2, <1>3, OthersRest

LEMMA ContactsNextIInv == ContactsIInv /\ [ContactsNext]_contactVars => ContactsIInv'
  <1> SUFFICES ASSUME ContactsIInv, [ContactsNext]_contactVars PROVE ContactsIInv'
    OBVIOUS
  <1>1. CASE UNCHANGED contactVars
    BY <1>1 DEF contactVars, ContactsIInv, ContactsTypeOK, ScoreIsLast, History
  <1>2. CASE ContactsNext
    <2>1. PICK t \in Tenants :
            \/ \E name \in Words : \/ CreateContact(t, name)
                                   \/ \E c \in 1 .. MaxContacts : UpdateContact(t, c, name)
            \/ \E c \in 1 .. MaxContacts :
                DeleteContact(t, c) \/ \E s \in Scores : UpdateLeadScore(t, c, s)
            \/ CreateActivity(t)
            \/ \E k \in Keys : \/ CreateCustomField(t, k)
                               \/ \E f \in 1 .. MaxFields : UpdateCustomField(t, f, k)
            \/ \E f \in 1 .. MaxFields : DeleteCustomField(t, f)
      BY <1>2 DEF ContactsNext
    <2>2. ASSUME NEW c, DeleteContact(t, c) PROVE ContactsIInv'
      <3>1. contacts[c] \in Contact
        BY <2>2, ContactTables DEF DeleteContact, Gets
      <3>2. contacts[c].name \in Words
        BY <3>1 DEF Contact
      <3> QED
        BY <2>2, <3>2, UpdateContactKeeps
    <2>3. ASSUME NEW f, DeleteCustomField(t, f) PROVE ContactsIInv'
      <3>1. fields[f] \in CustomField
        BY <2>3, ContactTables DEF DeleteCustomField, Gets
      <3>2. fields[f].key \in Keys
        BY <3>1 DEF CustomField
      <3> QED
        BY <2>3, <3>2, CustomFieldKeeps
    <2> QED
      BY <2>1, <2>2, <2>3, CreateContactKeeps, UpdateContactKeeps, UpdateLeadScoreKeeps,
         CreateActivityKeeps, CustomFieldKeeps
  <1> QED
    BY <1>1, <1>2

LEMMA ContactsSpecIInv == ContactsSpec => []ContactsIInv
  BY ContactsInitIInv, ContactsNextIInv, PTL DEF ContactsSpec

\* The first page of a list, if it is of one row, has the newest.
LEMMA FirstPage ==
    ASSUME NEW ids \in SUBSET Nat, IsFiniteSet(ids)
    PROVE  Page(ids, 1, 1) = {i \in ids : \A j \in ids : j <= i}
  <1> SUFFICES ASSUME NEW i \in ids PROVE i \in Page(ids, 1, 1) <=> \A j \in ids : j <= i
    BY DEF Page
  <1> DEFINE newer == {j \in ids : j > i}
  <1>1. IsFiniteSet(newer) /\ Cardinality(newer) \in Nat /\ (Cardinality(newer) = 0 <=> newer = {})
    BY FS_Subset, FS_CardinalityType, FS_EmptySet
  <1>2. i \in Page(ids, 1, 1) <=> (0 <= Cardinality(newer) /\ Cardinality(newer) < 1)
    BY DEF Page
  <1>3. newer = {} <=> \A j \in ids : j <= i
    <2>1. i \in Nat /\ \A j \in ids : j \in Nat
      OBVIOUS
    <2>2. \A j \in ids : j > i <=> ~(j <= i)
      BY <2>1
    <2> QED
      BY <2>2
  <1> HIDE DEF newer
  <1> QED
    BY <1>1, <1>2, <1>3

LEMMA ScoreIsTold == ContactsIInv => ScoreTellsHistory
  <1> SUFFICES ASSUME ContactsIInv, NEW c \in DOMAIN contacts
               PROVE  LET newest == ScoreHistory(contacts[c].tenant, c, 1, 1)
                      IN  {contacts[c].score} =
                            IF newest = {} THEN {Unscored} ELSE {scores[i].score : i \in newest}
    BY DEF ScoreTellsHistory
  <1>1. {i \in OfTenant(scores, contacts[c].tenant) : scores[i].contact = c} = History(c)
    BY DEF OfTenant, History
  <1>2. History(c) \subseteq DOMAIN scores /\ IsFiniteSet(DOMAIN scores) /\ DOMAIN scores \subseteq Nat
    BY ContactTables, RowsAreFinite DEF History
  <1>3. History(c) \in SUBSET Nat /\ IsFiniteSet(History(c))
    BY <1>2, FS_Subset
  <1>4. ScoreHistory(contacts[c].tenant, c, 1, 1) = {i \in History(c) : \A j \in History(c) : j <= i}
    BY <1>1, <1>3, FirstPage DEF ScoreHistory
  <1> DEFINE newest == {i \in History(c) : \A j \in History(c) : j <= i}
  <1>5. CASE History(c) = {} /\ contacts[c].score = Unscored
    BY <1>4, <1>5
  <1>6. ASSUME NEW i \in History(c), \A j \in History(c) : j <= i, contacts[c].score = scores[i].score
        PROVE  {contacts[c].score} =
                    IF newest = {} THEN {Unscored} ELSE {scores[j].score : j \in newest}
    <2>1. newest = {i}
      BY <1>3, <1>6
    <2> QED
      BY <1>6, <2>1
  <1>7. ScoreIsLast(c)
    BY DEF ContactsIInv
  <1> QED
    BY <1>4, <1>5, <1>6, <1>7 DEF ScoreIsLast

\* Contacts, scores, activities and custom fields are what they are declared to be.
THEOREM ContactsTyped == ContactsSpec => []ContactsTypeOK
  <1>1. ContactsIInv => ContactsTypeOK
    BY DEF ContactsIInv
  <1> QED
    BY <1>1, ContactsSpecIInv, PTL

\* However contacts are scored, renamed and deleted in between: the score that is
\* shown of one is the newest of its history.
THEOREM ScoreIsTheNewest == ContactsSpec => []ScoreTellsHistory
  BY ScoreIsTold, ContactsSpecIInv, PTL

LEMMA ContactViewsIs == ContactsIInv => ContactViewsAgree
  <1> SUFFICES ASSUME ContactsIInv, NEW t \in Tenants
               PROVE  LET shown == UNION {ListContacts(t, p, 1) : p \in 1 .. MaxContacts}
                      IN  /\ {c \in 1 .. MaxContacts : GetContact(t, c)} = shown
                          /\ {a \in 1 .. MaxActivities : GetActivity(t, a)}
                                = UNION {ListActivities(t, p, 1) : p \in 1 .. MaxActivities}
                          /\ {f \in 1 .. MaxFields : GetCustomField(t, f)} = Listed(fields, t)
                          /\ \A c \in shown :
                                LET found == UNION {SearchContacts(t, contacts[c].name, p, 1) :
                                                        p \in 1 .. MaxContacts}
                                IN  found \subseteq shown /\ found # {}
    BY DEF ContactViewsAgree, Walk
  <1>1. UNION {ListContacts(t, p, 1) : p \in 1 .. MaxContacts} = Listed(contacts, t)
    <2> DEFINE ids == Listed(contacts, t)
    <2>1. /\ ids \subseteq 1 .. Len(contacts) /\ Len(contacts) \in 0 .. MaxContacts
          /\ MaxContacts \in Nat
      BY ContactTables DEF Listed, OfTenant
    <2> HIDE DEF ids
    <2>2. UNION {Page(ids, p, 1) : p \in 1 .. MaxContacts} = ids
      BY <2>1, WalkShowsAll
    <2> QED
      BY <2>2 DEF ListContacts, ids
  <1>2. UNION {ListActivities(t, p, 1) : p \in 1 .. MaxActivities} = Listed(activities, t)
    <2> DEFINE ids == Listed(activities, t)
    <2>1. /\ ids \subseteq 1 .. Len(activities) /\ Len(activities) \in 0 .. MaxActivities
          /\ MaxActivities \in Nat
      BY ContactTables DEF Listed, OfTenant
    <2> HIDE DEF ids
    <2>2. UNION {Page(ids, p, 1) : p \in 1 .. MaxActivities} = ids
      BY <2>1, WalkShowsAll
    <2> QED
      BY <2>2 DEF ListActivities, ids
  <1>3. /\ {c \in 1 .. MaxContacts : GetContact(t, c)} = Listed(contacts, t)
        /\ {a \in 1 .. MaxActivities : GetActivity(t, a)} = Listed(activities, t)
        /\ {f \in 1 .. MaxFields : GetCustomField(t, f)} = Listed(fields, t)
    BY ContactTables DEF GetContact, GetActivity, GetCustomField, Gets, Listed, OfTenant, NotDeleted
  <1>4. ASSUME NEW c \in Listed(contacts, t)
        PROVE  LET found == UNION {SearchContacts(t, contacts[c].name, p, 1) : p \in 1 .. MaxContacts}
               IN  found \subseteq Listed(contacts, t) /\ found # {}
    <2> DEFINE word == contacts[c].name
               full == {d \in Listed(contacts, t) : <<word, contacts[d].name>> \in Stems}
               like == {d \in Listed(contacts, t) : contacts[d].name = word}
               On(p) == IF Page(full, p, 1) # {} THEN Page(full, p, 1) ELSE Page(like, p, 1)
    <2>1. c \in like /\ full \subseteq Listed(contacts, t) /\ like \subseteq Listed(contacts, t)
      BY <1>4
    <2>2. UNION {SearchContacts(t, word, p, 1) : p \in 1 .. MaxContacts}
            = UNION {On(p) : p \in 1 .. MaxContacts}
      BY DEF SearchContacts
    <2>3. like \subseteq 1 .. Len(contacts) /\ Len(contacts) \in 0 .. MaxContacts /\ MaxContacts \in Nat
      BY <2>1, ContactTables DEF Listed, OfTenant
    <2> HIDE DEF full, like, word
    <2>4. UNION {Page(like, p, 1) : p \in 1 .. MaxContacts} = like
      BY <2>3, WalkShowsAll
    <2>5. PICK q \in 1 .. MaxContacts : c \in Page(like, q, 1)
      BY <2>1, <2>4
    <2>6. On(q) # {}
      BY <2>5
    <2>7. \A p : On(p) \subseteq full \cup like
      BY DEF Page
    <2> HIDE DEF On
    <2>8. /\ UNION {On(p) : p \in 1 .. MaxContacts} \subseteq Listed(contacts, t)
          /\ UNION {On(p) : p \in 1 .. MaxContacts} # {}
      BY <2>1, <2>5, <2>6, <2>7
    <2> QED
      BY <2>2, <2>8 DEF word
  <1> DEFINE Shows(c) == UNION {SearchContacts(t, contacts[c].name, p, 1) : p \in 1 .. MaxContacts}
             Contacts == UNION {ListContacts(t, p, 1) : p \in 1 .. MaxContacts}
             Activities == UNION {ListActivities(t, p, 1) : p \in 1 .. MaxActivities}
  <1>5. \A c \in Contacts : Shows(c) \subseteq Contacts /\ Shows(c) # {}
    BY <1>1, <1>4
  <1>6. /\ {c \in 1 .. MaxContacts : GetContact(t, c)} = Contacts
        /\ {a \in 1 .. MaxActivities : GetActivity(t, a)} = Activities
    BY <1>1, <1>2, <1>3
  <1>7. {f \in 1 .. MaxFields : GetCustomField(t, f)} = Listed(fields, t)
    BY <1>3
  <1> QED
    BY <1>5, <1>6, <1>7

\* Lists, gets and searches agree about any number of contacts, whatever the
\* full-text search takes for the same word.
THEOREM ContactViews == ContactsSpec => []ContactViewsAgree
  BY ContactViewsIs, ContactsSpecIInv, PTL
-----------------------------------------------------------------------------
(***************************************************************************)
(* Deals.  A tenant has no second default before update sets one, and what *)
(* no PATCH has written is decided one way at most.                        *)
(***************************************************************************)
Unrivalled == \A t \in Tenants \ defaulted : \A p, q \in Defaults(t) : p = q

DealsIInv ==
    /\ DealsTypeOK
    /\ Len(pipelines) <= MaxPipelines /\ Len(deals) <= MaxDeals
    /\ Unrivalled /\ DealsDecided

LEMMA DealsInitIInv == DealsInit => DealsIInv
  BY DealsAssumption
  DEF DealsInit, DealsIInv, DealsTypeOK, Unrivalled, DealsDecided, Defaults, Listed, OfTenant

\* What DealsDecided says of one deal.
Consistent(deal) ==
    /\ ~(deal.wonReason /\ deal.lostReason)
    /\ (deal.wonReason => deal.wonAt) /\ (deal.lostReason => deal.lostAt)
    /\ deal.stage.pipeline = deal.home

LEMMA DecidedIs == DealsDecided <=> \A d \in DOMAIN deals \ patched : Consistent(deals[d])
  BY DEF DealsDecided, Consistent

\* A move decides for the stage it goes to, whatever the deal was before.
LEMMA MoveDecides ==
    ASSUME NEW deal \in Deal, NEW into \in Stage, NEW reason \in BOOLEAN,
           into.pipeline = deal.stage.pipeline
    PROVE  LET new == Decided([deal EXCEPT !.stage = into], into, reason)
           IN  new \in Deal /\ (Consistent(deal) => Consistent(new))
  BY DEF Decided, Deal, Stage, StageNames, Consistent

LEMMA StagesAre == DealsTypeOK => Stages \subseteq Stage
  BY DEF DealsTypeOK, Stages, Stage

\* A deal is rewritten: it stays one, and consistent unless it counts as patched.
LEMMA DealChanged ==
    ASSUME DealsIInv, NEW d \in DOMAIN deals, NEW new \in Deal,
           deals' = [deals EXCEPT ![d] = new],
           patched \subseteq patched', patched' \subseteq DOMAIN deals,
           d \in patched' \/ (Consistent(deals[d]) => Consistent(new)),
           UNCHANGED <<pipelines, defaulted>>
    PROVE  DealsIInv'
  <1>1. deals \in Seq(Deal) /\ Len(deals) <= MaxDeals
    BY DEF DealsIInv, DealsTypeOK
  <1>2. Rewritten(deals, deals', d, new, Deal)
    BY <1>1, RowReplaced
  <1>3. /\ deals' \in Seq(Deal) /\ Len(deals') = Len(deals) /\ DOMAIN deals' = DOMAIN deals
        /\ deals'[d] = new /\ \A c \in DOMAIN deals \ {d} : deals'[c] = deals[c]
    BY <1>2 DEF Rewritten
  <1>4. DealsTypeOK'
    BY <1>1, <1>3 DEF DealsIInv, DealsTypeOK
  <1>5. Unrivalled'
    BY DEF DealsIInv, Unrivalled, Defaults, Listed, OfTenant, NotDeleted
  <1>6. \A c \in DOMAIN deals' \ patched' : Consistent(deals'[c])
    <2> SUFFICES ASSUME NEW c \in DOMAIN deals \ patched' PROVE Consistent(deals'[c])
      BY <1>3
    <2>1. Consistent(deals[c])
      BY DecidedIs DEF DealsIInv
    <2>2. CASE c = d
      BY <2>1, <2>2, <1>3
    <2>3. CASE c # d
      BY <2>1, <2>3, <1>3
    <2> QED
      BY <2>2, <2>3
  <1>7. DealsDecided'
    BY <1>6 DEF DealsDecided, Consistent
  <1> QED
    BY <1>1, <1>3, <1>4, <1>5, <1>7 DEF DealsIInv

LEMMA CreateDealKeeps ==
    ASSUME DealsIInv, NEW t \in Tenants, NEW into \in Stages, CreateDeal(t, into)
    PROVE  DealsIInv'
  <1> DEFINE row == [tenant |-> t, deleted |-> FALSE, stage |-> into,
                     home |-> into.pipeline, wonReason |-> FALSE, wonAt |-> FALSE,
                     lostReason |-> FALSE, lostAt |-> FALSE]
  <1>1. /\ deals \in Seq(Deal) /\ Len(deals) \in Nat /\ Len(deals) < MaxDeals /\ MaxDeals \in Nat
        /\ deals' = Append(deals, row) /\ UNCHANGED <<pipelines, patched, defaulted>>
    BY DealsAssumption DEF DealsIInv, DealsTypeOK, CreateDeal
  <1>2. into \in Stage
    BY StagesAre DEF DealsIInv
  <1>3. row \in Deal
    BY <1>2 DEF Deal, Stage
  <1>4. Consistent(row)
    BY DEF Consistent
  <1> HIDE DEF row
  <1>5. Grown(deals, deals', row, Deal)
    BY <1>1, <1>3, RowInserted
  <1> DEFINE n == Len(deals) + 1
  <1>6. /\ deals' \in Seq(Deal) /\ Len(deals') = n /\ DOMAIN deals' = DOMAIN deals \cup {n}
        /\ deals'[n] = row /\ \A d \in DOMAIN deals : deals'[d] = deals[d]
    BY <1>5 DEF Grown
  <1>7. Len(deals') <= MaxDeals
    BY <1>1, <1>6
  <1> HIDE DEF n
  <1>8. DealsTypeOK'
    BY <1>1, <1>6 DEF DealsIInv, DealsTypeOK
  <1>9. \A d \in DOMAIN deals' \ patched' : Consistent(deals'[d])
    BY <1>1, <1>4, <1>6, DecidedIs DEF DealsIInv
  <1>10. DealsDecided'
    BY <1>9 DEF DealsDecided, Consistent
  <1>11. Unrivalled'
    BY <1>1 DEF DealsIInv, Unrivalled, Defaults, Listed, OfTenant, NotDeleted
  <1> QED
    BY <1>1, <1>7, <1>8, <1>10, <1>11 DEF DealsIInv

LEMMA ChangeDealStageKeeps ==
    ASSUME DealsIInv, NEW t \in Tenants, NEW d, NEW into \in Stages, NEW reason \in BOOLEAN,
           ChangeDealStage(t, d, into, reason)
    PROVE  DealsIInv'
  <1> DEFINE new == Decided([deals[d] EXCEPT !.stage = into], into, reason)
  <1>1. /\ d \in DOMAIN deals /\ deals[d] \in Deal /\ patched \subseteq DOMAIN deals
        /\ into.pipeline = deals[d].stage.pipeline /\ deals' = [deals EXCEPT ![d] = new]
        /\ UNCHANGED <<pipelines, patched, defaulted>>
    BY DEF DealsIInv, DealsTypeOK, ChangeDealStage, MoveStage, Gets
  <1>2. into \in Stage
    BY StagesAre DEF DealsIInv
  <1>3. new \in Deal /\ (Consistent(deals[d]) => Consistent(new))
    BY <1>1, <1>2, MoveDecides
  <1> HIDE DEF new
  <1> QED
    BY <1>1, <1>3, DealChanged

LEMMA UpdateWinLossKeeps ==
    ASSUME DealsIInv, NEW t \in Tenants, NEW d,
           NEW given \in {"won_reason", "won_at", "lost_reason", "lost_at"},
           UpdateWinLoss(t, d, given)
    PROVE  DealsIInv'
  <1> DEFINE new ==
        CASE given = "won_reason"  -> [deals[d] EXCEPT !.wonReason = TRUE, !.wonAt = TRUE,
                                                !.lostReason = FALSE, !.lostAt = FALSE]
          [] given = "lost_reason" -> [deals[d] EXCEPT !.lostReason = TRUE, !.lostAt = TRUE,
                                                !.wonReason = FALSE, !.wonAt = FALSE]
          [] given = "won_at"      -> [deals[d] EXCEPT !.wonAt = @ \/ ~deals[d].wonReason]
          [] given = "lost_at"     -> [deals[d] EXCEPT !.lostAt = @ \/ ~deals[d].lostReason]
  <1>1. /\ d \in DOMAIN deals /\ deals[d] \in Deal /\ patched \subseteq DOMAIN deals
        /\ deals' = [deals EXCEPT ![d] = new]
        /\ UNCHANGED <<pipelines, patched, defaulted>>
    BY DEF DealsIInv, DealsTypeOK, UpdateWinLoss, Gets
  <1>2. new \in Deal /\ (Consistent(deals[d]) => Consistent(new))
    <2> DEFINE deal == deals[d]
    <2>1. deal \in Deal
      BY <1>1
    <2> HIDE DEF deal
    <2>2. CASE given = "won_reason"
      BY <2>1, <2>2 DEF Deal, Consistent, deal
    <2>3. CASE given = "lost_reason"
      BY <2>1, <2>3 DEF Deal, Consistent, deal
    <2>4. CASE given = "won_at"
      BY <2>1, <2>4 DEF Deal, Consistent, deal
    <2>5. CASE given = "lost_at"
      BY <2>1, <2>5 DEF Deal, Consistent, deal
    <2> QED
      BY <2>2, <2>3, <2>4, <2>5
  <1> HIDE DEF new
  <1> QED
    BY <1>1, <1>2, DealChanged

LEMMA UpdateDealKeeps ==
    ASSUME DealsIInv, NEW t \in Tenants, NEW d, UpdateDeal(t, d)
    PROVE  DealsIInv'
  <1>1. /\ d \in DOMAIN deals /\ deals[d] \in Deal /\ patched \subseteq DOMAIN deals
        /\ patched' = patched \cup {d} /\ UNCHANGED <<pipelines, defaulted>>
        /\ \/ \E into \in Stages : deals' = [deals EXCEPT ![d].stage = into]
           \/ deals' = [deals EXCEPT ![d].wonReason = TRUE]
           \/ deals' = [deals EXCEPT ![d].lostReason = TRUE]
    BY DEF DealsIInv, DealsTypeOK, UpdateDeal, Gets
  <1>2. Stages \subseteq Stage
    BY StagesAre DEF DealsIInv
  <1>3. \E new \in Deal : deals' = [deals EXCEPT ![d] = new]
    <2>1. ASSUME NEW into \in Stages, deals' = [deals EXCEPT ![d].stage = into]
          PROVE  \E new \in Deal : deals' = [deals EXCEPT ![d] = new]
      <3>1. [deals[d] EXCEPT !.stage = into] \in Deal
        BY <1>1, <1>2 DEF Deal
      <3> QED
        BY <2>1, <3>1
    <2>2. CASE deals' = [deals EXCEPT ![d].wonReason = TRUE]
      <3>1. [deals[d] EXCEPT !.wonReason = TRUE] \in Deal
        BY <1>1 DEF Deal
      <3> QED
        BY <2>2, <3>1
    <2>3. CASE deals' = [deals EXCEPT ![d].lostReason = TRUE]
      <3>1. [deals[d] EXCEPT !.lostReason = TRUE] \in Deal
        BY <1>1 DEF Deal
      <3> QED
        BY <2>3, <3>1
    <2> QED
      BY <1>1, <2>1, <2>2, <2>3
  <1> QED
    BY <1>1, <1>3, DealChanged

LEMMA DeleteDealKeeps ==
    ASSUME DealsIInv, NEW t \in Tenants, NEW d, DeleteDeal(t, d)
    PROVE  DealsIInv'
  <1> DEFINE new == [deals[d] EXCEPT !.deleted = TRUE]
  <1>1. /\ d \in DOMAIN deals /\ deals[d] \in Deal /\ patched \subseteq DOMAIN deals
        /\ deals' = [deals EXCEPT ![d] = new] /\ UNCHANGED <<pipelines, patched, defaulted>>
    BY DEF DealsIInv, DealsTypeOK, DeleteDeal, Gets, SoftDeleted
  <1>2. new \in Deal /\ (Consistent(deals[d]) => Consistent(new))
    BY <1>1 DEF Deal, Consistent
  <1> HIDE DEF new
  <1> QED
    BY <1>1, <1>2, DealChanged

\* Pipelines are changed: the deals rest, and no second default is made for a
\* tenant that none has been set for.
LEMMA PipelinesChanged ==
    ASSUME DealsIInv, pipelines' \in Seq(Pipeline), Len(pipelines') <= MaxPipelines,
           defaulted' \subseteq Tenants, UNCHANGED <<deals, patched>>, Unrivalled'
    PROVE  DealsIInv'
  BY DEF DealsIInv, DealsTypeOK, DealsDecided

LEMMA CreatePipelineKeeps ==
    ASSUME DealsIInv, NEW t \in Tenants, NEW default \in BOOLEAN, CreatePipeline(t, default)
    PROVE  DealsIInv'
  <1> DEFINE clear == [p \in DOMAIN pipelines |->
                        [pipelines[p] EXCEPT !.default = @ /\ ~(default /\ p \in Defaults(t))]]
             row == [tenant |-> t, deleted |-> FALSE, default |-> default]
             n == Len(pipelines) + 1
  <1>1. /\ pipelines \in Seq(Pipeline) /\ Len(pipelines) \in Nat
        /\ Len(pipelines) < MaxPipelines /\ MaxPipelines \in Nat
        /\ pipelines' = Append(clear, row) /\ UNCHANGED <<deals, patched, defaulted>>
        /\ defaulted \subseteq Tenants
    BY DealsAssumption DEF DealsIInv, DealsTypeOK, CreatePipeline
  <1>2. \A p \in DOMAIN pipelines :
            /\ clear[p] \in Pipeline /\ clear[p].tenant = pipelines[p].tenant
            /\ clear[p].deleted = pipelines[p].deleted
            /\ clear[p].default <=> pipelines[p].default /\ ~(default /\ p \in Defaults(t))
    <2> SUFFICES ASSUME NEW p \in DOMAIN pipelines
                 PROVE  /\ clear[p] \in Pipeline /\ clear[p].tenant = pipelines[p].tenant
                        /\ clear[p].deleted = pipelines[p].deleted
                        /\ clear[p].default
                                <=> pipelines[p].default /\ ~(default /\ p \in Defaults(t))
      OBVIOUS
    <2> DEFINE kept == pipelines[p].default /\ ~(default /\ p \in Defaults(t))
    <2>1. clear[p] = [pipelines[p] EXCEPT !.default = kept]
      OBVIOUS
    <2>2. pipelines[p] \in Pipeline
      BY <1>1
    <2>3. kept \in BOOLEAN
      OBVIOUS
    <2>4. kept <=> pipelines[p].default /\ ~(default /\ p \in Defaults(t))
      OBVIOUS
    <2> HIDE DEF clear, kept
    <2> QED
      BY <2>1, <2>2, <2>3, <2>4 DEF Pipeline
  <1>3. clear = [p \in DOMAIN pipelines |-> clear[p]]
    OBVIOUS
  <1>4. row \in Pipeline /\ row.tenant = t /\ row.default = default
    BY DEF Pipeline
  <1> HIDE DEF clear, row
  <1>5. clear \in Seq(Pipeline) /\ Len(clear) = Len(pipelines) /\ DOMAIN clear = DOMAIN pipelines
    <2>1. \A p \in DOMAIN pipelines : clear[p] \in Pipeline
      BY <1>2
    <2> QED
      BY <1>1, <1>3, <2>1, RowsChanged
  <1>6. Grown(clear, pipelines', row, Pipeline)
    BY <1>1, <1>4, <1>5, RowInserted
  <1>7. /\ pipelines' \in Seq(Pipeline) /\ Len(pipelines') = n
        /\ DOMAIN pipelines' = DOMAIN pipelines \cup {n} /\ pipelines'[n] = row
        /\ \A p \in DOMAIN pipelines : pipelines'[p] = clear[p]
    BY <1>5, <1>6 DEF Grown
  <1>8. Len(pipelines') <= MaxPipelines
    BY <1>1, <1>7
  <1> HIDE DEF n
  <1>9. ASSUME NEW u \in Tenants, NEW p \in Defaults(u)'
        PROVE  \/ p \in Defaults(u) /\ ~(default /\ p \in Defaults(t))
               \/ p = n /\ u = t /\ default
    <2>1. /\ p \in DOMAIN pipelines' /\ pipelines'[p].tenant = u
          /\ ~pipelines'[p].deleted /\ pipelines'[p].default
      BY <1>9 DEF Defaults, Listed, OfTenant, NotDeleted
    <2>2. CASE p \in DOMAIN pipelines
      BY <1>2, <1>7, <2>1, <2>2 DEF Defaults, Listed, OfTenant, NotDeleted
    <2>3. CASE p = n
      BY <1>4, <1>7, <2>1, <2>3
    <2> QED
      BY <1>7, <2>1, <2>2, <2>3
  <1>10. Unrivalled'
    <2> SUFFICES ASSUME NEW u \in Tenants \ defaulted', NEW p \in Defaults(u)', NEW q \in Defaults(u)'
                 PROVE  p = q
      BY DEF Unrivalled
    <2>1. \A r, s \in Defaults(u) : r = s
      BY <1>1 DEF DealsIInv, Unrivalled
    <2>2. /\ (p \in Defaults(u) /\ ~(default /\ p \in Defaults(t))) \/ (p = n /\ u = t /\ default)
          /\ (q \in Defaults(u) /\ ~(default /\ q \in Defaults(t))) \/ (q = n /\ u = t /\ default)
      BY <1>9
    <2> QED
      BY <2>1, <2>2
  <1> QED
    BY <1>1, <1>7, <1>8, <1>10, PipelinesChanged

\* A pipeline that update or delete writes.
LEMMA PipelineChanged ==
    ASSUME DealsIInv, NEW p \in DOMAIN pipelines, NEW new \in Pipeline,
           pipelines' = [pipelines EXCEPT ![p] = new],
           new.tenant = pipelines[p].tenant,
           \/ defaulted' = defaulted /\ (new.default => pipelines[p].default)
                                     /\ (~new.deleted => ~pipelines[p].deleted)
           \/ defaulted' = defaulted \cup {pipelines[p].tenant},
           UNCHANGED <<deals, patched>>
    PROVE  DealsIInv'
  <1>1. /\ pipelines \in Seq(Pipeline) /\ Len(pipelines) <= MaxPipelines
        /\ pipelines[p].tenant \in Tenants /\ defaulted \subseteq Tenants
    BY DEF DealsIInv, DealsTypeOK, Pipeline
  <1>2. Rewritten(pipelines, pipelines', p, new, Pipeline)
    BY <1>1, RowReplaced
  <1>3. /\ pipelines' \in Seq(Pipeline) /\ Len(pipelines') = Len(pipelines)
        /\ DOMAIN pipelines' = DOMAIN pipelines /\ pipelines'[p] = new
        /\ \A q \in DOMAIN pipelines \ {p} : pipelines'[q] = pipelines[q]
    BY <1>2 DEF Rewritten
  <1>4. ASSUME NEW t \in Tenants \ defaulted' PROVE Defaults(t)' \subseteq Defaults(t)
    BY <1>3, <1>4 DEF Defaults, Listed, OfTenant, NotDeleted
  <1>5. Unrivalled'
    BY <1>4 DEF DealsIInv, Unrivalled
  <1>6. defaulted' \subseteq Tenants /\ Len(pipelines') <= MaxPipelines
    BY <1>1, <1>3
  <1> QED
    BY <1>3, <1>5, <1>6, PipelinesChanged

LEMMA UpdatePipelineKeeps ==
    ASSUME DealsIInv, NEW t \in Tenants, NEW p, NEW default \in BOOLEAN,
           UpdatePipeline(t, p, default)
    PROVE  DealsIInv'
  <1> DEFINE new == [pipelines[p] EXCEPT !.default = default]
  <1>1. /\ p \in DOMAIN pipelines /\ pipelines[p] \in Pipeline /\ pipelines[p].tenant = t
        /\ pipelines' = [pipelines EXCEPT ![p] = new] /\ UNCHANGED <<deals, patched>>
        /\ defaulted' = IF default THEN defaulted \cup {t} ELSE defaulted
    BY DEF DealsIInv, DealsTypeOK, UpdatePipeline, Gets
  <1>2. /\ new \in Pipeline /\ new.tenant = t /\ new.default = default
        /\ new.deleted = pipelines[p].deleted
    BY <1>1 DEF Pipeline
  <1>3. \/ defaulted' = defaulted /\ (new.default => pipelines[p].default)
                                  /\ (~new.deleted => ~pipelines[p].deleted)
        \/ defaulted' = defaulted \cup {pipelines[p].tenant}
    BY <1>1, <1>2
  <1> HIDE DEF new
  <1> QED
    BY <1>1, <1>2, <1>3, PipelineChanged

LEMMA DeletePipelineKeeps ==
    ASSUME DealsIInv, NEW t \in Tenants, NEW p, DeletePipeline(t, p)
    PROVE  DealsIInv'
  <1> DEFINE new == [pipelines[p] EXCEPT !.deleted = TRUE]
  <1>1. /\ p \in DOMAIN pipelines /\ pipelines[p] \in Pipeline
        /\ pipelines' = [pipelines EXCEPT ![p] = new]
        /\ UNCHANGED <<deals, patched, defaulted>>
    BY DEF DealsIInv, DealsTypeOK, DeletePipeline, Gets, SoftDeleted
  <1>2. /\ new \in Pipeline /\ new.tenant = pipelines[p].tenant
        /\ new.default = pipelines[p].default /\ new.deleted
    BY <1>1 DEF Pipeline
  <1> HIDE DEF new
  <1> QED
    BY <1>1, <1>2, PipelineChanged

LEMMA DealsNextIInv == DealsIInv /\ [DealsNext]_dealVars => DealsIInv'
  <1> SUFFICES ASSUME DealsIInv, [DealsNext]_dealVars PROVE DealsIInv'
    OBVIOUS
  <1>1. CASE UNCHANGED dealVars
    BY <1>1 DEF dealVars, DealsIInv, DealsTypeOK, Unrivalled, DealsDecided, Defaults,
                Listed, OfTenant, NotDeleted
  <1>2. CASE PipelinesNext
    BY <1>2, CreatePipelineKeeps, UpdatePipelineKeeps, DeletePipelineKeeps DEF PipelinesNext
  <1>3. CASE SalesNext
    BY <1>3, CreateDealKeeps, ChangeDealStageKeeps, UpdateDealKeeps, DeleteDealKeeps,
       UpdateWinLossKeeps DEF SalesNext
  <1> QED
    BY <1>1, <1>2, <1>3 DEF DealsNext

LEMMA DealsSpecIInv == DealsSpec => []DealsIInv
  BY DealsInitIInv, DealsNextIInv, PTL DEF DealsSpec

LEMMA DealsInvariants == DealsIInv => DealsTypeOK /\ DealsConsistent
  <1> SUFFICES ASSUME DealsIInv PROVE DealsTypeOK /\ DealsConsistent
    OBVIOUS
  <1>1. ASSUME NEW t \in Tenants \ defaulted PROVE Cardinality(Defaults(t)) <= 1
    <2>1. pipelines \in Seq(Pipeline)
      BY DEF DealsIInv, DealsTypeOK
    <2>2. Defaults(t) \subseteq DOMAIN pipelines
      BY DEF Defaults, Listed, OfTenant
    <2>3. IsFiniteSet(Defaults(t))
      BY <2>1, <2>2, RowsAreFinite, FS_Subset
    <2>4. \A p, q \in Defaults(t) : p = q
      BY DEF DealsIInv, Unrivalled
    <2> QED
      BY <2>3, <2>4, NoTwo
  <1> QED
    BY <1>1 DEF DealsIInv, DealsConsistent, OneDefault

\* Pipelines and deals are what they are declared to be.
THEOREM DealsTyped == DealsSpec => []DealsTypeOK
  BY DealsSpecIInv, DealsInvariants, PTL

\* Whatever moves, decisions and deletions come in whatever order: a deal that
\* no PATCH has written is won or lost and not both, has the time with the
\* reason, and is in the pipeline it was created in; a tenant for which update
\* has set no default has one default pipeline at most.
THEOREM DealsStayConsistent == DealsSpec => []DealsConsistent
  BY DealsSpecIInv, DealsInvariants, PTL

LEMMA DealViewsIs == DealsIInv => DealViewsAgree
  <1> SUFFICES ASSUME DealsIInv, NEW t \in Tenants
               PROVE  /\ {d \in 1 .. MaxDeals : GetDeal(t, d)}
                            = Walk(LAMBDA p, l : ListDeals(t, p, l), MaxDeals)
                      /\ Walk(LAMBDA p, l : ListPipelines(t, p, l), MaxPipelines)
                            = {p \in OfTenant(pipelines, t) : GetPipeline(p)}
    BY DEF DealViewsAgree
  <1>1. /\ Len(deals) \in 0 .. MaxDeals /\ MaxDeals \in Nat /\ DOMAIN deals = 1 .. Len(deals)
        /\ Len(pipelines) \in 0 .. MaxPipelines /\ MaxPipelines \in Nat
        /\ DOMAIN pipelines = 1 .. Len(pipelines)
    BY DealsAssumption DEF DealsIInv, DealsTypeOK
  <1>2. Listed(deals, t) \subseteq 1 .. Len(deals) /\ PipelinesOf(t) \subseteq 1 .. Len(pipelines)
    BY <1>1 DEF PipelinesOf, Listed, OfTenant
  <1>3. Walk(LAMBDA p, l : ListDeals(t, p, l), MaxDeals) = Listed(deals, t)
    <2> DEFINE ids == Listed(deals, t)
    <2>1. ids \subseteq 1 .. Len(deals)
      BY <1>2
    <2> HIDE DEF ids
    <2>2. UNION {Page(ids, p, 1) : p \in 1 .. MaxDeals} = ids
      BY <1>1, <2>1, WalkShowsAll
    <2> QED
      BY <2>2 DEF Walk, ListDeals, ids
  <1>4. Walk(LAMBDA p, l : ListPipelines(t, p, l), MaxPipelines) = PipelinesOf(t)
    <2> DEFINE ids == PipelinesOf(t)
    <2>1. ids \subseteq 1 .. Len(pipelines)
      BY <1>2
    <2> HIDE DEF ids
    <2>2. UNION {Page(ids, p, 1) : p \in 1 .. MaxPipelines} = ids
      BY <1>1, <2>1, WalkShowsAll
    <2> QED
      BY <2>2 DEF Walk, ListPipelines, ids
  <1>5. {d \in 1 .. MaxDeals : GetDeal(t, d)} = Listed(deals, t)
    BY <1>1 DEF GetDeal, Gets, Listed, OfTenant, NotDeleted
  <1>6. {p \in OfTenant(pipelines, t) : GetPipeline(p)} = PipelinesOf(t)
    BY DEF GetPipeline, PipelinesOf, Listed, OfTenant, NotDeleted
  <1> QED
    BY <1>3, <1>4, <1>5, <1>6

\* Lists and gets of deals and pipelines agree, for any number of them.
THEOREM DealViews == DealsSpec => []DealViewsAgree
  BY DealsSpecIInv, DealViewsIs, PTL
-----------------------------------------------------------------------------
(***************************************************************************)
(* Billing.  What Stripe has not written is running or cancelled, and      *)
(* there are no two running ones of a tenant that it has not written; each *)
(* payment that settles adds one paid invoice, of the same tenant.         *)
(***************************************************************************)
RunsFor(s, t) ==
    s \in DOMAIN subscriptions /\ subscriptions[s].tenant = t /\ subscriptions[s].status \in Running

NoTwoRunning == \A t \in Tenants : \A s, r \in DOMAIN subscriptions :
    RunsFor(s, t) /\ RunsFor(r, t) => \/ s = r
                                      \/ subscriptions[s].synced
                                      \/ subscriptions[r].synced

OursOrSynced == \A s \in DOMAIN subscriptions :
    subscriptions[s].synced \/ subscriptions[s].status \in Running \cup {"cancelled"}

PaidFor(s) == {i \in DOMAIN invoices : invoices[i].subscription = s /\ invoices[i].status = "paid"}

InvoicesMatch == \A i \in DOMAIN invoices :
    invoices[i].tenant = subscriptions[invoices[i].subscription].tenant

BooksClose ==
    /\ \A s \in 1 .. MaxSubscriptions : settled[s] = Cardinality(PaidFor(s))
    /\ \A t \in Tenants : wallet[t].balance = topped[t]

BillingIInv ==
    /\ BillingTypeOK
    /\ Len(subscriptions) <= MaxSubscriptions /\ Len(invoices) <= MaxInvoices
    /\ NoTwoRunning /\ OursOrSynced /\ InvoicesMatch /\ BooksClose

LEMMA BillingInitIInv == BillingInit => BillingIInv
  <1> SUFFICES ASSUME BillingInit PROVE BillingIInv
    OBVIOUS
  <1>1. BillingTypeOK /\ Len(subscriptions) <= MaxSubscriptions /\ Len(invoices) <= MaxInvoices
    BY BillingAssumption DEF BillingInit, BillingTypeOK, NoWallet, Wallet
  <1>2. NoTwoRunning /\ OursOrSynced /\ InvoicesMatch
    BY DEF BillingInit, NoTwoRunning, OursOrSynced, InvoicesMatch
  <1>3. BooksClose
    <2>1. \A s : PaidFor(s) = {}
      BY DEF BillingInit, PaidFor
    <2> QED
      BY <2>1, FS_EmptySet DEF BillingInit, BooksClose, NoWallet
  <1> QED
    BY <1>1, <1>2, <1>3 DEF BillingIInv

LEMMA BillingTables ==
    ASSUME BillingIInv
    PROVE  /\ subscriptions \in Seq(Subscription) /\ Len(subscriptions) \in 0 .. MaxSubscriptions
           /\ DOMAIN subscriptions = 1 .. Len(subscriptions)
           /\ invoices \in Seq(Invoice) /\ Len(invoices) \in 0 .. MaxInvoices
           /\ DOMAIN invoices = 1 .. Len(invoices)
           /\ MaxSubscriptions \in Nat /\ MaxInvoices \in Nat
           /\ DOMAIN subscriptions \subseteq 1 .. MaxSubscriptions
  BY BillingAssumption DEF BillingIInv, BillingTypeOK

\* A subscription is rewritten, by Stripe or by us.
LEMMA SubscriptionChanged ==
    ASSUME BillingIInv, NEW s \in DOMAIN subscriptions, NEW new \in Subscription,
           subscriptions' = [subscriptions EXCEPT ![s] = new],
           new.tenant = subscriptions[s].tenant,
           \/ new.synced
           \/ /\ ~subscriptions[s].synced
              /\ new.status \in Running => subscriptions[s].status \in Running
              /\ new.status \in Running \cup {"cancelled"},
           UNCHANGED <<invoices, wallet, usage, settled, topped>>
    PROVE  BillingIInv'
  <1>1. Rewritten(subscriptions, subscriptions', s, new, Subscription)
    BY BillingTables, RowReplaced
  <1>2. /\ subscriptions' \in Seq(Subscription) /\ Len(subscriptions') = Len(subscriptions)
        /\ DOMAIN subscriptions' = DOMAIN subscriptions /\ subscriptions'[s] = new
        /\ \A r \in DOMAIN subscriptions \ {s} : subscriptions'[r] = subscriptions[r]
    BY <1>1 DEF Rewritten
  <1>3. BillingTypeOK'
    BY <1>2 DEF BillingIInv, BillingTypeOK
  <1>4. \A r \in DOMAIN subscriptions :
            /\ subscriptions'[r].tenant = subscriptions[r].tenant
            /\ subscriptions'[r].synced
               \/ (/\ ~subscriptions[r].synced
                   /\ subscriptions'[r].status \in Running => subscriptions[r].status \in Running
                   /\ subscriptions'[r].status \in Running \cup {"cancelled"})
    BY <1>2 DEF BillingIInv, OursOrSynced
  <1>5. NoTwoRunning'
    BY <1>2, <1>4 DEF BillingIInv, NoTwoRunning, RunsFor
  <1>6. OursOrSynced'
    BY <1>2, <1>4 DEF OursOrSynced
  <1>7. InvoicesMatch'
    <2> SUFFICES ASSUME NEW i \in DOMAIN invoices
                 PROVE  invoices[i].tenant = subscriptions'[invoices[i].subscription].tenant
      BY DEF InvoicesMatch
    <2>1. invoices[i].subscription \in DOMAIN subscriptions
      BY DEF BillingIInv, BillingTypeOK
    <2> QED
      BY <1>4, <2>1 DEF BillingIInv, InvoicesMatch
  <1>8. BooksClose'
    BY DEF BillingIInv, BooksClose, PaidFor
  <1> QED
    BY <1>2, <1>3, <1>5, <1>6, <1>7, <1>8 DEF BillingIInv

LEMMA CreateSubscriptionKeeps ==
    ASSUME BillingIInv, NEW t \in Tenants, NEW p \in Plans, NEW trial \in BOOLEAN,
           CreateSubscription(t, p, trial)
    PROVE  BillingIInv'
  <1> DEFINE row == [tenant |-> t, plan |-> p, status |-> IF trial THEN "trialing" ELSE "active",
                     linked |-> FALSE, synced |-> FALSE]
             n == Len(subscriptions) + 1
  <1>1. /\ subscriptions' = Append(subscriptions, row) /\ Len(subscriptions) < MaxSubscriptions
        /\ \A s \in DOMAIN subscriptions : ~RunsFor(s, t)
        /\ UNCHANGED <<invoices, wallet, usage, settled, topped>>
    BY DEF CreateSubscription, NewSubscription, ActiveOf, RunsFor
  <1>2. row \in Subscription /\ row.tenant = t /\ row.status \in Running
    BY DEF Subscription, Statuses, Running
  <1> HIDE DEF row
  <1>3. Grown(subscriptions, subscriptions', row, Subscription)
    BY <1>1, <1>2, BillingTables, RowInserted
  <1>4. /\ subscriptions' \in Seq(Subscription) /\ Len(subscriptions') = n
        /\ DOMAIN subscriptions' = DOMAIN subscriptions \cup {n} /\ n \notin DOMAIN subscriptions
        /\ subscriptions'[n] = row
        /\ \A s \in DOMAIN subscriptions : subscriptions'[s] = subscriptions[s]
    BY <1>3 DEF Grown
  <1>5. Len(subscriptions') <= MaxSubscriptions
    BY <1>1, <1>4, BillingTables
  <1> HIDE DEF n
  <1>6. BillingTypeOK'
    BY <1>1, <1>4 DEF BillingIInv, BillingTypeOK
  <1>7. NoTwoRunning'
    <2> SUFFICES ASSUME NEW u \in Tenants, NEW s \in DOMAIN subscriptions',
                        NEW r \in DOMAIN subscriptions', RunsFor(s, u)', RunsFor(r, u)', s # r
                 PROVE  subscriptions'[s].synced \/ subscriptions'[r].synced
      BY DEF NoTwoRunning
    <2>1. CASE s \in DOMAIN subscriptions /\ r \in DOMAIN subscriptions
      BY <2>1, <1>4 DEF BillingIInv, NoTwoRunning, RunsFor
    <2>2. CASE s = n
      <3>1. u = t /\ r \in DOMAIN subscriptions
        BY <2>2, <1>2, <1>4 DEF RunsFor
      <3>2. RunsFor(r, t)
        BY <3>1, <1>4 DEF RunsFor
      <3> QED
        BY <3>1, <3>2, <1>1
    <2>3. CASE r = n
      <3>1. u = t /\ s \in DOMAIN subscriptions
        BY <2>3, <1>2, <1>4 DEF RunsFor
      <3>2. RunsFor(s, t)
        BY <3>1, <1>4 DEF RunsFor
      <3> QED
        BY <3>1, <3>2, <1>1
    <2> QED
      BY <2>1, <2>2, <2>3, <1>4
  <1>8. OursOrSynced'
    BY <1>2, <1>4 DEF BillingIInv, OursOrSynced
  <1>9. InvoicesMatch'
    <2> SUFFICES ASSUME NEW i \in DOMAIN invoices
                 PROVE  invoices[i].tenant = subscriptions'[invoices[i].subscription].tenant
      BY <1>1 DEF InvoicesMatch
    <2>1. invoices[i].subscription \in DOMAIN subscriptions
      BY DEF BillingIInv, BillingTypeOK
    <2> QED
      BY <1>4, <2>1 DEF BillingIInv, InvoicesMatch
  <1>10. BooksClose'
    BY <1>1 DEF BillingIInv, BooksClose, PaidFor
  <1> QED
    BY <1>1, <1>5, <1>6, <1>7, <1>8, <1>9, <1>10 DEF BillingIInv

\* The row of a subscription.
LEMMA SubscriptionIs ==
    ASSUME BillingIInv, NEW s \in DOMAIN subscriptions
    PROVE  /\ subscriptions[s] \in Subscription
           /\ subscriptions[s].synced \/ subscriptions[s].status \in Running \cup {"cancelled"}
  BY DEF BillingIInv, BillingTypeOK, OursOrSynced

LEMMA LinkKeeps ==
    ASSUME BillingIInv, NEW s, Link(s)
    PROVE  BillingIInv'
  <1> DEFINE new == [subscriptions[s] EXCEPT !.linked = TRUE]
  <1>1. /\ s \in DOMAIN subscriptions /\ subscriptions' = [subscriptions EXCEPT ![s] = new]
        /\ UNCHANGED <<invoices, wallet, usage, settled, topped>>
    BY DEF Link
  <1>2. /\ new \in Subscription /\ new.tenant = subscriptions[s].tenant
        /\ new.status = subscriptions[s].status /\ new.synced = subscriptions[s].synced
    BY <1>1, SubscriptionIs DEF Subscription
  <1> HIDE DEF new
  <1> QED
    BY <1>1, <1>2, SubscriptionIs, SubscriptionChanged

LEMMA CancelSubscriptionKeeps ==
    ASSUME BillingIInv, NEW t \in Tenants, NEW s, NEW immediate \in BOOLEAN,
           CancelSubscription(t, s, immediate)
    PROVE  BillingIInv'
  <1> DEFINE status == IF immediate THEN "cancelled" ELSE "cancel_at_period_end"
             new == [subscriptions[s] EXCEPT !.status = status]
  <1>1. /\ s \in DOMAIN subscriptions /\ subscriptions' = [subscriptions EXCEPT ![s] = new]
        /\ subscriptions[s].status # "cancelled"
        /\ UNCHANGED <<invoices, wallet, usage, settled, topped>>
    BY DEF CancelSubscription, IsSubscription, Cancelled
  <1>2. /\ new \in Subscription /\ new.tenant = subscriptions[s].tenant
        /\ new.status = status /\ new.synced = subscriptions[s].synced
    BY <1>1, SubscriptionIs DEF Subscription, Statuses, Running
  <1>3. status \in Running \cup {"cancelled"}
    BY DEF Running
  <1> HIDE DEF new, status
  <1>4. \/ new.synced
        \/ /\ ~subscriptions[s].synced
           /\ new.status \in Running => subscriptions[s].status \in Running
           /\ new.status \in Running \cup {"cancelled"}
    BY <1>1, <1>2, <1>3, SubscriptionIs
  <1> QED
    BY <1>1, <1>2, <1>4, SubscriptionChanged

LEMMA UpdateSubscriptionPlanKeeps ==
    ASSUME BillingIInv, NEW t \in Tenants, NEW s, NEW p \in Plans,
           UpdateSubscriptionPlan(t, s, p)
    PROVE  BillingIInv'
  <1> DEFINE new == [subscriptions[s] EXCEPT !.plan = p]
  <1>1. /\ s \in DOMAIN subscriptions /\ subscriptions' = [subscriptions EXCEPT ![s] = new]
        /\ UNCHANGED <<invoices, wallet, usage, settled, topped>>
    BY DEF UpdateSubscriptionPlan, IsSubscription, PlanChanged
  <1>2. /\ new \in Subscription /\ new.tenant = subscriptions[s].tenant
        /\ new.status = subscriptions[s].status /\ new.synced = subscriptions[s].synced
    BY <1>1, SubscriptionIs DEF Subscription
  <1> HIDE DEF new
  <1> QED
    BY <1>1, <1>2, SubscriptionIs, SubscriptionChanged

LEMMA SubscriptionUpdatedKeeps ==
    ASSUME BillingIInv, NEW s, NEW status \in StripeStatuses, SubscriptionUpdated(s, status)
    PROVE  BillingIInv'
  <1> DEFINE new == [subscriptions[s] EXCEPT !.status = status, !.synced = TRUE]
  <1>1. /\ s \in DOMAIN subscriptions /\ subscriptions' = [subscriptions EXCEPT ![s] = new]
        /\ UNCHANGED <<invoices, wallet, usage, settled, topped>>
    BY DEF SubscriptionUpdated, Linked
  <1>2. new \in Subscription /\ new.tenant = subscriptions[s].tenant /\ new.synced
    BY <1>1, SubscriptionIs DEF Subscription, Statuses
  <1> HIDE DEF new
  <1> QED
    BY <1>1, <1>2, SubscriptionChanged

LEMMA SubscriptionDeletedKeeps ==
    ASSUME BillingIInv, NEW s, SubscriptionDeleted(s)
    PROVE  BillingIInv'
  <1> DEFINE new == [subscriptions[s] EXCEPT !.status = "cancelled"]
  <1>1. /\ s \in DOMAIN subscriptions /\ subscriptions' = [subscriptions EXCEPT ![s] = new]
        /\ UNCHANGED <<invoices, wallet, usage, settled, topped>>
    BY DEF SubscriptionDeleted, Linked
  <1>2. /\ new \in Subscription /\ new.tenant = subscriptions[s].tenant
        /\ new.status = "cancelled" /\ new.synced = subscriptions[s].synced
    BY <1>1, SubscriptionIs DEF Subscription, Statuses
  <1>3. new.status \notin Running
    BY <1>2 DEF Running
  <1> HIDE DEF new
  <1> QED
    BY <1>1, <1>2, <1>3, SubscriptionChanged

\* Who pays finds the books closed: only the invoices change, and what has been
\* settled with them.
LEMMA InvoicesChanged ==
    ASSUME BillingIInv, invoices' \in Seq(Invoice), Len(invoices') <= MaxInvoices,
           \A i \in DOMAIN invoices' :
                /\ invoices'[i].subscription \in DOMAIN subscriptions
                /\ invoices'[i].tenant = subscriptions[invoices'[i].subscription].tenant,
           settled' \in [1 .. MaxSubscriptions -> Nat],
           \A s \in 1 .. MaxSubscriptions : settled'[s] = Cardinality(PaidFor(s)'),
           UNCHANGED <<subscriptions, wallet, usage, topped>>
    PROVE  BillingIInv'
  <1>1. BillingTypeOK'
    BY DEF BillingIInv, BillingTypeOK
  <1>2. NoTwoRunning' /\ OursOrSynced'
    BY DEF BillingIInv, NoTwoRunning, OursOrSynced, RunsFor
  <1>3. InvoicesMatch'
    BY DEF InvoicesMatch
  <1>4. BooksClose'
    BY DEF BillingIInv, BooksClose
  <1> QED
    BY <1>1, <1>2, <1>3, <1>4 DEF BillingIInv

LEMMA InvoiceIs ==
    ASSUME BillingIInv, NEW i \in DOMAIN invoices
    PROVE  /\ invoices[i] \in Invoice /\ invoices[i].subscription \in DOMAIN subscriptions
           /\ invoices[i].tenant = subscriptions[invoices[i].subscription].tenant
  BY DEF BillingIInv, BillingTypeOK, InvoicesMatch

LEMMA GenerateInvoiceKeeps ==
    ASSUME BillingIInv, NEW t \in Tenants, GenerateInvoice(t)
    PROVE  BillingIInv'
  <1>1. PICK s \in ActiveOf(t) :
            /\ Len(invoices) < MaxInvoices
            /\ invoices' = Append(invoices, [tenant |-> t, subscription |-> s, status |-> "pending"])
            /\ UNCHANGED <<subscriptions, wallet, usage, settled, topped>>
    BY DEF GenerateInvoice
  <1> DEFINE row == [tenant |-> t, subscription |-> s, status |-> "pending"]
             n == Len(invoices) + 1
  <1>2. s \in DOMAIN subscriptions /\ subscriptions[s].tenant = t /\ s \in Nat \ {0}
    BY <1>1, BillingTables DEF ActiveOf
  <1>3. row \in Invoice /\ row.tenant = t /\ row.subscription = s /\ row.status = "pending"
    BY <1>2 DEF Invoice
  <1>4. invoices' = Append(invoices, row)
    BY <1>1
  <1> HIDE DEF row
  <1>5. Grown(invoices, invoices', row, Invoice)
    BY <1>3, <1>4, BillingTables, RowInserted
  <1>6. /\ invoices' \in Seq(Invoice) /\ Len(invoices') = n
        /\ DOMAIN invoices' = DOMAIN invoices \cup {n} /\ n \notin DOMAIN invoices
        /\ invoices'[n] = row /\ \A i \in DOMAIN invoices : invoices'[i] = invoices[i]
    BY <1>5 DEF Grown
  <1>7. Len(invoices') <= MaxInvoices
    BY <1>1, <1>6, BillingTables
  <1> HIDE DEF n
  <1>8. \A i \in DOMAIN invoices' :
            /\ invoices'[i].subscription \in DOMAIN subscriptions
            /\ invoices'[i].tenant = subscriptions[invoices'[i].subscription].tenant
    BY <1>2, <1>3, <1>6, InvoiceIs
  <1>9. \A r : PaidFor(r)' = PaidFor(r)
    BY <1>3, <1>6 DEF PaidFor
  <1>10. /\ settled' \in [1 .. MaxSubscriptions -> Nat]
         /\ \A r \in 1 .. MaxSubscriptions : settled'[r] = Cardinality(PaidFor(r)')
    BY <1>1, <1>9 DEF BillingIInv, BillingTypeOK, BooksClose
  <1> QED
    BY <1>1, <1>6, <1>7, <1>8, <1>10, InvoicesChanged

\* An invoice that gets another status.
LEMMA InvoiceMarked ==
    ASSUME BillingIInv, NEW i \in DOMAIN invoices, NEW status \in {"paid", "past_due"},
           invoices' = [invoices EXCEPT ![i].status = status]
    PROVE  /\ invoices' \in Seq(Invoice) /\ Len(invoices') = Len(invoices)
           /\ DOMAIN invoices' = DOMAIN invoices
           /\ \A j \in DOMAIN invoices :
                /\ invoices'[j].subscription = invoices[j].subscription
                /\ invoices'[j].tenant = invoices[j].tenant
                /\ invoices'[j].status = IF j = i THEN status ELSE invoices[j].status
  <1> DEFINE new == [invoices[i] EXCEPT !.status = status]
  <1>1. /\ new \in Invoice /\ new.subscription = invoices[i].subscription
        /\ new.tenant = invoices[i].tenant /\ new.status = status
    BY InvoiceIs DEF Invoice
  <1>2. invoices' = [invoices EXCEPT ![i] = new]
    OBVIOUS
  <1> HIDE DEF new
  <1>3. Rewritten(invoices, invoices', i, new, Invoice)
    BY <1>1, <1>2, BillingTables, RowReplaced
  <1> QED
    BY <1>1, <1>3 DEF Rewritten

LEMMA PendingIs ==
    ASSUME NEW s, NEW i \in PendingInvoice(s)
    PROVE  i \in DOMAIN invoices /\ invoices[i].subscription = s /\ invoices[i].status = "pending"
  BY DEF PendingInvoice, NewestOf

LEMMA PaidIsFinite == BillingIInv => \A s : IsFiniteSet(PaidFor(s)) /\ Cardinality(PaidFor(s)) \in Nat
  <1> SUFFICES ASSUME BillingIInv, NEW s
               PROVE  IsFiniteSet(PaidFor(s)) /\ Cardinality(PaidFor(s)) \in Nat
    OBVIOUS
  <1>1. PaidFor(s) \subseteq DOMAIN invoices /\ IsFiniteSet(DOMAIN invoices)
    BY BillingTables, RowsAreFinite DEF PaidFor
  <1> QED
    BY <1>1, FS_Subset, FS_CardinalityType

LEMMA InvoicePaidKeeps ==
    ASSUME BillingIInv, NEW s, InvoicePaid(s)
    PROVE  BillingIInv'
  <1>1. PICK i \in PendingInvoice(s) : invoices' = [invoices EXCEPT ![i].status = "paid"]
    BY DEF InvoicePaid
  <1>2. /\ settled' = [settled EXCEPT ![s] = @ + 1] /\ s \in DOMAIN subscriptions
        /\ UNCHANGED <<subscriptions, wallet, usage, topped>>
    BY DEF InvoicePaid, Linked
  <1>3. i \in DOMAIN invoices /\ invoices[i].subscription = s /\ invoices[i].status = "pending"
    BY <1>1, PendingIs
  <1>4. /\ invoices' \in Seq(Invoice) /\ Len(invoices') = Len(invoices)
        /\ DOMAIN invoices' = DOMAIN invoices
        /\ \A j \in DOMAIN invoices :
                /\ invoices'[j].subscription = invoices[j].subscription
                /\ invoices'[j].tenant = invoices[j].tenant
                /\ invoices'[j].status = IF j = i THEN "paid" ELSE invoices[j].status
    BY <1>1, <1>3, InvoiceMarked
  <1>5. /\ PaidFor(s)' = PaidFor(s) \cup {i} /\ i \notin PaidFor(s)
        /\ \A r : r # s => PaidFor(r)' = PaidFor(r)
    BY <1>3, <1>4 DEF PaidFor
  <1>6. Cardinality(PaidFor(s)') = Cardinality(PaidFor(s)) + 1
    BY <1>5, PaidIsFinite, FS_AddElement
  <1>7. settled \in [1 .. MaxSubscriptions -> Nat] /\ s \in 1 .. MaxSubscriptions
    BY <1>2, BillingTables DEF BillingIInv, BillingTypeOK
  <1>8. /\ settled' \in [1 .. MaxSubscriptions -> Nat]
        /\ \A r \in 1 .. MaxSubscriptions : settled'[r] = Cardinality(PaidFor(r)')
    <2>1. \A r \in 1 .. MaxSubscriptions : settled[r] = Cardinality(PaidFor(r))
      BY DEF BillingIInv, BooksClose
    <2>2. settled' \in [1 .. MaxSubscriptions -> Nat]
      BY <1>2, <1>7
    <2>3. settled'[s] = Cardinality(PaidFor(s)')
      BY <1>2, <1>6, <1>7, <2>1
    <2>4. \A r \in 1 .. MaxSubscriptions \ {s} : settled'[r] = Cardinality(PaidFor(r)')
      BY <1>2, <1>5, <1>7, <2>1
    <2> QED
      BY <2>2, <2>3, <2>4
  <1>9. \A j \in DOMAIN invoices' :
            /\ invoices'[j].subscription \in DOMAIN subscriptions
            /\ invoices'[j].tenant = subscriptions[invoices'[j].subscription].tenant
    BY <1>4, InvoiceIs
  <1>10. Len(invoices') <= MaxInvoices
    BY <1>4 DEF BillingIInv
  <1> QED
    BY <1>2, <1>4, <1>8, <1>9, <1>10, InvoicesChanged

LEMMA InvoicePaymentFailedKeeps ==
    ASSUME BillingIInv, NEW s, InvoicePaymentFailed(s)
    PROVE  BillingIInv'
  <1>1. PICK i \in PendingInvoice(s) : invoices' = [invoices EXCEPT ![i].status = "past_due"]
    BY DEF InvoicePaymentFailed
  <1>2. UNCHANGED <<subscriptions, wallet, usage, settled, topped>>
    BY DEF InvoicePaymentFailed
  <1>3. i \in DOMAIN invoices /\ invoices[i].subscription = s /\ invoices[i].status = "pending"
    BY <1>1, PendingIs
  <1>4. /\ invoices' \in Seq(Invoice) /\ Len(invoices') = Len(invoices)
        /\ DOMAIN invoices' = DOMAIN invoices
        /\ \A j \in DOMAIN invoices :
                /\ invoices'[j].subscription = invoices[j].subscription
                /\ invoices'[j].tenant = invoices[j].tenant
                /\ invoices'[j].status = IF j = i THEN "past_due" ELSE invoices[j].status
    BY <1>1, <1>3, InvoiceMarked
  <1>5. \A r : PaidFor(r)' = PaidFor(r)
    BY <1>3, <1>4 DEF PaidFor
  <1>6. /\ settled' \in [1 .. MaxSubscriptions -> Nat]
        /\ \A r \in 1 .. MaxSubscriptions : settled'[r] = Cardinality(PaidFor(r)')
    BY <1>2, <1>5 DEF BillingIInv, BillingTypeOK, BooksClose
  <1>7. \A j \in DOMAIN invoices' :
            /\ invoices'[j].subscription \in DOMAIN subscriptions
            /\ invoices'[j].tenant = subscriptions[invoices'[j].subscription].tenant
    BY <1>4, InvoiceIs
  <1>8. Len(invoices') <= MaxInvoices
    BY <1>4 DEF BillingIInv
  <1> QED
    BY <1>2, <1>4, <1>6, <1>7, <1>8, InvoicesChanged

LEMMA RecordUsageKeeps ==
    ASSUME BillingIInv, NEW s, RecordUsage(s)
    PROVE  BillingIInv'
  <1>1. /\ s \in DOMAIN subscriptions /\ usage[s] < MaxUsage /\ usage' = [usage EXCEPT ![s] = @ + 1]
        /\ UNCHANGED <<subscriptions, invoices, wallet, settled, topped>>
    BY DEF RecordUsage
  <1>2. s \in 1 .. MaxSubscriptions /\ MaxUsage \in Nat
    BY <1>1, BillingTables, BillingAssumption
  <1>3. BillingTypeOK'
    BY <1>1, <1>2 DEF BillingIInv, BillingTypeOK
  <1> QED
    BY <1>1, <1>3 DEF BillingIInv, NoTwoRunning, OursOrSynced, RunsFor, InvoicesMatch, BooksClose, PaidFor

LEMMA TopUpWalletKeeps ==
    ASSUME BillingIInv, NEW t \in Tenants, NEW a \in Amounts, TopUpWallet(t, a)
    PROVE  BillingIInv'
  <1> DEFINE balance == wallet[t].balance + a
             lifetime == wallet[t].lifetime + a
             new == [wallet[t] EXCEPT !.balance = balance, !.lifetime = lifetime]
  <1>1. /\ wallet' = [wallet EXCEPT ![t].balance = @ + a, ![t].lifetime = @ + a]
        /\ topped' = [topped EXCEPT ![t] = @ + a]
        /\ UNCHANGED <<subscriptions, invoices, usage, settled>>
    BY DEF TopUpWallet, Credited
  <1>2. /\ wallet \in [Tenants -> Wallet] /\ topped \in [Tenants -> Nat] /\ a \in Nat
    BY BillingAssumption DEF BillingIInv, BillingTypeOK
  <1>3. wallet' = [wallet EXCEPT ![t] = new]
    BY <1>1, <1>2
  <1>4. new \in Wallet /\ new.balance = wallet[t].balance + a
    <2>1. wallet[t] \in Wallet
      BY <1>2
    <2>2. balance \in Nat /\ lifetime \in Nat
      BY <1>2, <2>1 DEF Wallet
    <2>3. balance = wallet[t].balance + a
      OBVIOUS
    <2> HIDE DEF balance, lifetime
    <2>4. new \in Wallet /\ new.balance = balance
      BY <2>1, <2>2 DEF Wallet
    <2> QED
      BY <2>3, <2>4
  <1> HIDE DEF new
  <1>5. wallet' \in [Tenants -> Wallet] /\ topped' \in [Tenants -> Nat]
    <2>1. wallet' \in [Tenants -> Wallet]
      BY <1>2, <1>3, <1>4
    <2>2. topped' \in [Tenants -> Nat]
      BY <1>1, <1>2
    <2> QED
      BY <2>1, <2>2
  <1>6. BillingTypeOK'
    BY <1>1, <1>5 DEF BillingIInv, BillingTypeOK
  <1>7. \A u \in Tenants : wallet'[u].balance = topped'[u]
    <2>1. \A u \in Tenants : wallet[u].balance = topped[u]
      BY DEF BillingIInv, BooksClose
    <2> QED
      BY <1>1, <1>2, <1>3, <1>4, <2>1
  <1>8. BooksClose'
    BY <1>1, <1>7 DEF BillingIInv, BooksClose, PaidFor
  <1> QED
    BY <1>1, <1>6, <1>8 DEF BillingIInv, NoTwoRunning, OursOrSynced, RunsFor, InvoicesMatch

LEMMA BillingNextIInv == BillingIInv /\ [BillingNext]_billingVars => BillingIInv'
  <1> SUFFICES ASSUME BillingIInv, [BillingNext]_billingVars PROVE BillingIInv'
    OBVIOUS
  <1>1. CASE UNCHANGED billingVars
    BY <1>1 DEF billingVars, BillingIInv, BillingTypeOK, NoTwoRunning, OursOrSynced, RunsFor,
                InvoicesMatch, BooksClose, PaidFor
  <1>2. CASE WalletNext
    BY <1>2, TopUpWalletKeeps DEF WalletNext
  <1>3. CASE SubscriptionsNext
    <2>1. CASE StripeWebhook
      BY <2>1, InvoicePaidKeeps, InvoicePaymentFailedKeeps, SubscriptionDeletedKeeps,
         SubscriptionUpdatedKeeps DEF StripeWebhook, HandleStripeWebhook
    <2>2. ASSUME NEW t \in Tenants,
                 \/ \E p \in Plans, trial \in BOOLEAN : CreateSubscription(t, p, trial)
                 \/ GenerateInvoice(t)
                 \/ \E s \in 1 .. MaxSubscriptions :
                     \/ \E p \in Plans : UpdateSubscriptionPlan(t, s, p)
                     \/ \E immediate \in BOOLEAN : CancelSubscription(t, s, immediate)
          PROVE  BillingIInv'
      BY <2>2, CreateSubscriptionKeeps, GenerateInvoiceKeeps, UpdateSubscriptionPlanKeeps,
         CancelSubscriptionKeeps
    <2>3. ASSUME NEW s \in 1 .. MaxSubscriptions, Link(s) \/ RecordUsage(s) PROVE BillingIInv'
      BY <2>3, LinkKeeps, RecordUsageKeeps
    <2> QED
      BY <1>3, <2>1, <2>2, <2>3 DEF SubscriptionsNext
  <1> QED
    BY <1>1, <1>2, <1>3 DEF BillingNext

LEMMA BillingSpecIInv == BillingSpec => []BillingIInv
  BY BillingInitIInv, BillingNextIInv, PTL DEF BillingSpec

\* The pages of the payment history show the paid invoices, all of them.
LEMMA HistoryIs ==
    ASSUME BillingIInv, NEW t \in Tenants
    PROVE  Walk(LAMBDA p, l : ListPaymentHistory(t, p, l), MaxInvoices) = PaymentHistory(t)
  <1> DEFINE ids == PaymentHistory(t)
  <1>1. ids \subseteq 1 .. Len(invoices) /\ Len(invoices) \in 0 .. MaxInvoices /\ MaxInvoices \in Nat
    BY BillingTables DEF PaymentHistory, InvoicesOf, OfTenant
  <1> HIDE DEF ids
  <1>2. UNION {Page(ids, p, 1) : p \in 1 .. MaxInvoices} = ids
    BY <1>1, WalkShowsAll
  <1> QED
    BY <1>2 DEF Walk, ListPaymentHistory, ids

LEMMA BillingInvariants == BillingIInv => BillingTypeOK /\ BillingConsistent
  <1> SUFFICES ASSUME BillingIInv PROVE BillingTypeOK /\ BillingConsistent
    OBVIOUS
  <1>1. OneRunning
    <2> SUFFICES ASSUME NEW t \in Tenants,
                        Cardinality({s \in SubscriptionsOf(t) : subscriptions[s].status \in Running}) > 1
                 PROVE  \E s \in {r \in SubscriptionsOf(t) : subscriptions[r].status \in Running} :
                            subscriptions[s].synced
      BY DEF OneRunning
    <2> DEFINE running == {s \in SubscriptionsOf(t) : subscriptions[s].status \in Running}
    <2>1. /\ \A s \in running : s \in DOMAIN subscriptions /\ RunsFor(s, t)
          /\ running \subseteq DOMAIN subscriptions /\ Cardinality(running) > 1
      BY DEF SubscriptionsOf, OfTenant, RunsFor
    <2> HIDE DEF running
    <2>2. IsFiniteSet(running)
      BY <2>1, BillingTables, RowsAreFinite, FS_Subset
    <2>3. PICK s, r \in running : s # r
      BY <2>1, <2>2, TwoOfMany
    <2>4. subscriptions[s].synced \/ subscriptions[r].synced
      BY <2>1, <2>3 DEF BillingIInv, NoTwoRunning
    <2> QED
      BY <2>3, <2>4 DEF running
  <1>2. LedgerBalances
    <2> SUFFICES ASSUME NEW t \in Tenants
                 PROVE  /\ \A i \in PaymentHistory(t) : invoices[i].subscription \in SubscriptionsOf(t)
                        /\ \A s \in SubscriptionsOf(t) :
                            Cardinality({i \in PaymentHistory(t) : invoices[i].subscription = s})
                                = settled[s]
                        /\ GetWallet(t) = topped[t]
      BY HistoryIs DEF LedgerBalances
    <2>1. ASSUME NEW i \in PaymentHistory(t) PROVE invoices[i].subscription \in SubscriptionsOf(t)
      BY <2>1, InvoiceIs DEF PaymentHistory, InvoicesOf, OfTenant, SubscriptionsOf
    <2>2. ASSUME NEW s \in SubscriptionsOf(t)
          PROVE  Cardinality({i \in PaymentHistory(t) : invoices[i].subscription = s}) = settled[s]
      <3>1. s \in DOMAIN subscriptions /\ subscriptions[s].tenant = t /\ s \in 1 .. MaxSubscriptions
        BY <2>2, BillingTables DEF SubscriptionsOf, OfTenant
      <3>2. {i \in PaymentHistory(t) : invoices[i].subscription = s} = PaidFor(s)
        BY <3>1, InvoiceIs DEF PaymentHistory, InvoicesOf, OfTenant, PaidFor
      <3> QED
        BY <3>1, <3>2 DEF BillingIInv, BooksClose
    <2>3. GetWallet(t) = topped[t]
      BY DEF GetWallet, Credits, BillingIInv, BooksClose
    <2> QED
      BY <2>1, <2>2, <2>3
  <1> QED
    BY <1>1, <1>2 DEF BillingIInv, BillingConsistent

\* Subscriptions, invoices and wallets are what they are declared to be.
THEOREM BillingTyped == BillingSpec => []BillingTypeOK
  BY BillingSpecIInv, BillingInvariants, PTL

\* However creations, trials, cancellations, changes of plan and Stripe's events
\* follow each other: a tenant has no two running subscriptions unless Stripe has
\* revived one, its payment history shows as many paid invoices of each of its
\* subscriptions as payments have settled, and its wallet what was put in.
THEOREM MoneyIsInTheBooks == BillingSpec => []BillingConsistent
  BY BillingSpecIInv, BillingInvariants, PTL

LEMMA BillingViewsIs == BillingIInv => BillingViewsAgree
  <1> SUFFICES ASSUME BillingIInv, NEW t \in Tenants
               PROVE  LET shown == Walk(LAMBDA p, l : ListSubscriptions(t, p, l), MaxSubscriptions)
                      IN  /\ {s \in 1 .. MaxSubscriptions : GetSubscription(t, s)} = shown
                          /\ GetUsageSummary(t, {})
                                \subseteq UNION {GetUsageSummary(t, {s}) : s \in shown}
    BY DEF BillingViewsAgree
  <1>1. Walk(LAMBDA p, l : ListSubscriptions(t, p, l), MaxSubscriptions) = SubscriptionsOf(t)
    <2> DEFINE ids == SubscriptionsOf(t)
    <2>1. /\ ids \subseteq 1 .. Len(subscriptions)
          /\ Len(subscriptions) \in 0 .. MaxSubscriptions /\ MaxSubscriptions \in Nat
      BY BillingTables DEF SubscriptionsOf, OfTenant
    <2> HIDE DEF ids
    <2>2. UNION {Page(ids, p, 1) : p \in 1 .. MaxSubscriptions} = ids
      BY <2>1, WalkShowsAll
    <2> QED
      BY <2>2 DEF Walk, ListSubscriptions, ids
  <1>2. {s \in 1 .. MaxSubscriptions : GetSubscription(t, s)} = SubscriptionsOf(t)
    BY BillingTables DEF GetSubscription, IsSubscription, SubscriptionsOf, OfTenant
  <1>3. GetUsageSummary(t, {}) = {UsageOf(s) : s \in ActiveOf(t)}
    BY DEF GetUsageSummary
  <1>4. ActiveOf(t) \subseteq SubscriptionsOf(t) /\ SubscriptionsOf(t) \subseteq DOMAIN subscriptions
    BY DEF ActiveOf, SubscriptionsOf, OfTenant
  <1>5. \A s \in DOMAIN subscriptions : UsageOf(s) \in GetUsageSummary(t, {s})
    BY DEF GetUsageSummary
  <1>6. GetUsageSummary(t, {}) \subseteq UNION {GetUsageSummary(t, {s}) : s \in SubscriptionsOf(t)}
    BY <1>3, <1>4, <1>5
  <1> HIDE DEF SubscriptionsOf, GetUsageSummary
  <1> QED
    BY <1>1, <1>2, <1>6

\* Lists, gets and the usage summary agree about any number of subscriptions.
THEOREM BillingViews == BillingSpec => []BillingViewsAgree
  BY BillingSpecIInv, BillingViewsIs, PTL
-----------------------------------------------------------------------------
(***************************************************************************)
(* Agents.  A total is a counter in the agent's row and a history is a     *)
(* query on other rows, which finds the newest of the tenant.  They are of *)
(* one size, up to the query's limit, because an execution is its agent's  *)
(* tenant's, because no tenant has two agents of a type, and because no    *)
(* row is counted twice.                                                   *)
(***************************************************************************)
ExecutionsOf(done, a) == {e \in DOMAIN done : done[e].agent = a}
Least(m, n) == IF m < n THEN m ELSE n

\* A row that is newer than all takes the first place of the newest ones.
LEMMA NewestGrow ==
    ASSUME NEW ids \in SUBSET Nat, IsFiniteSet(ids), NEW e \in Nat, \A i \in ids : i < e,
           NEW limit \in Nat
    PROVE  Page(ids \cup {e}, 1, limit + 1) = Page(ids, 1, limit) \cup {e}
  <1> DEFINE Newer(S, i) == Cardinality({j \in S : j > i})
             more == ids \cup {e}
  <1>1. \A S, n, i : i \in Page(S, 1, n) <=> i \in S /\ 0 * n <= Newer(S, i) /\ Newer(S, i) < 1 * n
    BY DEF Page
  <1>2. ASSUME NEW i \in ids
        PROVE  Newer(ids, i) \in Nat /\ Newer(more, i) = Newer(ids, i) + 1
    <2> DEFINE newer == {j \in ids : j > i}
    <2>1. {j \in more : j > i} = newer \cup {e} /\ e \notin newer
      OBVIOUS
    <2>2. IsFiniteSet(newer) /\ Cardinality(newer) \in Nat
      BY FS_Subset, FS_CardinalityType
    <2> QED
      BY <2>1, <2>2, FS_AddElement
  <1>3. Newer(more, e) = 0
    <2>1. ASSUME NEW j \in more, j > e PROVE FALSE
      <3>1. CASE j = e
        BY <2>1, <3>1
      <3>2. CASE j \in ids
        BY <2>1, <3>2
      <3> QED
        BY <3>1, <3>2
    <2>2. {j \in more : j > e} = {}
      BY <2>1
    <2> QED
      BY <2>2, FS_EmptySet
  <1> HIDE DEF Newer, more
  <1>4. \A i \in ids : i \in Page(more, 1, limit + 1) <=> i \in Page(ids, 1, limit)
    <2> SUFFICES ASSUME NEW i \in ids
                 PROVE  i \in Page(more, 1, limit + 1) <=> i \in Page(ids, 1, limit)
      OBVIOUS
    <2>1. i \in more
      BY DEF more
    <2>2. i \in Page(more, 1, limit + 1) <=> Newer(more, i) < limit + 1
      BY <1>1, <1>2, <2>1
    <2>3. i \in Page(ids, 1, limit) <=> Newer(ids, i) < limit
      BY <1>1, <1>2
    <2> QED
      BY <1>2, <2>2, <2>3
  <1>5. e \in Page(more, 1, limit + 1)
    <2>1. e \in more
      BY DEF more
    <2> QED
      BY <1>1, <1>3, <2>1
  <1>6. Page(ids, 1, limit) \subseteq ids /\ Page(more, 1, limit + 1) \subseteq more
    BY <1>1
  <1>7. more = ids \cup {e}
    BY DEF more
  <1> QED
    BY <1>4, <1>5, <1>6, <1>7

LEMMA NewestOfNone == \A limit \in Nat : Cardinality(Page({}, 1, limit)) = 0 /\ Page({}, 1, limit) = {}
  BY FS_EmptySet DEF Page

LEMMA NewestNone ==
    ASSUME NEW ids \in SUBSET Nat, IsFiniteSet(ids)
    PROVE  Cardinality(Page(ids, 1, 0)) = 0
  <1>1. ASSUME NEW i \in Page(ids, 1, 0) PROVE FALSE
    <2> DEFINE n == Cardinality({j \in ids : j > i})
    <2>1. n \in Nat
      BY FS_Subset, FS_CardinalityType
    <2>2. n < 1 * 0
      BY DEF Page
    <2> QED
      BY <2>1, <2>2
  <1>2. Page(ids, 1, 0) = {}
    BY <1>1
  <1> QED
    BY <1>2, FS_EmptySet

AgentsCount(table, done) ==
    /\ table \in Seq(AIAgent) /\ done \in Seq(AIAgentExecution)
    /\ \A a, b \in DOMAIN table :
        table[a].tenant = table[b].tenant /\ table[a].type = table[b].type => a = b
    /\ \A e \in DOMAIN done : /\ done[e].agent \in DOMAIN table
                              /\ done[e].tenant = table[done[e].agent].tenant
    /\ \A a \in DOMAIN table : table[a].total = Cardinality(ExecutionsOf(done, a))
    /\ \A a \in DOMAIN table, limit \in Nat :
        Cardinality(Page(ExecutionsOf(done, a), 1, limit)) = Least(table[a].total, limit)

ConversationsCount == \A c \in DOMAIN conversations :
    conversations[c].count = conversations[c].assistant

AgentsIInv ==
    /\ AgentsTypeOK
    /\ Len(executions) <= MaxExecutions /\ Len(conversations) <= MaxConversations
    /\ AgentsCount(agents, executions)
    /\ ConversationsCount

LEMMA AgentsInitIInv == AgentsInit => AgentsIInv
  <1> SUFFICES ASSUME AgentsInit PROVE AgentsIInv
    OBVIOUS
  <1>1. /\ agents = <<>> /\ executions = <<>> /\ conversations = <<>>
        /\ MaxExecutions \in Nat /\ MaxConversations \in Nat
    BY AgentsAssumption DEF AgentsInit
  <1> QED
    BY <1>1 DEF AgentsIInv, AgentsTypeOK, AgentsCount, ConversationsCount

\* Whether the tenant had an agent of the type or gets one: it has one then.
LEMMA AgentResolved ==
    ASSUME AgentsCount(agents, executions), NEW t \in Tenants, NEW type \in AgentTypes
    PROVE  /\ AgentsCount(ResolveAgentRecord(t, type), executions)
           /\ Resolved(t, type) \in DOMAIN ResolveAgentRecord(t, type)
           /\ ResolveAgentRecord(t, type)[Resolved(t, type)].tenant = t
           /\ DOMAIN agents \subseteq DOMAIN ResolveAgentRecord(t, type)
  <1>1. CASE AgentRecord(t, type) # {}
    <2>1. Resolved(t, type) \in AgentRecord(t, type)
      BY <1>1 DEF Resolved
    <2> QED
      BY <1>1, <2>1 DEF ResolveAgentRecord, AgentRecord, OfTenant
  <1>2. CASE AgentRecord(t, type) = {}
    <2> DEFINE row == [tenant |-> t, type |-> type, total |-> 0]
               table == Append(agents, row)
               a == Len(agents) + 1
    <2>1. ResolveAgentRecord(t, type) = table /\ Resolved(t, type) = a
      BY <1>2 DEF ResolveAgentRecord, Resolved, Inserted
    <2>2. row \in AIAgent /\ row.tenant = t /\ row.type = type /\ row.total = 0
      BY AgentsAssumption DEF AIAgent
    <2> HIDE DEF row
    <2>3. agents \in Seq(AIAgent)
      BY DEF AgentsCount
    <2>4. /\ table \in Seq(AIAgent) /\ DOMAIN table = DOMAIN agents \cup {a}
          /\ a \notin DOMAIN agents /\ table[a] = row
          /\ \A b \in DOMAIN agents : table[b] = agents[b]
      BY <2>2, <2>3
    <2> HIDE DEF table, a
    <2>5. \A b \in DOMAIN agents : ~(agents[b].tenant = t /\ agents[b].type = type)
      BY <1>2 DEF AgentRecord, OfTenant
    <2>6. \A b, c \in DOMAIN table :
            table[b].tenant = table[c].tenant /\ table[b].type = table[c].type => b = c
      BY <2>2, <2>4, <2>5 DEF AgentsCount
    <2>7. \A e \in DOMAIN executions : /\ executions[e].agent \in DOMAIN table
                                       /\ executions[e].tenant = table[executions[e].agent].tenant
      BY <2>4 DEF AgentsCount
    <2>8. /\ table[a].total = Cardinality(ExecutionsOf(executions, a))
          /\ \A limit \in Nat :
                Cardinality(Page(ExecutionsOf(executions, a), 1, limit)) = Least(table[a].total, limit)
      <3>1. ExecutionsOf(executions, a) = {}
        BY <2>4 DEF AgentsCount, ExecutionsOf
      <3> QED
        BY <2>2, <2>4, <3>1, FS_EmptySet, NewestOfNone DEF Least
    <2>9. \A b \in DOMAIN table : table[b].total = Cardinality(ExecutionsOf(executions, b))
      BY <2>4, <2>8 DEF AgentsCount
    <2>11. \A b \in DOMAIN table, limit \in Nat :
            Cardinality(Page(ExecutionsOf(executions, b), 1, limit)) = Least(table[b].total, limit)
      BY <2>4, <2>8 DEF AgentsCount
    <2>10. AgentsCount(table, executions)
      BY <2>4, <2>6, <2>7, <2>9, <2>11 DEF AgentsCount
    <2> QED
      BY <2>1, <2>2, <2>4, <2>10
  <1> QED
    BY <1>1, <1>2

\* An execution is counted by its agent and by no other.
LEMMA ExecutionCounted ==
    ASSUME NEW table, NEW done, AgentsCount(table, done), Len(done) < MaxExecutions,
           NEW a \in DOMAIN table, NEW row \in AIAgentExecution,
           row.agent = a, row.tenant = table[a].tenant
    PROVE  AgentsCount([table EXCEPT ![a].total = @ + 1], Append(done, row))
  <1> DEFINE new == [table[a] EXCEPT !.total = @ + 1]
             counted == [table EXCEPT ![a] = new]
             longer == Append(done, row)
             e == Len(done) + 1
  <1>1. table \in Seq(AIAgent) /\ done \in Seq(AIAgentExecution) /\ MaxExecutions \in Nat
    BY AgentsAssumption DEF AgentsCount
  <1>2. /\ longer \in Seq(AIAgentExecution) /\ DOMAIN longer = DOMAIN done \cup {e}
        /\ e \notin DOMAIN done /\ longer[e] = row /\ e <= MaxExecutions
        /\ \A d \in DOMAIN done : longer[d] = done[d]
    BY <1>1
  <1>3. /\ IsFiniteSet(DOMAIN done) /\ DOMAIN done = 1 .. Len(done)
        /\ Cardinality(DOMAIN done) = Len(done)
    <2>1. \A k \in Int : IsFiniteSet(1 .. k) /\ Cardinality(1 .. k) = IF 1 > k THEN 0 ELSE k - 1 + 1
      BY FS_Interval
    <2>2. Len(done) \in Nat /\ DOMAIN done = 1 .. Len(done)
      BY <1>1
    <2>3. IsFiniteSet(1 .. Len(done))
          /\ Cardinality(1 .. Len(done)) = IF 1 > Len(done) THEN 0 ELSE Len(done) - 1 + 1
      BY <2>1, <2>2
    <2> QED
      BY <2>2, <2>3
  <1> HIDE DEF longer, e
  <1>4. ASSUME NEW b \in DOMAIN table
        PROVE  /\ IsFiniteSet(ExecutionsOf(done, b))
               /\ Cardinality(ExecutionsOf(done, b)) \in 0 .. Len(done)
    <2>1. ExecutionsOf(done, b) \subseteq DOMAIN done
      BY DEF ExecutionsOf
    <2>2. /\ IsFiniteSet(ExecutionsOf(done, b))
          /\ Cardinality(ExecutionsOf(done, b)) <= Cardinality(DOMAIN done)
          /\ Cardinality(ExecutionsOf(done, b)) \in Nat
      BY <1>3, <2>1, FS_Subset, FS_CardinalityType
    <2> QED
      BY <1>1, <1>3, <2>2
  <1>5. ExecutionsOf(longer, a) = ExecutionsOf(done, a) \cup {e} /\ e \notin ExecutionsOf(done, a)
    BY <1>2 DEF ExecutionsOf
  <1>6. Cardinality(ExecutionsOf(longer, a)) = Cardinality(ExecutionsOf(done, a)) + 1
    BY <1>4, <1>5, FS_AddElement
  <1>7. \A b \in DOMAIN table : b # a => ExecutionsOf(longer, b) = ExecutionsOf(done, b)
    BY <1>2 DEF ExecutionsOf
  <1>8. /\ new \in AIAgent /\ new.tenant = table[a].tenant /\ new.type = table[a].type
        /\ new.total = Cardinality(ExecutionsOf(longer, a))
    <2>1. /\ table[a] \in AIAgent /\ table[a].total = Cardinality(ExecutionsOf(done, a))
          /\ table[a].total \in 0 .. Len(done)
      BY <1>1, <1>4 DEF AgentsCount
    <2>2. table[a].total + 1 \in 0 .. MaxExecutions
      BY <1>1, <2>1
    <2> DEFINE total == table[a].total + 1
    <2>3. new = [table[a] EXCEPT !.total = total] /\ total \in 0 .. MaxExecutions
          /\ total = Cardinality(ExecutionsOf(longer, a))
      BY <1>6, <2>1, <2>2
    <2> HIDE DEF total, new
    <2> QED
      BY <2>1, <2>3 DEF AIAgent
  <1> HIDE DEF new
  <1>9. /\ counted \in Seq(AIAgent) /\ DOMAIN counted = DOMAIN table
        /\ counted[a] = new /\ \A b \in DOMAIN table : b # a => counted[b] = table[b]
    BY <1>1, <1>8
  <1>10. [table EXCEPT ![a].total = @ + 1] = counted
    BY <1>1 DEF new
  <1> HIDE DEF counted
  <1>11. \A b, c \in DOMAIN counted :
            counted[b].tenant = counted[c].tenant /\ counted[b].type = counted[c].type => b = c
    BY <1>8, <1>9 DEF AgentsCount
  <1>12. \A d \in DOMAIN longer : /\ longer[d].agent \in DOMAIN counted
                                  /\ longer[d].tenant = counted[longer[d].agent].tenant
    <2>1. \A b \in DOMAIN table : counted[b].tenant = table[b].tenant
      BY <1>8, <1>9
    <2>2. \A d \in DOMAIN done : /\ done[d].agent \in DOMAIN table
                                /\ done[d].tenant = table[done[d].agent].tenant
      BY DEF AgentsCount
    <2>3. \A d \in DOMAIN done : done[d].tenant = counted[done[d].agent].tenant
      BY <2>1, <2>2
    <2>4. longer[e].agent \in DOMAIN counted /\ longer[e].tenant = counted[longer[e].agent].tenant
      BY <1>2, <1>9, <2>1
    <2> QED
      BY <1>2, <1>9, <2>2, <2>3, <2>4
  <1>13. \A b \in DOMAIN counted : counted[b].total = Cardinality(ExecutionsOf(longer, b))
    BY <1>7, <1>8, <1>9 DEF AgentsCount
  <1>15. ASSUME NEW b \in DOMAIN counted, NEW limit \in Nat
         PROVE  Cardinality(Page(ExecutionsOf(longer, b), 1, limit)) = Least(counted[b].total, limit)
    <2> DEFINE ids == ExecutionsOf(done, a)
    <2>1. /\ ids \in SUBSET Nat /\ IsFiniteSet(ids) /\ e \in Nat /\ \A i \in ids : i < e
          /\ e \notin ids /\ table[a].total = Cardinality(ids) /\ Cardinality(ids) \in Nat
          /\ counted[a].total = Cardinality(ids) + 1
      <3>1. ids \subseteq 1 .. Len(done) /\ Len(done) \in Nat /\ e = Len(done) + 1
        BY <1>1, <1>3 DEF ExecutionsOf, e
      <3>2. ids \in SUBSET Nat /\ e \in Nat /\ \A i \in ids : i < e
        BY <3>1
      <3>3. /\ IsFiniteSet(ids) /\ Cardinality(ids) \in Nat /\ e \notin ids
            /\ table[a].total = Cardinality(ids) /\ counted[a].total = Cardinality(ids) + 1
        BY <1>3, <1>4, <1>5, <1>6, <1>8, <1>9 DEF AgentsCount
      <3> QED
        BY <3>2, <3>3
    <2>2. \A n \in Nat : Cardinality(Page(ids, 1, n)) = Least(table[a].total, n)
      BY DEF AgentsCount
    <2>3. ExecutionsOf(longer, a) = ids \cup {e}
      BY <1>5
    <2> HIDE DEF ids
    <2>4. CASE b # a
      <3>1. /\ b \in DOMAIN table /\ counted[b] = table[b]
            /\ ExecutionsOf(longer, b) = ExecutionsOf(done, b)
        BY <1>7, <1>9, <2>4
      <3>2. Cardinality(Page(ExecutionsOf(done, b), 1, limit)) = Least(table[b].total, limit)
        BY <3>1 DEF AgentsCount
      <3> QED
        BY <3>1, <3>2
    <2>5. CASE b = a /\ limit = 0
      <3>1. IsFiniteSet(ids \cup {e}) /\ ids \cup {e} \in SUBSET Nat
        BY <2>1, FS_AddElement
      <3>2. Cardinality(Page(ids \cup {e}, 1, 0)) = 0
        BY <3>1, NewestNone
      <3>3. Least(counted[b].total, limit) = 0
        BY <2>1, <2>5 DEF Least
      <3> QED
        BY <2>3, <2>5, <3>2, <3>3
    <2>6. CASE b = a /\ limit # 0
      <3>1. PICK n \in Nat : limit = n + 1
        <4>1. limit - 1 \in Nat /\ limit = (limit - 1) + 1
          BY <2>6
        <4> QED
          BY <4>1
      <3>2. Page(ids \cup {e}, 1, limit) = Page(ids, 1, n) \cup {e}
        BY <2>1, <3>1, NewestGrow
      <3>3. Page(ids, 1, n) \subseteq ids
        BY DEF Page
      <3>4. IsFiniteSet(Page(ids, 1, n)) /\ e \notin Page(ids, 1, n)
        BY <2>1, <3>3, FS_Subset
      <3>5. Cardinality(Page(ids, 1, n) \cup {e}) = Cardinality(Page(ids, 1, n)) + 1
        BY <3>4, FS_AddElement
      <3>6. Cardinality(Page(ids, 1, n)) = Least(Cardinality(ids), n)
        BY <2>1, <2>2
      <3>7. Least(Cardinality(ids), n) + 1 = Least(Cardinality(ids) + 1, n + 1)
        BY <2>1 DEF Least
      <3>8. ExecutionsOf(longer, b) = ids \cup {e} /\ counted[b].total = Cardinality(ids) + 1
        BY <2>1, <2>3, <2>6
      <3>9. Cardinality(Page(ExecutionsOf(longer, b), 1, limit)) = Least(Cardinality(ids), n) + 1
        BY <3>2, <3>5, <3>6, <3>8
      <3> QED
        BY <3>1, <3>7, <3>8, <3>9
    <2> QED
      BY <2>4, <2>5, <2>6
  <1>14. AgentsCount(counted, longer)
    BY <1>2, <1>9, <1>11, <1>12, <1>13, <1>15 DEF AgentsCount
  <1> QED
    BY <1>10, <1>14 DEF longer

LEMMA ExecuteKeeps ==
    ASSUME AgentsIInv, NEW t \in Tenants, NEW type \in AgentTypes, NEW table \in Seq(Conversation),
           Len(table) = Len(conversations),
           \A c \in DOMAIN table : /\ table[c].count = table[c].assistant
                                   /\ table[c].agent \in {0} \cup DOMAIN agents,
           NEW c \in {0} \cup DOMAIN table, Execute(t, type, table, c)
    PROVE  AgentsIInv'
  <1> DEFINE full == ResolveAgentRecord(t, type)
             a == Resolved(t, type)
  <1>1. PICK outcome \in CallLLM :
            /\ Len(executions) < MaxExecutions
            /\ agents' = [full EXCEPT ![a].total = @ + 1]
            /\ RecordExecution(t, a, outcome)
            /\ conversations' = AppendToConversation(table, c, outcome)
    BY DEF Execute
  <1>2. /\ AgentsCount(full, executions) /\ a \in DOMAIN full /\ full[a].tenant = t
        /\ DOMAIN agents \subseteq DOMAIN full
    BY AgentResolved DEF AgentsIInv
  <1> HIDE DEF full, a
  <1>3. DOMAIN full \subseteq Nat \ {0} /\ full \in Seq(AIAgent)
    BY <1>2 DEF AgentsCount
  <1> DEFINE row == [tenant |-> t, agent |-> a,
                     status |-> IF outcome = "error" THEN "failed" ELSE "completed"]
  <1>4. /\ executions' = Append(executions, row)
        /\ row \in AIAgentExecution /\ row.agent = a /\ row.tenant = full[a].tenant
    BY <1>1, <1>2, <1>3 DEF RecordExecution, Inserted, AIAgentExecution
  <1> HIDE DEF row
  <1>5. AgentsCount(agents', executions')
    BY <1>1, <1>2, <1>4, ExecutionCounted
  <1>6. DOMAIN agents' = DOMAIN full
    BY <1>1
  <1>7. Len(executions') <= MaxExecutions
    <2>1. executions \in Seq(AIAgentExecution) /\ MaxExecutions \in Nat
      BY AgentsAssumption DEF AgentsIInv, AgentsTypeOK
    <2> QED
      BY <1>1, <1>4, <2>1
  <1>8. /\ conversations' \in Seq(Conversation) /\ Len(conversations') = Len(conversations)
        /\ \A d \in DOMAIN conversations' :
                /\ conversations'[d].count = conversations'[d].assistant
                /\ conversations'[d].agent \in {0} \cup DOMAIN agents
    <2>1. CASE conversations' = table
      BY <2>1
    <2>2. CASE /\ c \in DOMAIN table
               /\ conversations' = [table EXCEPT ![c].assistant = @ + 1, ![c].count = @ + 1]
      <3> DEFINE more == table[c].count + 1
                 new == [table[c] EXCEPT !.assistant = more, !.count = more]
      <3>1. table[c] \in Conversation /\ table[c].assistant = table[c].count
        BY <2>2
      <3>2. more \in Nat /\ table[c].assistant + 1 = more /\ table[c].count + 1 = more
        BY <3>1 DEF Conversation
      <3>3. conversations' = [table EXCEPT ![c] = new]
        BY <2>2, <3>2
      <3> HIDE DEF more
      <3>4. new \in Conversation /\ new.count = new.assistant /\ new.agent = table[c].agent
        BY <3>1, <3>2 DEF Conversation
      <3> HIDE DEF new
      <3>5. Rewritten(table, conversations', c, new, Conversation)
        BY <2>2, <3>3, <3>4, RowReplaced
      <3> QED
        BY <3>4, <3>5 DEF Rewritten
    <2> QED
      BY <1>1, <2>1, <2>2 DEF AppendToConversation
  <1>9. AgentsTypeOK'
    BY <1>2, <1>5, <1>6, <1>8 DEF AgentsTypeOK, AgentsCount
  <1> QED
    BY <1>5, <1>7, <1>8, <1>9 DEF AgentsIInv, ConversationsCount

LEMMA CreateConversationKeeps ==
    ASSUME AgentsIInv, NEW t \in Tenants, CreateConversation(t)
    PROVE  AgentsIInv'
  <1>1. PICK type \in AgentTypes \cup {"none"} :
            /\ Len(conversations) < MaxConversations
            /\ agents' = IF type = "none" THEN agents ELSE ResolveAgentRecord(t, type)
            /\ conversations' = Inserted(conversations, [tenant |-> t,
                    agent |-> IF type = "none" THEN 0 ELSE Resolved(t, type),
                    count |-> 0, user |-> 0, assistant |-> 0])
            /\ UNCHANGED executions
    BY DEF CreateConversation
  <1> DEFINE a == IF type = "none" THEN 0 ELSE Resolved(t, type)
             row == [tenant |-> t, agent |-> a, count |-> 0, user |-> 0, assistant |-> 0]
  <1>2. /\ AgentsCount(agents', executions) /\ DOMAIN agents \subseteq DOMAIN agents'
        /\ a \in {0} \cup DOMAIN agents'
    <2>1. CASE type = "none"
      BY <1>1, <2>1 DEF AgentsIInv
    <2>2. CASE type # "none"
      BY <1>1, <2>2, AgentResolved DEF AgentsIInv
    <2> QED
      BY <2>1, <2>2
  <1> HIDE DEF a
  <1>3. agents' \in Seq(AIAgent)
    BY <1>2 DEF AgentsCount
  <1>4. row \in Conversation /\ row.count = row.assistant /\ row.agent = a
    BY <1>2, <1>3 DEF Conversation
  <1>5. conversations' = Append(conversations, row)
    BY <1>1 DEF a, Inserted
  <1>6. conversations \in Seq(Conversation) /\ MaxConversations \in Nat
    BY AgentsAssumption DEF AgentsIInv, AgentsTypeOK
  <1> HIDE DEF row
  <1>7. Grown(conversations, conversations', row, Conversation)
    BY <1>4, <1>5, <1>6, RowInserted
  <1>8. /\ conversations' \in Seq(Conversation) /\ Len(conversations') <= MaxConversations
        /\ \A c \in DOMAIN conversations' :
                /\ conversations'[c].count = conversations'[c].assistant
                /\ conversations'[c].agent \in {0} \cup DOMAIN agents'
    <2>1. Len(conversations') <= MaxConversations
      BY <1>1, <1>6, <1>7 DEF Grown
    <2>2. \A c \in DOMAIN conversations : /\ conversations[c].count = conversations[c].assistant
                                         /\ conversations[c].agent \in {0} \cup DOMAIN agents
      BY DEF AgentsIInv, AgentsTypeOK, ConversationsCount
    <2> QED
      BY <1>2, <1>4, <1>7, <2>1, <2>2 DEF Grown
  <1>9. AgentsTypeOK'
    BY <1>1, <1>2, <1>8 DEF AgentsTypeOK, AgentsCount
  <1> QED
    BY <1>1, <1>2, <1>8, <1>9 DEF AgentsIInv, ConversationsCount

LEMMA SendMessageKeeps ==
    ASSUME AgentsIInv, NEW t \in Tenants, NEW c, SendMessage(t, c)
    PROVE  AgentsIInv'
  <1> DEFINE type == IF conversations[c].agent = 0 THEN "support"
                     ELSE agents[conversations[c].agent].type
             table == [conversations EXCEPT ![c].user = @ + 1]
             new == [conversations[c] EXCEPT !.user = @ + 1]
  <1>1. c \in DOMAIN conversations /\ Execute(t, type, table, c)
    BY DEF SendMessage, RunConversation
  <1>2. /\ agents \in Seq(AIAgent) /\ conversations \in Seq(Conversation)
        /\ \A d \in DOMAIN conversations : conversations[d].agent \in {0} \cup DOMAIN agents
    BY DEF AgentsIInv, AgentsTypeOK
  <1>3. type \in AgentTypes
    <2>1. CASE conversations[c].agent = 0
      BY <2>1, AgentsAssumption
    <2>2. CASE conversations[c].agent # 0
      <3>1. agents[conversations[c].agent] \in AIAgent
        BY <1>1, <1>2, <2>2
      <3> QED
        BY <2>2, <3>1 DEF AIAgent
    <2> QED
      BY <2>1, <2>2
  <1>4. conversations[c] \in Conversation
    BY <1>1, <1>2
  <1>5. /\ new \in Conversation /\ new.count = conversations[c].count
        /\ new.assistant = conversations[c].assistant /\ new.agent = conversations[c].agent
    BY <1>4 DEF Conversation
  <1>6. table = [conversations EXCEPT ![c] = new]
    BY <1>1, <1>2
  <1> HIDE DEF new, table, type
  <1>7. Rewritten(conversations, table, c, new, Conversation)
    BY <1>1, <1>2, <1>5, <1>6, RowReplaced
  <1>8. \A d \in DOMAIN conversations : conversations[d].count = conversations[d].assistant
    BY DEF AgentsIInv, ConversationsCount
  <1>9. /\ table \in Seq(Conversation) /\ Len(table) = Len(conversations) /\ c \in DOMAIN table
        /\ \A d \in DOMAIN table : /\ table[d].count = table[d].assistant
                                   /\ table[d].agent \in {0} \cup DOMAIN agents
    BY <1>1, <1>2, <1>5, <1>7, <1>8 DEF Rewritten
  <1> QED
    BY <1>1, <1>3, <1>9, ExecuteKeeps

LEMMA AgentsNextIInv == AgentsIInv /\ [AgentsNext]_agentVars => AgentsIInv'
  <1> SUFFICES ASSUME AgentsIInv, [AgentsNext]_agentVars PROVE AgentsIInv'
    OBVIOUS
  <1>1. CASE UNCHANGED agentVars
    BY <1>1 DEF agentVars, AgentsIInv, AgentsTypeOK, ConversationsCount
  <1>2. CASE AgentsNext
    <2>1. PICK t \in Tenants :
            \/ \E type \in AgentTypes : ExecuteAgent(t, type)
            \/ AnalyzeContent(t) \/ CreateConversation(t)
            \/ \E c \in 1 .. MaxConversations : SendMessage(t, c)
      BY <1>2 DEF AgentsNext
    <2>2. /\ conversations \in Seq(Conversation)
          /\ \A c \in DOMAIN conversations : /\ conversations[c].count = conversations[c].assistant
                                            /\ conversations[c].agent \in {0} \cup DOMAIN agents
      BY DEF AgentsIInv, AgentsTypeOK, ConversationsCount
    <2>3. ASSUME NEW type \in AgentTypes, ExecuteAgent(t, type) PROVE AgentsIInv'
      <3>1. PICK c \in {0} \cup DOMAIN conversations : Execute(t, type, conversations, c)
        BY <2>3 DEF ExecuteAgent
      <3> QED
        BY <2>2, <3>1, ExecuteKeeps
    <2>4. CASE AnalyzeContent(t)
      <3>1. Execute(t, "seo", conversations, 0) /\ "seo" \in AgentTypes
        BY <2>4, AgentsAssumption DEF AnalyzeContent
      <3> QED
        BY <2>2, <3>1, ExecuteKeeps
    <2> QED
      BY <2>1, <2>3, <2>4, CreateConversationKeeps, SendMessageKeeps
  <1> QED
    BY <1>1, <1>2

LEMMA AgentsSpecIInv == AgentsSpec => []AgentsIInv
  BY AgentsInitIInv, AgentsNextIInv, PTL DEF AgentsSpec

\* Executions and conversations are of agents that exist.
THEOREM AgentsTyped == AgentsSpec => []AgentsTypeOK
  <1>1. AgentsIInv => AgentsTypeOK
    BY DEF AgentsIInv
  <1> QED
    BY <1>1, AgentsSpecIInv, PTL

LEMMA TotalIsHistory == AgentsIInv => HistoryIsTotal
  <1> SUFFICES ASSUME AgentsIInv, NEW a \in DOMAIN agents
               PROVE  /\ AgentRecord(agents[a].tenant, agents[a].type) = {a}
                      /\ \A limit \in 1 .. HistoryLimit :
                            Cardinality(GetExecutionHistory(agents[a].tenant, agents[a].type, limit))
                                = IF agents[a].total < limit THEN agents[a].total ELSE limit
    BY DEF HistoryIsTotal
  <1>1. AgentsCount(agents, executions)
    BY DEF AgentsIInv
  <1>2. AgentRecord(agents[a].tenant, agents[a].type) = {a}
    BY <1>1 DEF AgentsCount, AgentRecord, OfTenant
  <1>3. \A limit : GetExecutionHistory(agents[a].tenant, agents[a].type, limit)
                        = Page(ExecutionsOf(executions, a), 1, limit)
    <2>1. {e \in OfTenant(executions, agents[a].tenant) :
                executions[e].agent \in AgentRecord(agents[a].tenant, agents[a].type)}
            = ExecutionsOf(executions, a)
      BY <1>1, <1>2 DEF AgentsCount, ExecutionsOf, OfTenant
    <2> QED
      BY <2>1 DEF GetExecutionHistory
  <1>4. 1 .. HistoryLimit \subseteq Nat
    BY AgentsAssumption
  <1> QED
    BY <1>1, <1>2, <1>3, <1>4 DEF AgentsCount, Least

LEMMA AgentViewsIs == AgentsIInv => AgentViewsAgree
  <1> SUFFICES ASSUME AgentsIInv PROVE AgentViewsAgree
    OBVIOUS
  <1>1. ASSUME NEW t \in Tenants
        PROVE  ConversationsOf(t)
                = Walk(LAMBDA p, l : ListConversations(t, p, l), MaxConversations)
    <2> DEFINE ids == ConversationsOf(t)
    <2>1. conversations \in Seq(Conversation) /\ MaxConversations \in Nat
      BY AgentsAssumption DEF AgentsIInv, AgentsTypeOK
    <2>2. ids \subseteq 1 .. Len(conversations) /\ Len(conversations) \in 0 .. MaxConversations
      BY <2>1 DEF ConversationsOf, OfTenant, AgentsIInv
    <2> HIDE DEF ids
    <2>3. UNION {Page(ids, p, 1) : p \in 1 .. MaxConversations} = ids
      BY <2>1, <2>2, WalkShowsAll
    <2> QED
      BY <2>3 DEF Walk, ListConversations, ids
  <1>2. ASSUME NEW c \in DOMAIN conversations
        PROVE  /\ conversations[c].count = conversations[c].assistant
               /\ GetConversation(c) => conversations[c].count = 0
    <2>1. conversations[c] \in Conversation
      BY DEF AgentsIInv, AgentsTypeOK
    <2>2. conversations[c].count = conversations[c].assistant
      BY DEF AgentsIInv, ConversationsCount
    <2>3. /\ conversations[c].count \in Nat /\ conversations[c].assistant \in Nat
          /\ conversations[c].user \in Nat
      BY <2>1 DEF Conversation
    <2> QED
      BY <2>2, <2>3 DEF GetConversation, MessagesShown
  <1> QED
    BY <1>1, <1>2, TotalIsHistory DEF AgentViewsAgree

\* An agent's total is the number of executions that a query of its history shows, up
\* to the query's limit, for any number of tenants, types and executions, with and
\* without answers; the list of conversations is complete and counts their answers.
THEOREM AgentViews == AgentsSpec => []AgentViewsAgree
  BY AgentViewsIs, AgentsSpecIInv, PTL
-----------------------------------------------------------------------------
(***************************************************************************)
(* Analytics.  A metric is computed from snapshots and a summary from      *)
(* events; they agree because every event has one snapshot, at the start   *)
(* of its hour.  A list of dashboards shows what the last get computed:    *)
(* it lags because snapshots are never removed.                            *)
(***************************************************************************)
SnapshotOf(event) == [tenant |-> event.tenant, name |-> event.name, time |-> Hour(event.time)]

SnapshotsFollow ==
    /\ Len(snapshots) = Len(events)
    /\ \A e \in DOMAIN events : snapshots[e] = SnapshotOf(events[e])

DataLags == \A d \in DOMAIN dashboards :
    dashboards[d].data <= WidgetData(dashboards[d].tenant, dashboards[d].metric)

AnalyticsIInv ==
    /\ AnalyticsTypeOK
    /\ Len(events) <= MaxEvents /\ Len(dashboards) <= MaxDashboards /\ Len(reports) <= MaxReports
    /\ SnapshotsFollow /\ DataLags

\* What the invariant says of the tables.
LEMMA AnalyticsTables ==
    ASSUME AnalyticsIInv
    PROVE  /\ events \in Seq(AnalyticsEvent) /\ snapshots \in Seq(MetricSnapshot)
           /\ dashboards \in Seq(Dashboard) /\ reports \in Seq(ScheduledReport)
           /\ Len(events) \in 0 .. MaxEvents /\ Len(snapshots) = Len(events)
           /\ Len(dashboards) \in 0 .. MaxDashboards /\ Len(reports) \in 0 .. MaxReports
           /\ DOMAIN events = DOMAIN snapshots /\ IsFiniteSet(DOMAIN events)
           /\ MaxEvents \in Nat /\ MaxDashboards \in Nat /\ MaxReports \in Nat /\ MaxTime \in Nat
  <1>1. /\ events \in Seq(AnalyticsEvent) /\ snapshots \in Seq(MetricSnapshot)
        /\ dashboards \in Seq(Dashboard) /\ reports \in Seq(ScheduledReport)
        /\ MaxEvents \in Nat /\ MaxDashboards \in Nat /\ MaxReports \in Nat /\ MaxTime \in Nat
        /\ Len(snapshots) = Len(events)
    BY AnalyticsAssumption DEF AnalyticsIInv, AnalyticsTypeOK, SnapshotsFollow
  <1>2. IsFiniteSet(DOMAIN events)
    BY <1>1, RowsAreFinite
  <1> QED
    BY <1>1, <1>2 DEF AnalyticsIInv

\* An hour begins at an even half hour, at most one before.
LEMMA HourBegins ==
    ASSUME NEW time \in Nat
    PROVE  /\ time % 2 \in {0, 1} /\ Hour(time) \in 0 .. time
           /\ Hour(time) = (IF time % 2 = 0 THEN time ELSE time - 1)
           /\ \E k \in Nat : Hour(time) = 2 * k
  BY DEF Hour

LEMMA HoursBetween ==
    ASSUME NEW time \in Nat, NEW from \in Nat, NEW to \in Nat
    PROVE  Hour(time) \in from .. to
            <=> time \in (IF from % 2 = 0 THEN from ELSE from + 1) .. (Hour(to) + 1)
  <1>1. PICK k \in Nat : Hour(time) = 2 * k /\ time \in {2 * k, 2 * k + 1}
    BY HourBegins
  <1>2. PICK m \in Nat : Hour(to) = 2 * m /\ to \in {2 * m, 2 * m + 1}
    BY HourBegins
  <1>3. PICK n \in Nat : 2 * n = (IF from % 2 = 0 THEN from ELSE from + 1)
                            /\ from \in {2 * n, 2 * n - 1}
    <2>1. CASE from % 2 = 0
      BY <2>1, HourBegins
    <2>2. CASE from % 2 # 0
      <3>1. PICK n \in Nat : from = 2 * n + 1
        BY <2>2, HourBegins
      <3>2. n + 1 \in Nat /\ 2 * (n + 1) = from + 1
        BY <3>1
      <3> QED
        BY <2>2, <3>1, <3>2
    <2> QED
      BY <2>1, <2>2
  <1>4. 2 * k \in from .. to <=> (n <= k /\ k <= m)
    BY <1>2, <1>3
  <1>5. time \in 2 * n .. 2 * m + 1 <=> (n <= k /\ k <= m)
    BY <1>1
  <1> QED
    BY <1>1, <1>2, <1>3, <1>4, <1>5

LEMMA AnalyticsInitIInv == AnalyticsInit => AnalyticsIInv
  <1> SUFFICES ASSUME AnalyticsInit PROVE AnalyticsIInv
    OBVIOUS
  <1>1. /\ events = <<>> /\ snapshots = <<>> /\ dashboards = <<>> /\ reports = <<>>
        /\ MaxEvents \in Nat /\ MaxDashboards \in Nat /\ MaxReports \in Nat
    BY AnalyticsAssumption DEF AnalyticsInit
  <1> QED
    BY <1>1 DEF AnalyticsIInv, AnalyticsTypeOK, SnapshotsFollow, DataLags

\* Snapshots are added, never removed: a metric grows, and not beyond the events.
LEMMA MetricGrows ==
    ASSUME NEW t, NEW name, NEW from, NEW to, snapshots \in Seq(MetricSnapshot),
           snapshots' \in Seq(MetricSnapshot), DOMAIN snapshots \subseteq DOMAIN snapshots',
           \A s \in DOMAIN snapshots : snapshots'[s] = snapshots[s]
    PROVE  /\ QueryMetrics(t, name, from, to) \in Int /\ QueryMetrics(t, name, from, to)' \in Int
           /\ QueryMetrics(t, name, from, to) <= QueryMetrics(t, name, from, to)'
  <1> DEFINE old == {s \in OfTenant(snapshots, t) :
                        snapshots[s].name = name /\ snapshots[s].time \in from .. to}
             new == {s \in OfTenant(snapshots', t) :
                        snapshots'[s].name = name /\ snapshots'[s].time \in from .. to}
  <1>1. IsFiniteSet(DOMAIN snapshots')
    BY RowsAreFinite
  <1>2. old \subseteq new /\ new \subseteq DOMAIN snapshots'
    BY DEF OfTenant
  <1> HIDE DEF old, new
  <1>3. IsFiniteSet(new) /\ Cardinality(new) \in Nat
    BY <1>1, <1>2, FS_Subset, FS_CardinalityType
  <1>4. Cardinality(old) \in Nat /\ Cardinality(old) <= Cardinality(new)
    BY <1>2, <1>3, FS_Subset, FS_CardinalityType
  <1>5. QueryMetrics(t, name, from, to) = Cardinality(old)
    BY DEF QueryMetrics, old
  <1>6. QueryMetrics(t, name, from, to)' = Cardinality(new)
    BY DEF QueryMetrics, OfTenant, new
  <1> QED
    BY <1>3, <1>4, <1>5, <1>6

LEMMA MetricBounded ==
    ASSUME AnalyticsIInv, NEW t, NEW name, NEW from, NEW to
    PROVE  QueryMetrics(t, name, from, to) \in 0 .. MaxEvents
  <1> DEFINE found == {s \in OfTenant(snapshots, t) :
                        snapshots[s].name = name /\ snapshots[s].time \in from .. to}
  <1>1. /\ found \subseteq 1 .. Len(snapshots) /\ Len(snapshots) \in 0 .. MaxEvents
        /\ MaxEvents \in Nat
    BY AnalyticsTables DEF OfTenant
  <1> HIDE DEF found
  <1>2. \A k \in Int : IsFiniteSet(1 .. k) /\ Cardinality(1 .. k) = IF 1 > k THEN 0 ELSE k - 1 + 1
    BY FS_Interval
  <1>3. IsFiniteSet(1 .. Len(snapshots)) /\ Cardinality(1 .. Len(snapshots)) = Len(snapshots)
    BY <1>1, <1>2
  <1>4. IsFiniteSet(found) /\ Cardinality(found) <= Len(snapshots) /\ Cardinality(found) \in Nat
    BY <1>1, <1>3, FS_Subset, FS_CardinalityType
  <1> QED
    BY <1>1, <1>4 DEF QueryMetrics, found

\* Events that are tracked, one or a batch, bring their snapshots with them.
LEMMA TrackedKeeps ==
    ASSUME AnalyticsIInv, NEW new \in Seq(AnalyticsEvent), Len(events) + Len(new) <= MaxEvents,
           events' = events \o new, Aggregated(new), UNCHANGED <<dashboards, reports>>
    PROVE  AnalyticsIInv'
  <1> DEFINE more == [i \in DOMAIN new |-> SnapshotOf(new[i])]
             n == Len(new)
  <1>1. snapshots' = snapshots \o more
    BY DEF Aggregated, SnapshotOf
  <1>2. ASSUME NEW i \in 1 .. n
        PROVE  more[i] = SnapshotOf(new[i]) /\ SnapshotOf(new[i]) \in MetricSnapshot
    <2>1. new[i] \in AnalyticsEvent
      OBVIOUS
    <2>2. new[i].time \in Nat /\ new[i].time <= MaxTime /\ MaxTime \in Nat
      BY <2>1, AnalyticsTables DEF AnalyticsEvent, Time
    <2>3. Hour(new[i].time) \in Time
      <3>1. PICK time : time = new[i].time
        OBVIOUS
      <3>2. Hour(time) \in 0 .. time
        BY <2>2, <3>1, HourBegins
      <3> QED
        BY <2>2, <3>1, <3>2 DEF Time
    <2> QED
      BY <2>1, <2>3 DEF AnalyticsEvent, MetricSnapshot, SnapshotOf
  <1>3. more \in [1 .. n -> MetricSnapshot] /\ n \in Nat
    <2>1. n \in Nat /\ DOMAIN new = 1 .. n
      OBVIOUS
    <2>2. \A i \in 1 .. n : SnapshotOf(new[i]) \in MetricSnapshot
      BY <1>2
    <2> HIDE DEF n
    <2> QED
      BY <2>1, <2>2
  <1>4. more \in Seq(MetricSnapshot) /\ Len(more) = n
    <2>1. more \in Seq(MetricSnapshot)
      BY <1>3, SeqDef
    <2>2. DOMAIN more = 1 .. Len(more) /\ DOMAIN more = 1 .. n /\ Len(more) \in Nat
      BY <1>3, <2>1
    <2> QED
      BY <1>3, <2>1, <2>2
  <1> HIDE DEF more
  <1>5. /\ events' \in Seq(AnalyticsEvent) /\ Len(events') = Len(events) + n
        /\ \A i \in 1 .. Len(events) + n :
            events'[i] = IF i <= Len(events) THEN events[i] ELSE new[i - Len(events)]
    BY AnalyticsTables, ConcatProperties
  <1>6. /\ snapshots' \in Seq(MetricSnapshot) /\ Len(snapshots') = Len(snapshots) + n
        /\ \A i \in 1 .. Len(snapshots) + n :
            snapshots'[i] = IF i <= Len(snapshots) THEN snapshots[i] ELSE more[i - Len(snapshots)]
    <2>1. /\ snapshots \o more \in Seq(MetricSnapshot)
          /\ Len(snapshots \o more) = Len(snapshots) + Len(more)
          /\ \A i \in 1 .. Len(snapshots) + Len(more) : (snapshots \o more)[i] =
                IF i <= Len(snapshots) THEN snapshots[i] ELSE more[i - Len(snapshots)]
      BY <1>4, AnalyticsTables, ConcatProperties
    <2> QED
      BY <1>1, <1>4, <2>1
  <1>7. /\ Len(events) \in Nat /\ Len(snapshots) = Len(events) /\ MaxEvents \in Nat
        /\ DOMAIN events = 1 .. Len(events) /\ DOMAIN snapshots = 1 .. Len(events)
    BY AnalyticsTables
  <1>8. AnalyticsTypeOK'
    BY <1>5, <1>6 DEF AnalyticsIInv, AnalyticsTypeOK
  <1>9. Len(events') <= MaxEvents /\ Len(snapshots') = Len(events')
    BY <1>3, <1>5, <1>6, <1>7
  <1>10. ASSUME NEW i \in DOMAIN events' PROVE snapshots'[i] = SnapshotOf(events'[i])
    <2>1. i \in 1 .. Len(events) + n
      BY <1>5
    <2>2. CASE i <= Len(events)
      <3>1. i \in DOMAIN events /\ events'[i] = events[i] /\ snapshots'[i] = snapshots[i]
        BY <1>5, <1>6, <1>7, <2>1, <2>2
      <3> QED
        BY <3>1 DEF AnalyticsIInv, SnapshotsFollow
    <2>3. CASE ~(i <= Len(events))
      <3>1. i - Len(events) \in 1 .. n
        BY <1>3, <1>7, <2>1, <2>3
      <3>2. events'[i] = new[i - Len(events)] /\ snapshots'[i] = more[i - Len(events)]
        BY <1>5, <1>6, <1>7, <2>1, <2>3
      <3> QED
        BY <1>2, <3>1, <3>2
    <2> QED
      BY <2>2, <2>3
  <1>11. SnapshotsFollow'
    BY <1>9, <1>10 DEF SnapshotsFollow, SnapshotOf, Hour
  <1>12. /\ DOMAIN snapshots \subseteq DOMAIN snapshots'
         /\ \A s \in DOMAIN snapshots : snapshots'[s] = snapshots[s]
    BY <1>3, <1>6, <1>7
  <1>13. ASSUME NEW d \in DOMAIN dashboards
         PROVE  dashboards[d].data <= WidgetData(dashboards[d].tenant, dashboards[d].metric)'
    <2> DEFINE t == dashboards[d].tenant
               metric == dashboards[d].metric
    <2>1. dashboards[d].data \in Int /\ dashboards[d].data <= WidgetData(t, metric)
      <3>1. dashboards[d] \in Dashboard /\ MaxEvents \in Nat
        BY AnalyticsTables
      <3> QED
        BY <3>1 DEF Dashboard, AnalyticsIInv, DataLags
    <2>2. PICK u, m : u = t /\ m = metric
      OBVIOUS
    <2>3. /\ QueryMetrics(u, m, 0, MaxTime) \in Int /\ QueryMetrics(u, m, 0, MaxTime)' \in Int
          /\ QueryMetrics(u, m, 0, MaxTime) <= QueryMetrics(u, m, 0, MaxTime)'
      BY <1>6, <1>12, AnalyticsTables, MetricGrows
    <2>4. t' = u /\ metric' = m
      BY <2>2
    <2> QED
      BY <2>1, <2>2, <2>3, <2>4 DEF WidgetData
  <1>14. DataLags'
    BY <1>13 DEF DataLags
  <1> QED
    BY <1>8, <1>9, <1>11, <1>14 DEF AnalyticsIInv

\* Dashboards may be changed if none shows more than there is to show.
LEMMA DashboardsKeep ==
    ASSUME AnalyticsIInv, UNCHANGED <<events, snapshots, reports>>,
           dashboards' \in Seq(Dashboard), Len(dashboards') <= MaxDashboards,
           \A d \in DOMAIN dashboards' :
                dashboards'[d].data <= WidgetData(dashboards'[d].tenant, dashboards'[d].metric)
    PROVE  AnalyticsIInv'
  <1>1. DataLags'
    <2> SUFFICES ASSUME NEW d \in DOMAIN dashboards'
                 PROVE  dashboards'[d].data
                            <= WidgetData(dashboards[d].tenant, dashboards[d].metric)'
      BY DEF DataLags
    <2> QED
      BY DEF WidgetData, QueryMetrics, OfTenant
  <1> QED
    BY <1>1 DEF AnalyticsIInv, AnalyticsTypeOK, SnapshotsFollow

LEMMA DashboardStepsKeep ==
    ASSUME AnalyticsIInv, NEW t \in Tenants, NEW d,
           GetDashboard(t, d) \/ UpdateDashboard(t, d) \/ DeleteDashboard(t, d)
    PROVE  AnalyticsIInv'
  <1>1. Gets(dashboards, d, t) /\ UNCHANGED <<events, snapshots, reports>>
    BY DEF GetDashboard, UpdateDashboard, DeleteDashboard
  <1>2. d \in DOMAIN dashboards /\ dashboards[d] \in Dashboard /\ dashboards[d].tenant = t
    BY <1>1, AnalyticsTables DEF Gets
  <1>3. \A e \in DOMAIN dashboards :
            dashboards[e].data <= WidgetData(dashboards[e].tenant, dashboards[e].metric)
    BY DEF AnalyticsIInv, DataLags
  <1>4. \A metric : WidgetData(t, metric) \in 0 .. MaxEvents
    BY MetricBounded DEF WidgetData
  <1>5. PICK new : /\ dashboards' = [dashboards EXCEPT ![d] = new] /\ new \in Dashboard
                   /\ new.data <= WidgetData(new.tenant, new.metric)
    <2>1. CASE GetDashboard(t, d)
      <3> DEFINE data == WidgetData(t, dashboards[d].metric)
                 new == [dashboards[d] EXCEPT !.data = data]
      <3>1. dashboards' = [dashboards EXCEPT ![d] = new]
        BY <1>2, <2>1 DEF GetDashboard, ComputedDashboard
      <3>2. data \in 0 .. MaxEvents /\ MaxEvents \in Nat
        BY <1>4, AnalyticsTables
      <3>3. new.tenant = t /\ new.metric = dashboards[d].metric /\ new.data = data
        BY <1>2 DEF Dashboard
      <3>4. new \in Dashboard
        <4> HIDE DEF data
        <4> QED
          BY <1>2, <3>2 DEF Dashboard
      <3>5. new.data <= WidgetData(new.tenant, new.metric)
        <4>1. new.data = WidgetData(new.tenant, new.metric)
          BY <3>3
        <4>2. new.data \in Int
          BY <3>2, <3>3
        <4> HIDE DEF new
        <4> QED
          BY <4>1, <4>2
      <3> QED
        BY <3>1, <3>4, <3>5
    <2>2. CASE UpdateDashboard(t, d)
      <3>1. PICK metric \in EventNames :
                dashboards' = [dashboards EXCEPT ![d].metric = metric, ![d].data = -1]
        BY <2>2 DEF UpdateDashboard
      <3> DEFINE none == -1
                 new == [dashboards[d] EXCEPT !.metric = metric, !.data = none]
      <3>2. dashboards' = [dashboards EXCEPT ![d] = new] /\ none = -1
        BY <1>2, <3>1
      <3>3. none \in -1 .. MaxEvents
        BY AnalyticsTables
      <3> HIDE DEF none
      <3>4. new \in Dashboard /\ new.data = none /\ new.tenant = t /\ new.metric = metric
        BY <1>2, <3>3 DEF Dashboard
      <3> HIDE DEF new
      <3>5. new.data <= WidgetData(new.tenant, new.metric)
        BY <1>4, <3>2, <3>4, AnalyticsTables
      <3> QED
        BY <3>2, <3>4, <3>5
    <2>3. CASE DeleteDashboard(t, d)
      <3> DEFINE new == [dashboards[d] EXCEPT !.deleted = TRUE]
      <3>1. dashboards' = [dashboards EXCEPT ![d] = new]
        BY <1>2, <2>3 DEF DeleteDashboard, SoftDeleted
      <3>2. /\ new \in Dashboard /\ new.data = dashboards[d].data
            /\ new.tenant = dashboards[d].tenant /\ new.metric = dashboards[d].metric
        BY <1>2 DEF Dashboard
      <3> HIDE DEF new
      <3> QED
        BY <1>2, <1>3, <3>1, <3>2
    <2> QED
      BY <2>1, <2>2, <2>3
  <1>6. Rewritten(dashboards, dashboards', d, new, Dashboard)
    BY <1>2, <1>5, AnalyticsTables, RowReplaced
  <1>7. /\ dashboards' \in Seq(Dashboard) /\ Len(dashboards') = Len(dashboards)
        /\ \A e \in DOMAIN dashboards' :
                dashboards'[e].data <= WidgetData(dashboards'[e].tenant, dashboards'[e].metric)
    BY <1>3, <1>5, <1>6 DEF Rewritten
  <1> QED
    BY <1>1, <1>7, AnalyticsTables, DashboardsKeep

LEMMA CreateDashboardKeeps ==
    ASSUME AnalyticsIInv, NEW t \in Tenants, CreateDashboard(t)
    PROVE  AnalyticsIInv'
  <1>1. PICK metric \in EventNames :
            /\ Len(dashboards) < MaxDashboards
            /\ dashboards' = Append(dashboards,
                    [tenant |-> t, deleted |-> FALSE, metric |-> metric, data |-> -1])
            /\ UNCHANGED <<events, snapshots, reports>>
    BY DEF CreateDashboard, Inserted
  <1> DEFINE row == [tenant |-> t, deleted |-> FALSE, metric |-> metric, data |-> -1]
  <1>2. row \in Dashboard /\ row.data = -1 /\ row.tenant = t /\ row.metric = metric
    BY AnalyticsTables DEF Dashboard
  <1>3. dashboards' = Append(dashboards, row)
    BY <1>1
  <1> HIDE DEF row
  <1>4. Grown(dashboards, dashboards', row, Dashboard)
    BY <1>2, <1>3, AnalyticsTables, RowInserted
  <1>5. row.data <= WidgetData(row.tenant, row.metric)
    <2>1. WidgetData(row.tenant, row.metric) \in 0 .. MaxEvents
      BY MetricBounded DEF WidgetData
    <2> QED
      BY <1>2, <2>1, AnalyticsTables
  <1>6. \A e \in DOMAIN dashboards :
            dashboards[e].data <= WidgetData(dashboards[e].tenant, dashboards[e].metric)
    BY DEF AnalyticsIInv, DataLags
  <1>7. /\ dashboards' \in Seq(Dashboard) /\ Len(dashboards') = Len(dashboards) + 1
        /\ \A e \in DOMAIN dashboards' :
                dashboards'[e].data <= WidgetData(dashboards'[e].tenant, dashboards'[e].metric)
    BY <1>4, <1>5, <1>6 DEF Grown
  <1>8. Len(dashboards') <= MaxDashboards
    BY <1>1, <1>7, AnalyticsTables
  <1> QED
    BY <1>1, <1>7, <1>8, DashboardsKeep

LEMMA ReportsKeep ==
    ASSUME AnalyticsIInv, NEW t \in Tenants, NEW r,
           CreateReport(t) \/ DeleteReport(t, r) \/ GenerateReport(t, r) \/ ScheduleReport(t, r)
    PROVE  AnalyticsIInv'
  <1>1. UNCHANGED <<events, snapshots, dashboards>>
    BY DEF CreateReport, DeleteReport, GenerateReport, ScheduleReport
  <1>2. reports' \in Seq(ScheduledReport) /\ Len(reports') <= MaxReports
    <2>1. CASE CreateReport(t)
      <3> DEFINE row == [tenant |-> t, deleted |-> FALSE, scheduled |-> FALSE, generated |-> FALSE]
      <3>1. row \in ScheduledReport /\ reports' = Append(reports, row) /\ Len(reports) < MaxReports
        BY <2>1 DEF CreateReport, Inserted, ScheduledReport
      <3> HIDE DEF row
      <3>2. Grown(reports, reports', row, ScheduledReport)
        BY <3>1, AnalyticsTables, RowInserted
      <3> QED
        BY <3>1, <3>2, AnalyticsTables DEF Grown
    <2>2. CASE DeleteReport(t, r) \/ GenerateReport(t, r) \/ ScheduleReport(t, r)
      <3>1. r \in DOMAIN reports /\ reports[r] \in ScheduledReport
        BY <2>2, AnalyticsTables DEF DeleteReport, GenerateReport, ScheduleReport, Gets
      <3>2. PICK new : /\ reports' = [reports EXCEPT ![r] = new]
                       /\ \/ new = [reports[r] EXCEPT !.deleted = TRUE]
                          \/ new = [reports[r] EXCEPT !.generated = TRUE]
                          \/ new = [reports[r] EXCEPT !.scheduled = TRUE]
        BY <2>2 DEF DeleteReport, GenerateReport, ScheduleReport, SoftDeleted
      <3>3. new \in ScheduledReport
        BY <3>1, <3>2 DEF ScheduledReport
      <3>4. Rewritten(reports, reports', r, new, ScheduledReport)
        BY <3>1, <3>2, <3>3, AnalyticsTables, RowReplaced
      <3> QED
        BY <3>4, AnalyticsTables DEF Rewritten
    <2> QED
      BY <2>1, <2>2
  <1>3. DataLags'
    <2> SUFFICES ASSUME NEW d \in DOMAIN dashboards
                 PROVE  dashboards[d].data
                            <= WidgetData(dashboards[d].tenant, dashboards[d].metric)'
      BY <1>1 DEF DataLags
    <2> QED
      BY <1>1 DEF AnalyticsIInv, DataLags, WidgetData, QueryMetrics, OfTenant
  <1> QED
    BY <1>1, <1>2, <1>3 DEF AnalyticsIInv, AnalyticsTypeOK, SnapshotsFollow

LEMMA TrackStepsKeep ==
    ASSUME AnalyticsIInv, NEW t \in Tenants, TrackEvent(t) \/ TrackEventsBatch(t)
    PROVE  AnalyticsIInv'
  <1>1. PICK new \in Seq(AnalyticsEvent) :
            /\ Len(events) + Len(new) <= MaxEvents
            /\ events' = events \o new /\ Aggregated(new) /\ UNCHANGED <<dashboards, reports>>
    <2>1. CASE TrackEvent(t)
      <3>1. PICK name \in EventNames, time \in Time, user \in Visitors \cup {Anonymous} :
                /\ Len(events) < MaxEvents /\ UNCHANGED <<dashboards, reports>>
                /\ events' = events \o <<EventRow(t, name, time, user)>>
                /\ Aggregated(<<EventRow(t, name, time, user)>>)
        BY <2>1 DEF TrackEvent
      <3> DEFINE row == EventRow(t, name, time, user)
      <3>2. row \in AnalyticsEvent
        BY DEF EventRow, AnalyticsEvent
      <3> HIDE DEF row
      <3>3. <<row>> \in Seq(AnalyticsEvent) /\ Len(<<row>>) = 1
        BY <3>2
      <3>4. Len(events) + Len(<<row>>) <= MaxEvents
        BY <3>1, <3>3, AnalyticsTables
      <3> QED
        BY <3>1, <3>3, <3>4 DEF row
    <2>2. CASE TrackEventsBatch(t)
      <3>1. PICK names \in [1 .. 2 -> EventNames], time \in Time :
                /\ Len(events) + 2 <= MaxEvents /\ UNCHANGED <<dashboards, reports>>
                /\ events' = events \o [i \in 1 .. 2 |-> EventRow(t, names[i], time, Anonymous)]
                /\ Aggregated([i \in 1 .. 2 |-> EventRow(t, names[i], time, Anonymous)])
        BY <2>2 DEF TrackEventsBatch
      <3> DEFINE batch == [i \in 1 .. 2 |-> EventRow(t, names[i], time, Anonymous)]
      <3>2. \A i \in 1 .. 2 : EventRow(t, names[i], time, Anonymous) \in AnalyticsEvent
        BY DEF EventRow, AnalyticsEvent
      <3>3. batch \in [1 .. 2 -> AnalyticsEvent]
        BY <3>2
      <3>4. batch \in Seq(AnalyticsEvent)
        BY <3>3, SeqDef
      <3>5. Len(batch) = 2
        <4>1. DOMAIN batch = 1 .. 2 /\ DOMAIN batch = 1 .. Len(batch) /\ Len(batch) \in Nat
          BY <3>3, <3>4
        <4> HIDE DEF batch
        <4> QED
          BY <4>1
      <3> QED
        BY <3>1, <3>4, <3>5
    <2> QED
      BY <2>1, <2>2
  <1> QED
    BY <1>1, TrackedKeeps

LEMMA AnalyticsNextIInv == AnalyticsIInv /\ [AnalyticsNext]_analyticsVars => AnalyticsIInv'
  <1> SUFFICES ASSUME AnalyticsIInv, [AnalyticsNext]_analyticsVars PROVE AnalyticsIInv'
    OBVIOUS
  <1>1. CASE UNCHANGED analyticsVars
    BY <1>1 DEF analyticsVars, AnalyticsIInv, AnalyticsTypeOK, SnapshotsFollow, DataLags,
       WidgetData, QueryMetrics, OfTenant
  <1>2. CASE AnalyticsNext
    BY <1>2, TrackStepsKeep, CreateDashboardKeeps, DashboardStepsKeep, ReportsKeep
       DEF AnalyticsNext, EventsNext, ReportsNext
  <1> QED
    BY <1>1, <1>2

LEMMA AnalyticsSpecIInv == AnalyticsSpec => []AnalyticsIInv
  BY AnalyticsInitIInv, AnalyticsNextIInv, PTL DEF AnalyticsSpec

\* Events, snapshots, dashboards and reports are what they are declared to be.
THEOREM AnalyticsTyped == AnalyticsSpec => []AnalyticsTypeOK
  <1>1. AnalyticsIInv => AnalyticsTypeOK
    BY DEF AnalyticsIInv
  <1> QED
    BY <1>1, AnalyticsSpecIInv, PTL

LEMMA MetricsAre == AnalyticsIInv => MetricsAreEvents
  <1> SUFFICES ASSUME AnalyticsIInv, NEW t \in Tenants, NEW name \in EventNames,
                      NEW from \in Time, NEW to \in Time
               PROVE  QueryMetrics(t, name, from, to) =
                        EventsSummary(t, name, IF from % 2 = 0 THEN from ELSE from + 1, Hour(to) + 1)
    BY DEF MetricsAreEvents
  <1> DEFINE first == IF from % 2 = 0 THEN from ELSE from + 1
             last == Hour(to) + 1
  <1>1. from \in Nat /\ to \in Nat
    BY AnalyticsTables DEF Time
  <1>2. ASSUME NEW i \in DOMAIN events
        PROVE  /\ snapshots[i].tenant = events[i].tenant /\ snapshots[i].name = events[i].name
               /\ snapshots[i].time \in from .. to <=> events[i].time \in first .. last
    <2>1. events[i] \in AnalyticsEvent /\ MaxTime \in Nat
      BY AnalyticsTables
    <2>2. PICK time \in Nat : time = events[i].time
      BY <2>1 DEF AnalyticsEvent, Time
    <2>3. snapshots[i] = SnapshotOf(events[i])
      BY DEF AnalyticsIInv, SnapshotsFollow
    <2>4. /\ snapshots[i].tenant = events[i].tenant /\ snapshots[i].name = events[i].name
          /\ snapshots[i].time = Hour(time)
      BY <2>2, <2>3 DEF SnapshotOf
    <2>5. Hour(time) \in from .. to <=> time \in first .. last
      BY <1>1, HoursBetween
    <2> HIDE DEF first, last
    <2> QED
      BY <2>2, <2>4, <2>5
  <1> HIDE DEF first, last
  <1>3. DOMAIN events = DOMAIN snapshots
    BY AnalyticsTables
  <1>4. {s \in OfTenant(snapshots, t) : snapshots[s].name = name /\ snapshots[s].time \in from .. to}
            = {e \in OfTenant(events, t) : events[e].name = name /\ events[e].time \in first .. last}
    BY <1>2, <1>3 DEF OfTenant
  <1>5. QueryMetrics(t, name, from, to) = EventsSummary(t, name, first, last)
    BY <1>4 DEF QueryMetrics, EventsSummary
  <1> QED
    BY <1>5 DEF first, last

\* No more users are active than there are events: each has one at least.
LEMMA UsersHaveEvents ==
    ASSUME AnalyticsIInv, NEW t \in Tenants
    PROVE  Cardinality(ActiveUsers(t)) <= Cardinality(OfTenant(events, t))
  <1> DEFINE EventOf(u) == CHOOSE e \in OfTenant(events, t) : events[e].user = u
             f == [u \in ActiveUsers(t) |-> EventOf(u)]
  <1>1. ASSUME NEW u \in ActiveUsers(t)
        PROVE  EventOf(u) \in OfTenant(events, t) /\ events[EventOf(u)].user = u
    BY DEF ActiveUsers
  <1>2. f \in Injection(ActiveUsers(t), OfTenant(events, t))
    <2>1. \A u \in ActiveUsers(t) : f[u] \in OfTenant(events, t) /\ events[f[u]].user = u
      BY <1>1
    <2>2. f \in [ActiveUsers(t) -> OfTenant(events, t)]
      BY <1>1
    <2> HIDE DEF f
    <2>3. \A u, v \in ActiveUsers(t) : f[u] = f[v] => u = v
      BY <2>1
    <2> QED
      BY <2>2, <2>3 DEF Injection, IsInjective
  <1>3. IsFiniteSet(OfTenant(events, t))
    <2>1. OfTenant(events, t) \subseteq DOMAIN events
      BY DEF OfTenant
    <2> QED
      BY <2>1, AnalyticsTables, FS_Subset
  <1> HIDE DEF f
  <1> QED
    BY <1>2, <1>3, FS_Injection

LEMMA AnalyticsViewsIs == AnalyticsIInv => AnalyticsViewsAgree
  <1> SUFFICES ASSUME AnalyticsIInv, NEW t \in Tenants
               PROVE  /\ {r \in DOMAIN reports : GetReport(t, r)}
                            = UNION {ListReports(t, p, 1) : p \in 1 .. MaxReports}
                      /\ \A d \in UNION {ListDashboards(t, p, 1) : p \in 1 .. MaxDashboards} :
                            dashboards[d].data <= ComputedDashboard(t, d)[d].data
                      /\ Cardinality(ActiveUsers(t)) <= Cardinality(OfTenant(events, t))
    BY MetricsAre DEF AnalyticsViewsAgree, Walk
  <1>1. UNION {ListReports(t, p, 1) : p \in 1 .. MaxReports} = Listed(reports, t)
    <2> DEFINE ids == Listed(reports, t)
    <2>1. ids \subseteq 1 .. Len(reports) /\ Len(reports) \in 0 .. MaxReports /\ MaxReports \in Nat
      BY AnalyticsTables DEF Listed, OfTenant
    <2> HIDE DEF ids
    <2>2. UNION {Page(ids, p, 1) : p \in 1 .. MaxReports} = ids
      BY <2>1, WalkShowsAll
    <2> QED
      BY <2>2 DEF ListReports, ids
  <1>2. {r \in DOMAIN reports : GetReport(t, r)} = Listed(reports, t)
    BY DEF GetReport, Gets, Listed, OfTenant, NotDeleted
  <1>3. ASSUME NEW d \in UNION {ListDashboards(t, p, 1) : p \in 1 .. MaxDashboards}
        PROVE  dashboards[d].data <= ComputedDashboard(t, d)[d].data
    <2>1. d \in DOMAIN dashboards /\ dashboards[d].tenant = t
      BY DEF ListDashboards, Page, Listed, OfTenant
    <2>2. dashboards[d] \in Dashboard
      BY <2>1, AnalyticsTables
    <2>3. ComputedDashboard(t, d)[d].data = WidgetData(t, dashboards[d].metric)
      BY <2>1, <2>2 DEF ComputedDashboard, Dashboard
    <2> QED
      BY <2>1, <2>3 DEF AnalyticsIInv, DataLags
  <1> QED
    BY <1>1, <1>2, <1>3, UsersHaveEvents

\* For any events and any window: the metric is the number of events from the first
\* full hour of the window to the end of its last, although it is counted from
\* other rows; and what a list of dashboards shows is never ahead of the metric.
THEOREM AnalyticsViews == AnalyticsSpec => []AnalyticsViewsAgree
  BY AnalyticsViewsIs, AnalyticsSpecIInv, PTL
-----------------------------------------------------------------------------
(***************************************************************************)
(* Feature flags.  The dictionary of overrides is what was last asked for, *)
(* since the process began.                                                *)
(***************************************************************************)
FlagsIInv == FlagsTypeOK /\ overrides = asked

LEMMA FlagsInitIInv == FlagsInit => FlagsIInv
  BY DEF FlagsInit, FlagsIInv, FlagsTypeOK

LEMMA FlagsNextIInv == FlagsIInv /\ [FlagsNext]_flagVars => FlagsIInv'
  <1> SUFFICES ASSUME FlagsIInv, [FlagsNext]_flagVars PROVE FlagsIInv'
    OBVIOUS
  <1>1. ASSUME NEW t \in FlagTenants, NEW f \in Switched, NEW value \in {"on", "off", "none"},
               SetFeatureFlagOverride(t, f, value)
        PROVE  FlagsIInv'
    <2>1. /\ overrides' = [overrides EXCEPT ![t][f] = value]
          /\ asked' = [asked EXCEPT ![t][f] = value]
      BY <1>1 DEF SetFeatureFlagOverride, SetOverride, ClearOverride
    <2> QED
      BY <2>1 DEF FlagsIInv, FlagsTypeOK
  <1>2. CASE FlagsRestart
    BY <1>2 DEF FlagsRestart, FlagsIInv, FlagsTypeOK
  <1>3. CASE UNCHANGED flagVars
    BY <1>3 DEF flagVars, FlagsIInv, FlagsTypeOK
  <1> QED
    BY <1>1, <1>2, <1>3 DEF FlagsNext

LEMMA FlagsSpecIInv == FlagsSpec => []FlagsIInv
  BY FlagsInitIInv, FlagsNextIInv, PTL DEF FlagsSpec

\* Overrides are of flags that exist, each on or off or absent.
THEOREM FlagsTyped == FlagsSpec => []FlagsTypeOK
  <1>1. FlagsIInv => FlagsTypeOK
    BY DEF FlagsIInv
  <1> QED
    BY <1>1, FlagsSpecIInv, PTL

\* A higher tier has what a lower one has.
LEMMA TiersNest ==
    ASSUME NEW f \in Features, NEW low \in Tiers, NEW high \in Tiers,
           Rank[low] <= Rank[high], low \in DefaultTiers(f)
    PROVE  high \in DefaultTiers(f)
  <1>1. \/ f \in ForAll /\ DefaultTiers(f) = Tiers
        \/ f \in FromStarter /\ DefaultTiers(f) = {"starter", "professional", "enterprise"}
        \/ f \in FromProfessional /\ DefaultTiers(f) = {"professional", "enterprise"}
        \/ f \in EnterpriseOnly /\ DefaultTiers(f) = {"enterprise"}
    BY DEF DefaultTiers, Features, ForAll, FromStarter, FromProfessional, EnterpriseOnly
  <1>2. /\ Rank["free"] = 0 /\ Rank["starter"] = 1
        /\ Rank["professional"] = 2 /\ Rank["enterprise"] = 3
    BY DEF Rank
  <1> QED
    BY <1>1, <1>2 DEF Tiers

LEMMA FlagViewsIs == FlagsIInv => FlagViewsAgree
  <1> SUFFICES ASSUME FlagsIInv, NEW t \in FlagTenants, NEW f \in Switched
               PROVE  /\ \A tier \in Tiers : asked[t][f] # "none"
                            => /\ IsEnabled(t, f, tier) = (asked[t][f] = "on")
                               /\ Answered(t, f) = IsEnabled(t, f, tier)
                      /\ asked[t][f] = "none" => \A low, high \in Tiers :
                            Rank[low] <= Rank[high] /\ IsEnabled(t, f, low)
                            => IsEnabled(t, f, high)
                      /\ <<t, f>> \in ListFeatureFlags <=> asked[t][f] # "none"
    BY DEF FlagViewsAgree
  <1>1. overrides[t][f] = asked[t][f] /\ f \in Features
    BY FlagsAssumption DEF FlagsIInv
  <1>2. ASSUME NEW tier \in Tiers, asked[t][f] # "none"
        PROVE  /\ IsEnabled(t, f, tier) = (asked[t][f] = "on")
               /\ Answered(t, f) = IsEnabled(t, f, tier)
    BY <1>1, <1>2 DEF IsEnabled, Answered
  <1>3. ASSUME NEW low \in Tiers, NEW high \in Tiers, asked[t][f] = "none",
               Rank[low] <= Rank[high], IsEnabled(t, f, low)
        PROVE  IsEnabled(t, f, high)
    BY <1>1, <1>3, TiersNest DEF IsEnabled
  <1>4. <<t, f>> \in ListFeatureFlags <=> asked[t][f] # "none"
    BY <1>1 DEF ListFeatureFlags
  <1> QED
    BY <1>2, <1>3, <1>4

\* For any tenants: a flag is what was last asked for, or the tier's, and a higher
\* tier has what a lower one has.
THEOREM FlagViews == FlagsSpec => []FlagViewsAgree
  BY FlagViewsIs, FlagsSpecIInv, PTL
-----------------------------------------------------------------------------
(***************************************************************************)
(* The inbox.                                                              *)
(***************************************************************************)
InboxIInv == InboxTypeOK /\ Len(inbox) <= MaxNotifications

LEMMA InboxInitIInv == InboxInit => InboxIInv
  BY InboxAssumption DEF InboxInit, InboxIInv, InboxTypeOK

LEMMA InboxNextIInv == InboxIInv /\ [InboxNext]_inboxVars => InboxIInv'
  <1> SUFFICES ASSUME InboxIInv, [InboxNext]_inboxVars PROVE InboxIInv'
    OBVIOUS
  <1>1. inbox \in Seq(Notification) /\ Len(inbox) <= MaxNotifications /\ MaxNotifications \in Nat
    BY InboxAssumption DEF InboxIInv, InboxTypeOK
  <1>2. CASE UNCHANGED inboxVars
    BY <1>2 DEF inboxVars, InboxIInv, InboxTypeOK
  <1>3. ASSUME NEW u \in Readers, NEW w \in Everywhere, CreateNotification(u, w) PROVE InboxIInv'
    <2> DEFINE row == [user |-> u, workspace |-> w, read |-> FALSE, deleted |-> FALSE]
    <2>1. Len(inbox) < MaxNotifications /\ inbox' = Append(inbox, row) /\ row \in Notification
      BY <1>3 DEF CreateNotification, Inserted, Notification
    <2> HIDE DEF row
    <2>2. Grown(inbox, inbox', row, Notification)
      BY <1>1, <2>1, RowInserted
    <2> QED
      BY <1>1, <2>1, <2>2 DEF Grown, InboxIInv, InboxTypeOK
  <1>4. ASSUME NEW n \in DOMAIN inbox, MarkRead(n) \/ DeleteRow(n) PROVE InboxIInv'
    <2>1. PICK new : /\ inbox' = [inbox EXCEPT ![n] = new]
                     /\ \/ new = [inbox[n] EXCEPT !.read = TRUE]
                        \/ new = [inbox[n] EXCEPT !.deleted = TRUE]
      BY <1>4 DEF MarkRead, DeleteRow, SoftDeleted
    <2>2. inbox[n] \in Notification
      BY <1>1
    <2>3. new \in Notification
      BY <2>1, <2>2 DEF Notification
    <2>4. Rewritten(inbox, inbox', n, new, Notification)
      BY <1>1, <2>1, <2>3, RowReplaced
    <2> QED
      BY <1>1, <2>4 DEF Rewritten, InboxIInv, InboxTypeOK
  <1>5. ASSUME NEW u, NEW scope, MarkAllRead(u, scope) PROVE InboxIInv'
    <2> DEFINE Seen(n) == [inbox[n] EXCEPT
                            !.read = @ \/ (inbox[n].user = u /\ inbox[n].workspace \in scope)]
    <2>1. \A n \in DOMAIN inbox : Seen(n) \in Notification
      <3> SUFFICES ASSUME NEW n \in DOMAIN inbox PROVE Seen(n) \in Notification
        OBVIOUS
      <3>1. inbox[n] \in Notification
        BY <1>1
      <3> DEFINE seen == inbox[n].read \/ (inbox[n].user = u /\ inbox[n].workspace \in scope)
      <3>2. seen \in BOOLEAN /\ Seen(n) = [inbox[n] EXCEPT !.read = seen]
        OBVIOUS
      <3> HIDE DEF seen, Seen
      <3> QED
        BY <3>1, <3>2 DEF Notification
    <2>2. inbox' = [n \in DOMAIN inbox |-> Seen(n)]
      BY <1>5 DEF MarkAllRead
    <2> HIDE DEF Seen
    <2>3. inbox' = [n \in DOMAIN inbox |-> inbox'[n]] /\ \A n \in DOMAIN inbox : inbox'[n] \in Notification
      BY <2>1, <2>2
    <2>4. inbox' \in Seq(Notification) /\ Len(inbox') = Len(inbox)
      BY <1>1, <2>3, RowsChanged
    <2> QED
      BY <1>1, <2>4 DEF InboxIInv, InboxTypeOK
  <1>6. CASE InboxNext
    BY <1>3, <1>4, <1>5, <1>6 DEF InboxNext, MarkAllNotificationsRead, MarkNotificationRead,
       DeleteNotification, MarkKeptRead, DismissNotification, KeptNotification, FindNotification
  <1> QED
    BY <1>2, <1>6

LEMMA InboxSpecIInv == InboxSpec => []InboxIInv
  BY InboxInitIInv, InboxNextIInv, PTL DEF InboxSpec

\* The inbox is a table of notifications.
THEOREM InboxTyped == InboxSpec => []InboxTypeOK
  <1>1. InboxIInv => InboxTypeOK
    BY DEF InboxIInv
  <1> QED
    BY <1>1, InboxSpecIInv, PTL

\* Who walks the pages sees the notifications of the query.
LEMMA PagesOfInbox ==
    ASSUME InboxIInv, NEW u \in Readers, NEW unreadOnly \in BOOLEAN
    PROVE  UNION {ListNotifications(u, unreadOnly, p, 1) : p \in 1 .. MaxNotifications}
            = GetNotifications(u, Everywhere, unreadOnly)
  <1> DEFINE ids == GetNotifications(u, Everywhere, unreadOnly)
  <1>1. /\ ids \subseteq 1 .. Len(inbox) /\ Len(inbox) \in 0 .. MaxNotifications
        /\ MaxNotifications \in Nat
    BY InboxAssumption DEF GetNotifications, InboxIInv, InboxTypeOK
  <1> HIDE DEF ids
  <1>2. UNION {Page(ids, p, 1) : p \in 1 .. MaxNotifications} = ids
    BY <1>1, WalkShowsAll
  <1> QED
    BY <1>2 DEF ListNotifications, ids

LEMMA InboxViewsIs == InboxIInv => InboxViewsAgree
  <1> SUFFICES ASSUME InboxIInv, NEW u \in Readers
               PROVE  LET all == UNION {ListNotifications(u, FALSE, p, 1) : p \in 1 .. MaxNotifications}
                          unread == UNION {ListNotifications(u, TRUE, p, 1) : p \in 1 .. MaxNotifications}
                      IN  /\ {n \in 1 .. MaxNotifications : GetNotification(u, n)} = all
                          /\ GetUnreadCount(u) = Cardinality(unread)
                          /\ unread \ UNION {Unread(u, {w}) : w \in Rooms} = Unread(u, {NoRoom})
                          /\ KeptNotifications(u) = {n \in all : KeptNotification(u, n)}
                          /\ KeptUnread(u) = Cardinality(unread \cap KeptNotifications(u))
    BY DEF InboxViewsAgree, Walk
  <1> DEFINE all == GetNotifications(u, Everywhere, FALSE)
             unread == GetNotifications(u, Everywhere, TRUE)
  <1>1. /\ UNION {ListNotifications(u, FALSE, p, 1) : p \in 1 .. MaxNotifications} = all
        /\ UNION {ListNotifications(u, TRUE, p, 1) : p \in 1 .. MaxNotifications} = unread
    BY PagesOfInbox
  <1>2. DOMAIN inbox \subseteq 1 .. MaxNotifications
    BY InboxAssumption DEF InboxIInv, InboxTypeOK
  <1>3. \A n \in DOMAIN inbox : inbox[n].workspace \in Everywhere
    <2> SUFFICES ASSUME NEW n \in DOMAIN inbox PROVE inbox[n].workspace \in Everywhere
      OBVIOUS
    <2>1. inbox[n] \in Notification
      BY DEF InboxIInv, InboxTypeOK
    <2> QED
      BY <2>1 DEF Notification
  <1>4. {n \in 1 .. MaxNotifications : GetNotification(u, n)} = all
    BY <1>2, <1>3 DEF GetNotification, FindNotification, GetNotifications
  <1>5. unread = Unread(u, Everywhere)
    BY DEF Unread, GetNotifications
  <1>6. unread \ UNION {Unread(u, {w}) : w \in Rooms} = Unread(u, {NoRoom})
    BY InboxAssumption DEF Unread, GetNotifications, Everywhere
  <1>7. KeptNotifications(u) = {n \in all : KeptNotification(u, n)}
    BY <1>3 DEF KeptNotifications, KeptNotification, FindNotification, NotDeleted, GetNotifications
  <1>8. {n \in KeptNotifications(u) : ~inbox[n].read} = unread \cap KeptNotifications(u)
    BY <1>3 DEF KeptNotifications, NotDeleted, GetNotifications
  <1>9. /\ GetUnreadCount(u) = Cardinality(unread)
        /\ KeptUnread(u) = Cardinality(unread \cap KeptNotifications(u))
    BY <1>5, <1>8 DEF GetUnreadCount, UnreadCount, KeptUnread
  <1> HIDE DEF all, unread
  <1> QED
    BY <1>1, <1>4, <1>6, <1>7, <1>9

\* Two services count and list one table, for any number of notifications: the
\* badge is the number of unread rows on the pages, those of no workspace included.
THEOREM InboxViews == InboxSpec => []InboxViewsAgree
  BY InboxViewsIs, InboxSpecIInv, PTL
-----------------------------------------------------------------------------
(***************************************************************************)
(* The score of a lead.                                                    *)
(***************************************************************************)
LEMMA LeadInitType == LeadInit => LeadTypeOK
  BY DEF LeadInit, LeadTypeOK, Lead, Titles, Tags, Sources, LeadStages

LEMMA LeadNextType == LeadTypeOK /\ [LeadNext]_leadVars => LeadTypeOK'
  <1> SUFFICES ASSUME LeadTypeOK, LeadNext PROVE LeadTypeOK'
    BY DEF leadVars, LeadTypeOK
  <1> USE DEF LeadTypeOK, Lead
  <1>1. CASE Set("title", Titles)
    BY <1>1 DEF Set
  <1>2. CASE Set("tags", SUBSET Tags)
    BY <1>2 DEF Set
  <1>3. CASE Set("source", Sources)
    BY <1>3 DEF Set
  <1>4. CASE Set("stage", LeadStages)
    BY <1>4 DEF Set
  <1>5. CASE Set("company", BOOLEAN)
    BY <1>5 DEF Set
  <1>6. CASE Set("email", BOOLEAN)
    BY <1>6 DEF Set
  <1>7. CASE Set("phone", BOOLEAN)
    BY <1>7 DEF Set
  <1> QED
    BY <1>1, <1>2, <1>3, <1>4, <1>5, <1>6, <1>7 DEF LeadNext

\* A lead stays one, whatever field is patched.
THEOREM LeadTyped == LeadSpec => []LeadTypeOK
  BY LeadInitType, LeadNextType, PTL DEF LeadSpec

\* A title that is not misread is worth what its seniority is: that "director"
\* contains "cto" raises it above its equals and no higher.
LEMMA TitlesRank ==
    ASSUME NEW x \in Titles, NEW y \in Titles, x = y \/ Seniority(x) < Seniority(y)
    PROVE  /\ TitleScore(x) \in 0 .. 25 /\ TitleScore(y) \in 0 .. 25
           /\ x = y \/ x \notin Misread => TitleScore(x) <= TitleScore(y)
           /\ TitleScore(x) <= TitleScore(y) + 15 \/ x = y
  <1>1. /\ TitleScore("ceo") = 25 /\ Seniority("ceo") = 4
        /\ TitleScore("director") = 25 /\ Seniority("director") = 3
        /\ TitleScore("vice president") = 25 /\ Seniority("vice president") = 3
    BY DEF TitleScore, Seniority, Keywords, Executive
  <1>2. /\ TitleScore("vp") = 20 /\ Seniority("vp") = 3
        /\ TitleScore("head of") = 20 /\ Seniority("head of") = 3
    BY DEF TitleScore, Seniority, Keywords, Executive
  <1>3. /\ TitleScore("manager") = 15 /\ Seniority("manager") = 2
        /\ TitleScore("senior analyst") = 15 /\ Seniority("senior analyst") = 2
    BY DEF TitleScore, Seniority, Keywords, Executive
  <1>4. /\ TitleScore("engineer") = 10 /\ Seniority("engineer") = 1
        /\ TitleScore("clerk") = 0 /\ Seniority("clerk") = 0
        /\ TitleScore("none") = 0 /\ Seniority("none") = 0
    BY DEF TitleScore, Seniority, Keywords, Executive
  <1>6. \A z \in Misread : TitleScore(z) \in {15, 25} /\ Seniority(z) = 0
    BY DEF TitleScore, Seniority, Keywords, Executive, Misread
  <1>5. \A z \in Titles :
            \/ Seniority(z) = 4 /\ TitleScore(z) = 25
            \/ Seniority(z) = 3 /\ TitleScore(z) \in {20, 25}
            \/ Seniority(z) = 2 /\ TitleScore(z) = 15
            \/ Seniority(z) = 1 /\ TitleScore(z) = 10
            \/ Seniority(z) = 0 /\ TitleScore(z) = 0
            \/ Seniority(z) = 0 /\ TitleScore(z) \in {15, 25} /\ z \in Misread
    BY <1>1, <1>2, <1>3, <1>4, <1>6 DEF Titles, Misread
  <1> QED
    BY <1>5

LEMMA StagesRank ==
    ASSUME NEW x \in LeadStages, NEW y \in LeadStages, StageRank(x) <= StageRank(y)
    PROVE  StageScore(x) \in -20 .. 40 /\ StageScore(y) \in -20 .. 40 /\ StageScore(x) <= StageScore(y)
  <1>1. /\ StageScore("inactive") = -20 /\ StageRank("inactive") = 0
        /\ StageScore("churned") = -10 /\ StageRank("churned") = 1
        /\ StageScore("lead") = 0 /\ StageRank("lead") = 2
    BY DEF StageScore, StageRank
  <1>2. /\ StageScore("qualified") = 20 /\ StageRank("qualified") = 3
        /\ StageScore("opportunity") = 30 /\ StageRank("opportunity") = 4
        /\ StageScore("customer") = 40 /\ StageRank("customer") = 5
    BY DEF StageScore, StageRank
  <1> QED
    BY <1>1, <1>2 DEF LeadStages

LEMMA TagsAddUp ==
    ASSUME NEW x, NEW y, x \subseteq y
    PROVE  TagScore(x) \in 0 .. 60 /\ TagScore(y) \in 0 .. 60 /\ TagScore(x) <= TagScore(y)
  <1>1. /\ "newsletter" \in x => "newsletter" \in y
        /\ "webinar" \in x => "webinar" \in y
        /\ "pricing" \in x => "pricing" \in y
    OBVIOUS
  <1> QED
    BY <1>1 DEF TagScore

LEMMA SourcesRank == \A source \in Sources : SourceScore(source) \in 0 .. 15
  BY DEF Sources, SourceScore

LEMMA ScoreGrows ==
    ASSUME NEW l \in Lead, NEW m \in Lead,
           l.company = m.company, l.source = m.source, l.email = m.email, l.phone = m.phone,
           StageRank(l.stage) <= StageRank(m.stage),
           l.title = m.title \/ Seniority(l.title) < Seniority(m.title),
           l.tags \subseteq m.tags
    PROVE  IF l.title = m.title \/ l.title \notin Misread
           THEN Score(l) <= Score(m) /\ Warmth(l) <= Warmth(m)
           ELSE Score(l) <= Score(m) + 15
  <1>1. /\ l.title \in Titles /\ m.title \in Titles /\ l.stage \in LeadStages
        /\ m.stage \in LeadStages /\ l.source \in Sources
    BY DEF Lead
  <1> DEFINE rest == IF l.company THEN 10 ELSE 0
  <1> DEFINE loss == IF l.title = m.title \/ l.title \notin Misread THEN 0 ELSE 15
  <1>2. RawScore(l) \in Int /\ RawScore(m) \in Int /\ RawScore(l) <= RawScore(m) + loss
    <2>1. /\ TitleScore(l.title) \in Int /\ TitleScore(m.title) \in Int
          /\ TitleScore(l.title) <= TitleScore(m.title) + loss
      BY <1>1, TitlesRank
    <2>2. /\ StageScore(l.stage) \in Int /\ StageScore(m.stage) \in Int
          /\ StageScore(l.stage) <= StageScore(m.stage)
      BY <1>1, StagesRank
    <2>3. /\ TagScore(l.tags) \in Int /\ TagScore(m.tags) \in Int
          /\ TagScore(l.tags) <= TagScore(m.tags)
      BY TagsAddUp
    <2>4. SourceScore(l.source) \in Int
      BY <1>1, SourcesRank
    <2>5. Penalty(l) = Penalty(m) /\ Penalty(l) \in Int
      BY DEF Penalty
    <2>6. /\ RawScore(l) = TitleScore(l.title) + rest + TagScore(l.tags)
                            + SourceScore(l.source) + StageScore(l.stage) - Penalty(l)
          /\ RawScore(m) = TitleScore(m.title) + rest + TagScore(m.tags)
                            + SourceScore(l.source) + StageScore(m.stage) - Penalty(l)
          /\ rest \in Int
      BY <2>5 DEF RawScore
    <2>7. loss \in Int
      OBVIOUS
    <2> HIDE DEF rest, loss
    <2> QED
      BY <2>1, <2>2, <2>3, <2>4, <2>5, <2>6, <2>7
  <1>3. Score(l) \in Int /\ Score(m) \in Int /\ Score(l) <= Score(m) + loss
    BY <1>2 DEF Score
  <1>4. \A k \in Lead : Warmth(k) = IF Score(k) >= 70 THEN 2 ELSE IF Score(k) >= 40 THEN 1 ELSE 0
    BY DEF Warmth, Tier
  <1> QED
    BY <1>3, <1>4

\* For all pairs of leads that a PATCH can join: a later stage, a further tag or a more
\* senior title never lowers the score nor cools the tier, and costs at most 15 points
\* where the title before was misread as a higher one.
THEOREM MoreOfALeadIsNotLess == LeadSpec => MoreIsNotLess
  <1>1. ASSUME LeadTypeOK, LeadTypeOK', [LeadNext]_leadVars
        PROVE  [ /\ \A f \in DOMAIN lead \ {"stage", "title", "tags"} : lead[f] = lead'[f]
                 /\ StageRank(lead.stage) <= StageRank(lead'.stage)
                 /\ lead.title = lead'.title \/ Seniority(lead.title) < Seniority(lead'.title)
                 /\ lead.tags \subseteq lead'.tags
                 => IF lead.title = lead'.title \/ lead.title \notin Misread
                    THEN Score(lead) <= Score(lead') /\ Warmth(lead) <= Warmth(lead')
                    ELSE Score(lead) <= Score(lead') + 15]_leadVars
    <2> SUFFICES ASSUME \A f \in DOMAIN lead \ {"stage", "title", "tags"} : lead[f] = lead'[f],
                        StageRank(lead.stage) <= StageRank(lead'.stage),
                        lead.title = lead'.title \/ Seniority(lead.title) < Seniority(lead'.title),
                        lead.tags \subseteq lead'.tags
                 PROVE  IF lead.title = lead'.title \/ lead.title \notin Misread
                        THEN Score(lead) <= Score(lead') /\ Warmth(lead) <= Warmth(lead')
                        ELSE Score(lead) <= Score(lead') + 15
      OBVIOUS
    <2>1. lead \in Lead /\ lead' \in Lead
      BY <1>1 DEF LeadTypeOK
    <2>2. DOMAIN lead = {"title", "company", "tags", "source", "stage", "email", "phone"}
      BY <2>1 DEF Lead
    <2>3. /\ lead.company = lead'.company /\ lead.source = lead'.source
          /\ lead.email = lead'.email /\ lead.phone = lead'.phone
      BY <2>2
    <2> QED
      BY <2>1, <2>3, ScoreGrows
  <1> QED
    BY <1>1, LeadTyped, PTL DEF LeadSpec, MoreIsNotLess
-----------------------------------------------------------------------------
(***************************************************************************)
(* Mail.  The rows of a campaign are fixed when it is sent: events change  *)
(* what has become of a mail and not whether it went out, and no mail is   *)
(* kept back again that was not.                                           *)
(***************************************************************************)
MailRows(k) == {i \in DOMAIN messages : messages[i].campaign = k}
SentRows(k) == {i \in MailRows(k) : messages[i].sent}

Belong == \A i \in DOMAIN messages :
    /\ messages[i].campaign <= Len(campaigns)
    /\ \A k \in DOMAIN campaigns : messages[i].campaign = k => messages[i].tenant = campaigns[k].tenant

Accounted(k) ==
    /\ Cardinality(MailRows(k)) + campaigns[k].blank + campaigns[k].missed = campaigns[k].total
    /\ IF campaigns[k].missed > 0 THEN campaigns[k].sent = 0 /\ campaigns[k].failed = 0
       ELSE /\ Cardinality(SentRows(k)) = campaigns[k].sent
            /\ campaigns[k].sent + campaigns[k].failed <= Cardinality(MailRows(k))
            /\ \A i \in MailRows(k) : messages[i].status = "queued" =>
                    campaigns[k].sent + campaigns[k].failed < Cardinality(MailRows(k))

MailIInv ==
    /\ MessagesTypeOK
    /\ Len(templates) <= MaxTemplates /\ Len(messages) <= MaxMessages
    /\ Len(campaigns) <= MaxCampaigns
    /\ Belong /\ \A k \in DOMAIN campaigns : Accounted(k)

LEMMA MailInitIInv == MessagesInit => MailIInv
  BY MessagesAssumption DEF MessagesInit, MailIInv, MessagesTypeOK, Belong

LEMMA MailTables ==
    ASSUME MailIInv
    PROVE  /\ templates \in Seq(Template) /\ messages \in Seq(Message) /\ campaigns \in Seq(Campaign)
           /\ Len(templates) \in 0 .. MaxTemplates /\ DOMAIN templates = 1 .. Len(templates)
           /\ Len(messages) \in 0 .. MaxMessages /\ DOMAIN messages = 1 .. Len(messages)
           /\ Len(campaigns) \in 0 .. MaxCampaigns /\ DOMAIN campaigns = 1 .. Len(campaigns)
           /\ MaxTemplates \in Nat /\ MaxMessages \in Nat /\ MaxCampaigns \in Nat
  BY MessagesAssumption DEF MailIInv, MessagesTypeOK

\* Only the templates change.
LEMMA TemplatesChanged ==
    ASSUME MailIInv, templates' \in Seq(Template), Len(templates') <= MaxTemplates,
           UNCHANGED <<messages, campaigns>>
    PROVE  MailIInv'
  BY DEF MailIInv, MessagesTypeOK, Belong, Accounted, MailRows, SentRows

LEMMA CreateTemplateKeeps ==
    ASSUME MailIInv, NEW t \in Tenants, CreateTemplate(t)
    PROVE  MailIInv'
  <1> DEFINE row == [tenant |-> t, deleted |-> FALSE]
  <1>1. /\ Len(templates) < MaxTemplates /\ templates' = Append(templates, row)
        /\ UNCHANGED <<messages, campaigns>>
    BY DEF CreateTemplate, NewTemplate, Inserted
  <1>2. row \in Template
    BY DEF Template
  <1> HIDE DEF row
  <1>3. templates' \in Seq(Template) /\ Len(templates') <= MaxTemplates
    BY <1>1, <1>2, MailTables
  <1> QED
    BY <1>1, <1>3, TemplatesChanged

LEMMA DeleteTemplateKeeps ==
    ASSUME MailIInv, NEW t \in Tenants, NEW i, DeleteTemplate(t, i)
    PROVE  MailIInv'
  <1> DEFINE new == [templates[i] EXCEPT !.deleted = TRUE]
  <1>1. /\ i \in DOMAIN templates /\ templates' = [templates EXCEPT ![i] = new]
        /\ UNCHANGED <<messages, campaigns>>
    BY DEF DeleteTemplate, FindTemplate, OfTenant, SoftDeleted
  <1>2. templates[i] \in Template
    BY <1>1, MailTables
  <1>3. new \in Template
    BY <1>2 DEF Template
  <1> HIDE DEF new
  <1>4. Rewritten(templates, templates', i, new, Template)
    BY <1>1, <1>3, MailTables, RowReplaced
  <1>5. templates' \in Seq(Template) /\ Len(templates') <= MaxTemplates
    BY <1>4 DEF Rewritten, MailIInv
  <1> QED
    BY <1>1, <1>5, TemplatesChanged

\* An event: a mail keeps its place, and whether it went out.
LEMMA MessageChanged ==
    ASSUME MailIInv, NEW i \in DOMAIN messages, NEW new \in Message,
           messages' = [messages EXCEPT ![i] = new],
           new.tenant = messages[i].tenant, new.campaign = messages[i].campaign,
           new.sent = messages[i].sent,
           new.status = "queued" => messages[i].status = "queued",
           UNCHANGED <<templates, campaigns>>
    PROVE  MailIInv'
  <1>1. Rewritten(messages, messages', i, new, Message)
    BY MailTables, RowReplaced
  <1>2. /\ messages' \in Seq(Message) /\ Len(messages') = Len(messages)
        /\ DOMAIN messages' = DOMAIN messages
        /\ messages'[i] = new /\ \A j \in DOMAIN messages \ {i} : messages'[j] = messages[j]
    BY <1>1 DEF Rewritten
  <1>3. \A j \in DOMAIN messages :
            /\ messages'[j].tenant = messages[j].tenant
            /\ messages'[j].campaign = messages[j].campaign
            /\ messages'[j].sent = messages[j].sent
            /\ messages'[j].status = "queued" => messages[j].status = "queued"
    BY <1>2
  <1>4. \A k : MailRows(k)' = MailRows(k) /\ SentRows(k)' = SentRows(k)
    BY <1>2, <1>3 DEF MailRows, SentRows
  <1>5. ASSUME NEW k \in DOMAIN campaigns PROVE Accounted(k)'
    <2>1. Accounted(k)
      BY DEF MailIInv
    <2>2. \A j \in MailRows(k) : messages'[j].status = "queued" => messages[j].status = "queued"
      BY <1>3 DEF MailRows
    <2> QED
      BY <1>4, <2>1, <2>2 DEF Accounted
  <1>6. Belong'
    BY <1>2, <1>3 DEF MailIInv, Belong
  <1>7. MessagesTypeOK' /\ Len(messages') <= MaxMessages
    BY <1>2 DEF MailIInv, MessagesTypeOK
  <1> QED
    BY <1>5, <1>6, <1>7 DEF MailIInv

LEMMA EventKeeps ==
    ASSUME MailIInv, NEW i \in DOMAIN messages, NEW new,
           \/ \E status \in {"bounced", "complained", "delivered"} :
                new = [messages[i] EXCEPT !.status = status]
           \/ new = Opened(messages[i])
           \/ new = Clicked(messages[i]),
           Changed(i, new)
    PROVE  MailIInv'
  <1>1. messages[i] \in Message
    BY MailTables
  <1>2. /\ new \in Message /\ new.tenant = messages[i].tenant
        /\ new.campaign = messages[i].campaign /\ new.sent = messages[i].sent
        /\ new.status = "queued" => messages[i].status = "queued"
    <2>1. ASSUME NEW status \in {"bounced", "complained", "delivered"},
                 new = [messages[i] EXCEPT !.status = status]
          PROVE  /\ new \in Message /\ new.tenant = messages[i].tenant
                 /\ new.campaign = messages[i].campaign /\ new.sent = messages[i].sent
                 /\ new.status = "queued" => messages[i].status = "queued"
      BY <1>1, <2>1 DEF Message, MessageStatuses
    <2>2. CASE new = Opened(messages[i])
      BY <1>1, <2>2 DEF Message, MessageStatuses, Opened
    <2>3. CASE new = Clicked(messages[i])
      BY <1>1, <2>3 DEF Message, MessageStatuses, Clicked
    <2> QED
      BY <2>1, <2>2, <2>3
  <1> QED
    BY <1>2, MessageChanged DEF Changed

LEMMA SentAndFailed ==
    ASSUME NEW all, IsFiniteSet(all), NEW S \in SUBSET all, NEW F \in SUBSET all, S \cap F = {}
    PROVE  /\ Cardinality(S) \in Nat /\ Cardinality(F) \in Nat /\ Cardinality(all) \in Nat
           /\ Cardinality(S) + Cardinality(F) <= Cardinality(all)
           /\ \A i \in all \ (S \cup F) : Cardinality(S) + Cardinality(F) < Cardinality(all)
  <1>1. IsFiniteSet(S) /\ IsFiniteSet(F)
    BY FS_Subset
  <1>2. /\ Cardinality(S) \in Nat /\ Cardinality(F) \in Nat /\ Cardinality(all) \in Nat
        /\ Cardinality(S \cap F) = 0
    BY <1>1, FS_CardinalityType, FS_EmptySet
  <1>3. Cardinality(S \cup F) = Cardinality(S) + Cardinality(F)
    <2>1. Cardinality(S \cup F) = Cardinality(S) + Cardinality(F) - Cardinality(S \cap F)
      BY <1>1, FS_Union
    <2> QED
      BY <1>2, <2>1
  <1>4. /\ Cardinality(S \cup F) <= Cardinality(all)
        /\ Cardinality(all) = Cardinality(S \cup F) => all = S \cup F
    <2>1. S \cup F \in SUBSET all
      OBVIOUS
    <2> QED
      BY <2>1, FS_Subset
  <1> QED
    BY <1>2, <1>3, <1>4

LEMMA Joined ==
    ASSUME MailIInv, NEW mails \in Seq(Message), messages' = messages \o mails
    PROVE  /\ messages' \in Seq(Message) /\ Len(messages') = Len(messages) + Len(mails)
           /\ \A i \in 1 .. Len(messages) + Len(mails) :
                messages'[i] = IF i <= Len(messages) THEN messages[i] ELSE mails[i - Len(messages)]
  <1>1. messages \in Seq(Message)
    BY MailTables
  <1>2. /\ messages \o mails \in Seq(Message)
        /\ Len(messages \o mails) = Len(messages) + Len(mails)
        /\ \A i \in 1 .. Len(messages) + Len(mails) :
            (messages \o mails)[i] =
                IF i <= Len(messages) THEN messages[i] ELSE mails[i - Len(messages)]
    BY <1>1, ConcatProperties
  <1> QED
    BY <1>2

\* The mails of a campaign, and the messages with them.
LEMMA MailsAre ==
    ASSUME NEW t \in Tenants, NEW k \in 0 .. MaxCampaigns, NEW n \in Nat,
           NEW recipients \in [1 .. n -> Addresses], NEW outcome \in [1 .. n -> Outcomes]
    PROVE  /\ Mails(t, k, recipients, outcome) \in Seq(Message)
           /\ Len(Mails(t, k, recipients, outcome)) = n
           /\ \A j \in 1 .. n : LET m == Mails(t, k, recipients, outcome)[j] IN
                /\ m.tenant = t /\ m.campaign = k /\ m.status \in Outcomes
                /\ m.sent <=> m.status = "sent"
  <1> DEFINE mails == Mails(t, k, recipients, outcome)
  <1>1. mails = [j \in 1 .. n |-> NewMessage(t, recipients[j], k, outcome[j])]
    BY DEF Mails
  <1> HIDE DEF mails
  <1>2. ASSUME NEW j \in 1 .. n
        PROVE  /\ mails[j] \in Message /\ mails[j].tenant = t /\ mails[j].campaign = k
               /\ mails[j].status \in Outcomes /\ (mails[j].sent <=> mails[j].status = "sent")
    <2>1. mails[j] = NewMessage(t, recipients[j], k, outcome[j])
      BY <1>1
    <2>2. recipients[j] \in Addresses /\ outcome[j] \in Outcomes
      OBVIOUS
    <2>3. mails[j] \in Message
      BY <2>1, <2>2 DEF NewMessage, Message, Outcomes, MessageStatuses
    <2>4. mails[j].tenant = t /\ mails[j].campaign = k /\ mails[j].status \in Outcomes
      BY <2>1, <2>2 DEF NewMessage
    <2>5. mails[j].sent <=> mails[j].status = "sent"
      <3>1. mails[j].sent = (outcome[j] = "sent") /\ mails[j].status = outcome[j]
        BY <2>1 DEF NewMessage
      <3> QED
        BY <3>1
    <2> QED
      BY <2>3, <2>4, <2>5
  <1>3. mails \in Seq(Message)
    <2>1. mails \in [1 .. n -> Message]
      BY <1>1, <1>2
    <2> QED
      BY <2>1, SeqDef
  <1>4. Len(mails) = n
    <2>1. DOMAIN mails = 1 .. n /\ DOMAIN mails = 1 .. Len(mails) /\ Len(mails) \in Nat
      BY <1>1, <1>3
    <2> QED
      BY <2>1
  <1> QED
    BY <1>2, <1>3, <1>4 DEF mails

\* A campaign of some mails is accounted for as it begins.
Begun(k, m, n) ==
    /\ MailRows(k) = m + 1 .. m + n
    /\ \A i \in MailRows(k) : /\ messages[i].status \in Outcomes
                              /\ messages[i].sent <=> messages[i].status = "sent"

LEMMA CampaignAccounted ==
    ASSUME NEW k, NEW n \in Nat, NEW m \in Nat, NEW t \in Tenants, NEW blank \in Nat,
           NEW missed \in Nat, messages' \in Seq(Message),
           Begun(k, m, n)',
           NEW row, row = CampaignRow(t, n, blank, missed),
           NEW new, new = IF missed > 0 THEN row ELSE Refreshed(row, messages', k),
           campaigns'[k] = new
    PROVE  new \in Campaign /\ new.tenant = t /\ Accounted(k)'
  <1> DEFINE own == MailRows(k)'
             S == {i \in own : messages'[i].status = "sent"}
             F == {i \in own : messages'[i].status = "failed"}
  <1>0. /\ own = m + 1 .. m + n
        /\ \A i \in own : /\ messages'[i].status \in Outcomes
                          /\ messages'[i].sent <=> messages'[i].status = "sent"
    BY DEF Begun
  <1>1. IsFiniteSet(own) /\ Cardinality(own) = n
    <2>1. \A a, b \in Int : /\ IsFiniteSet(a .. b)
                            /\ Cardinality(a .. b) = IF a > b THEN 0 ELSE b - a + 1
      BY FS_Interval
    <2>2. PICK a, b \in Int : a = m + 1 /\ b = m + n
      OBVIOUS
    <2>3. own = a .. b
      BY <1>0, <2>2
    <2>4. (IF a > b THEN 0 ELSE b - a + 1) = n
      BY <2>2
    <2> QED
      BY <2>1, <2>2, <2>3, <2>4
  <1>2. /\ Count(messages', k, {"sent", "delivered", "opened", "clicked"}) = Cardinality(S)
        /\ Count(messages', k, {"failed"}) = Cardinality(F)
    <2>0. own = {i \in DOMAIN messages' : messages'[i].campaign = k}
      BY DEF MailRows
    <2> HIDE DEF own
    <2>1. {i \in DOMAIN messages' : messages'[i].campaign = k
                /\ messages'[i].status \in {"sent", "delivered", "opened", "clicked"}} = S
      BY <1>0, <2>0 DEF Outcomes
    <2>2. {i \in DOMAIN messages' : messages'[i].campaign = k
                /\ messages'[i].status \in {"failed"}} = F
      BY <2>0
    <2> QED
      BY <2>1, <2>2 DEF Count
  <1>3. SentRows(k)' = S
    <2>1. SentRows(k)' = {i \in own : messages'[i].sent}
      BY DEF SentRows
    <2> HIDE DEF own
    <2> QED
      BY <1>0, <2>1
  <1> HIDE DEF own
  <1>8. /\ S \in SUBSET own /\ F \in SUBSET own /\ S \cap F = {}
        /\ \A i \in own : messages'[i].status = "queued" => i \notin S \cup F
    OBVIOUS
  <1> HIDE DEF S, F
  <1>4. /\ Cardinality(S) \in Nat /\ Cardinality(F) \in Nat
        /\ Cardinality(S) + Cardinality(F) <= Cardinality(own)
        /\ \A i \in own \ (S \cup F) : Cardinality(S) + Cardinality(F) < Cardinality(own)
    BY <1>1, <1>8, SentAndFailed
  <1>5. /\ missed > 0 => new = row
        /\ ~(missed > 0) => new = [row EXCEPT !.sent = Cardinality(S), !.failed = Cardinality(F)]
    BY <1>2 DEF Refreshed
  <1>6. /\ new \in Campaign /\ new.tenant = t /\ new.total = n + blank + missed
        /\ new.blank = blank /\ new.missed = missed
        /\ missed > 0 => new.sent = 0 /\ new.failed = 0
        /\ ~(missed > 0) => new.sent = Cardinality(S) /\ new.failed = Cardinality(F)
    <2>1. CASE missed > 0
      BY <1>5, <2>1 DEF Campaign, CampaignRow
    <2>2. CASE ~(missed > 0)
      <3>1. new = [tenant |-> t, total |-> n + blank + missed, sent |-> Cardinality(S),
                   failed |-> Cardinality(F), blank |-> blank, missed |-> missed]
        BY <1>5, <2>2 DEF CampaignRow
      <3> QED
        BY <1>4, <2>2, <3>1 DEF Campaign
    <2> QED
      BY <2>1, <2>2
  <1>7. Accounted(k)'
    <2>1. Cardinality(own) + campaigns'[k].blank + campaigns'[k].missed = campaigns'[k].total
      BY <1>1, <1>6
    <2>2. CASE missed > 0
      BY <1>6, <2>1, <2>2 DEF Accounted, own
    <2>3. CASE ~(missed > 0)
      <3>1. /\ Cardinality(SentRows(k)') = campaigns'[k].sent
            /\ campaigns'[k].sent + campaigns'[k].failed <= Cardinality(own)
        BY <1>1, <1>3, <1>4, <1>6, <2>3
      <3>2. ASSUME NEW i \in own, messages'[i].status = "queued"
            PROVE  campaigns'[k].sent + campaigns'[k].failed < Cardinality(own)
        BY <1>4, <1>6, <1>8, <2>3, <3>2
      <3> QED
        BY <1>6, <2>1, <2>3, <3>1, <3>2 DEF Accounted, own
    <2> QED
      BY <2>2, <2>3
  <1> QED
    BY <1>6, <1>7

\* The old campaigns and the old rows, when rows of no campaign or of a new one
\* are added.
LEMMA OthersKeep ==
    ASSUME MailIInv, NEW n \in Nat, messages' \in Seq(Message), Len(messages') = Len(messages) + n,
           \A i \in DOMAIN messages : messages'[i] = messages[i],
           \A k \in DOMAIN campaigns : k \in DOMAIN campaigns' /\ campaigns'[k] = campaigns[k],
           \A i \in DOMAIN messages' \ DOMAIN messages :
                messages'[i].campaign \notin DOMAIN campaigns
    PROVE  \A k \in DOMAIN campaigns : Accounted(k)' /\ MailRows(k)' = MailRows(k)
  <1> SUFFICES ASSUME NEW k \in DOMAIN campaigns PROVE Accounted(k)' /\ MailRows(k)' = MailRows(k)
    OBVIOUS
  <1>1. DOMAIN messages \subseteq DOMAIN messages'
    BY MailTables
  <1>2. MailRows(k)' = MailRows(k)
    BY <1>1 DEF MailRows
  <1>3. SentRows(k)' = SentRows(k)
    BY <1>2 DEF SentRows, MailRows
  <1>4. \A i \in MailRows(k) : messages'[i] = messages[i]
    BY DEF MailRows
  <1>5. Accounted(k)
    BY DEF MailIInv
  <1>6. campaigns'[k] = campaigns[k]
    OBVIOUS
  <1> QED
    BY <1>2, <1>3, <1>4, <1>5, <1>6 DEF Accounted

LEMMA SendEmailKeeps ==
    ASSUME MailIInv, NEW t \in Tenants, NEW to \in Addresses, SendEmail(t, to)
    PROVE  MailIInv'
  <1>1. PICK outcome \in Outcomes :
            /\ Len(messages) < MaxMessages
            /\ messages' = Append(messages, NewMessage(t, to, 0, outcome))
            /\ UNCHANGED <<templates, campaigns>>
    BY DEF SendEmail, Inserted
  <1> DEFINE row == NewMessage(t, to, 0, outcome)
             n == Len(messages) + 1
  <1>2. row \in Message /\ row.campaign = 0
    <2>1. outcome \in MessageStatuses
      BY <1>1 DEF Outcomes, MessageStatuses
    <2> QED
      BY <2>1, MessagesAssumption DEF NewMessage, Message
  <1>3. messages' = Append(messages, row)
    BY <1>1
  <1> HIDE DEF row
  <1>4. Grown(messages, messages', row, Message)
    BY <1>2, <1>3, MailTables, RowInserted
  <1>5. /\ messages' \in Seq(Message) /\ Len(messages') = n
        /\ DOMAIN messages' = DOMAIN messages \cup {n} /\ n \notin DOMAIN messages
        /\ messages'[n] = row /\ \A i \in DOMAIN messages : messages'[i] = messages[i]
    BY <1>4 DEF Grown
  <1>6. Len(messages') <= MaxMessages
    BY <1>1, <1>5, MailTables
  <1>7. \A k \in DOMAIN campaigns : Accounted(k)'
    <2>1. \A i \in DOMAIN messages' \ DOMAIN messages : messages'[i].campaign \notin DOMAIN campaigns
      BY <1>2, <1>5, MailTables
    <2>2. \A k \in DOMAIN campaigns : k \in DOMAIN campaigns' /\ campaigns'[k] = campaigns[k]
      BY <1>1
    <2> QED
      BY <1>5, <2>1, <2>2, OthersKeep
  <1>8. Belong'
    <2> SUFFICES ASSUME NEW i \in DOMAIN messages'
                 PROVE  /\ messages'[i].campaign <= Len(campaigns)
                        /\ \A k \in DOMAIN campaigns :
                            messages'[i].campaign = k => messages'[i].tenant = campaigns[k].tenant
      BY <1>1 DEF Belong
    <2>1. CASE i \in DOMAIN messages
      BY <1>5, <2>1 DEF MailIInv, Belong
    <2>2. CASE i = n
      BY <1>2, <1>5, <2>2, MailTables
    <2> QED
      BY <1>5, <2>1, <2>2
  <1>9. MessagesTypeOK'
    BY <1>1, <1>5 DEF MailIInv, MessagesTypeOK
  <1> QED
    BY <1>1, <1>6, <1>7, <1>8, <1>9 DEF MailIInv

LEMMA SendBulkKeeps ==
    ASSUME MailIInv, NEW t \in Tenants, NEW n \in Nat,
           NEW recipients \in [1 .. n -> Addresses], NEW outcome \in [1 .. n -> Outcomes],
           NEW blank \in Nat, NEW missed \in Nat,
           SendBulk(t, recipients, outcome, blank, missed)
    PROVE  MailIInv'
  <1>1. PICK m, k, mails : /\ m = Len(messages) /\ k = Len(campaigns) + 1
                           /\ mails = Mails(t, k, recipients, outcome)
    OBVIOUS
  <1>2. m \in Nat /\ k \in 1 .. MaxCampaigns /\ k \notin DOMAIN campaigns
    BY <1>1, MailTables DEF SendBulk
  <1>3. /\ mails \in Seq(Message) /\ Len(mails) = n
        /\ \A j \in 1 .. n : /\ mails[j].tenant = t /\ mails[j].campaign = k
                             /\ mails[j].status \in Outcomes
                             /\ mails[j].sent <=> mails[j].status = "sent"
    <2>1. k \in 0 .. MaxCampaigns
      BY <1>2
    <2> QED
      BY <1>1, <2>1, MailsAre
  <1>4. messages' = messages \o mails /\ templates' = templates
    BY <1>1 DEF SendBulk, NewCampaign
  <1>5. /\ messages' \in Seq(Message) /\ Len(messages') = m + n
        /\ \A i \in 1 .. m + n : messages'[i] = IF i <= m THEN messages[i] ELSE mails[i - m]
    <2>1. /\ messages' \in Seq(Message) /\ Len(messages') = Len(messages) + Len(mails)
          /\ \A i \in 1 .. Len(messages) + Len(mails) :
                messages'[i] = IF i <= Len(messages) THEN messages[i] ELSE mails[i - Len(messages)]
      BY <1>3, <1>4, Joined
    <2> QED
      BY <1>1, <1>3, <2>1
  <1>6. /\ DOMAIN messages' = 1 .. m + n /\ DOMAIN messages = 1 .. m
        /\ \A i \in DOMAIN messages : messages'[i] = messages[i]
    BY <1>1, <1>2, <1>5, MailTables
  <1>7. \A i \in m + 1 .. m + n : /\ messages'[i].tenant = t /\ messages'[i].campaign = k
                                  /\ messages'[i].status \in Outcomes
                                  /\ messages'[i].sent <=> messages'[i].status = "sent"
    <2> SUFFICES ASSUME NEW i \in m + 1 .. m + n
                 PROVE  /\ messages'[i].tenant = t /\ messages'[i].campaign = k
                        /\ messages'[i].status \in Outcomes
                        /\ messages'[i].sent <=> messages'[i].status = "sent"
      OBVIOUS
    <2>1. messages'[i] = mails[i - m] /\ i - m \in 1 .. n
      BY <1>2, <1>5
    <2> QED
      BY <1>3, <2>1
  <1>8. \A i \in DOMAIN messages : messages[i].campaign \in Nat /\ messages[i].campaign < k
    <2> SUFFICES ASSUME NEW i \in DOMAIN messages
                 PROVE  messages[i].campaign \in Nat /\ messages[i].campaign < k
      OBVIOUS
    <2>1. messages[i] \in Message /\ messages[i].campaign <= Len(campaigns)
      BY MailTables DEF MailIInv, Belong
    <2>2. messages[i].campaign \in Nat
      BY <2>1, MailTables DEF Message
    <2> QED
      BY <1>1, <2>1, <2>2, MailTables
  <1>9. MailRows(k)' = m + 1 .. m + n
    <2>1. \A i \in DOMAIN messages : messages'[i].campaign # k
      BY <1>2, <1>6, <1>8
    <2>2. DOMAIN messages' = DOMAIN messages \cup (m + 1 .. m + n)
      BY <1>2, <1>6
    <2> QED
      BY <1>6, <1>7, <2>1, <2>2 DEF MailRows
  <1>10. PICK row, new : /\ row = CampaignRow(t, n, blank, missed)
                         /\ new = IF missed > 0 THEN row ELSE Refreshed(row, messages', k)
    OBVIOUS
  <1>11. campaigns' = Append(campaigns, new)
    BY <1>1, <1>3, <1>10 DEF SendBulk, NewCampaign, Inserted
  <1>12. campaigns'[k] = new
    BY <1>1, <1>11, MailTables
  <1>13. new \in Campaign /\ new.tenant = t /\ Accounted(k)'
    <2>1. Begun(k, m, n)'
      BY <1>7, <1>9 DEF Begun
    <2>2. messages' \in Seq(Message) /\ m \in Nat
      BY <1>2, <1>5
    <2> QED
      <3>1. Accounted(k)'
        BY <1>10, <1>12, <2>1, <2>2, CampaignAccounted
      <3>2. new \in Campaign /\ new.tenant = t
        BY <1>10, <1>12, <2>1, <2>2, <3>1, CampaignAccounted
      <3> QED
        BY <3>1, <3>2
  <1>14. Grown(campaigns, campaigns', new, Campaign)
    BY <1>11, <1>13, MailTables, RowInserted
  <1>15. /\ campaigns' \in Seq(Campaign) /\ Len(campaigns') = k
         /\ DOMAIN campaigns' = DOMAIN campaigns \cup {k}
         /\ \A c \in DOMAIN campaigns : campaigns'[c] = campaigns[c]
    BY <1>1, <1>14 DEF Grown
  <1>16. \A c \in DOMAIN campaigns' : Accounted(c)'
    <2>1. \A i \in DOMAIN messages' \ DOMAIN messages : messages'[i].campaign \notin DOMAIN campaigns
      <3>1. DOMAIN messages' \ DOMAIN messages \subseteq m + 1 .. m + n
        BY <1>2, <1>6
      <3> QED
        BY <1>2, <1>7, <3>1
    <2>2. \A c \in DOMAIN campaigns : c \in DOMAIN campaigns' /\ campaigns'[c] = campaigns[c]
      BY <1>15
    <2>3. Len(messages') = Len(messages) + n
      BY <1>1, <1>5
    <2>4. \A c \in DOMAIN campaigns : Accounted(c)'
      BY <1>5, <1>6, <2>1, <2>2, <2>3, OthersKeep
    <2> QED
      BY <1>13, <1>15, <2>4
  <1>17. Belong'
    <2> SUFFICES ASSUME NEW i \in DOMAIN messages'
                 PROVE  /\ messages'[i].campaign <= k
                        /\ \A c \in DOMAIN campaigns' :
                            messages'[i].campaign = c => messages'[i].tenant = campaigns'[c].tenant
      BY <1>15 DEF Belong
    <2>1. CASE i \in DOMAIN messages
      <3>1. messages'[i].campaign < k /\ messages'[i].campaign \in Nat /\ messages'[i] = messages[i]
        BY <1>6, <1>8, <2>1
      <3>2. \A c \in DOMAIN campaigns : messages[i].campaign = c => messages[i].tenant = campaigns[c].tenant
        BY <2>1 DEF MailIInv, Belong
      <3> QED
        BY <1>2, <1>15, <3>1, <3>2
    <2>2. CASE i \in m + 1 .. m + n
      BY <1>2, <1>7, <1>12, <1>13, <2>2
    <2> QED
      BY <1>2, <1>6, <2>1, <2>2
  <1>18. MessagesTypeOK'
    BY <1>4, <1>5, <1>15 DEF MailIInv, MessagesTypeOK
  <1>19. /\ Len(templates') <= MaxTemplates /\ Len(messages') <= MaxMessages
         /\ Len(campaigns') <= MaxCampaigns
    <2>1. Len(recipients) = n
      OBVIOUS
    <2> QED
      BY <1>1, <1>2, <1>4, <1>5, <1>15, <2>1, MailTables DEF SendBulk
  <1> QED
    BY <1>16, <1>17, <1>18, <1>19 DEF MailIInv

LEMMA BounceWebhookIs ==
    ASSUME NEW i, NEW to, BounceWebhook(i, to)
    PROVE  \E j \in DOMAIN messages : \E status \in {"bounced", "complained", "delivered"} :
                Changed(j, [messages[j] EXCEPT !.status = status])
  <1>1. PICK j \in FindMessage(i, to) : ProcessSnsNotification(j)
    BY DEF BounceWebhook
  <1>2. j \in DOMAIN messages
    BY <1>1 DEF FindMessage, NewestOf
  <1> QED
    BY <1>1, <1>2 DEF ProcessSnsNotification, ProcessBounce, ProcessComplaint, ProcessDelivery

LEMMA MailNextIInv == MailIInv /\ [MessagesNext]_messageVars => MailIInv'
  <1> SUFFICES ASSUME MailIInv, [MessagesNext]_messageVars PROVE MailIInv'
    OBVIOUS
  <1>1. CASE UNCHANGED messageVars
    BY <1>1 DEF messageVars, MailIInv, MessagesTypeOK, Belong, Accounted, MailRows, SentRows
  <1>2. CASE TemplatesNext
    BY <1>2, CreateTemplateKeeps, DeleteTemplateKeeps DEF TemplatesNext
  <1>3. CASE MailNext
    <2>1. ASSUME NEW t \in Tenants, NEW to \in Addresses, SendEmail(t, to) PROVE MailIInv'
      BY <2>1, SendEmailKeeps
    <2>2. ASSUME NEW t \in Tenants, NEW n \in 0 .. MaxMessages,
                 NEW recipients \in [1 .. n -> Addresses], NEW outcome \in [1 .. n -> Outcomes],
                 NEW blank \in 0 .. MaxMessages - n, NEW missed \in 0 .. MaxMessages - n,
                 SendBulk(t, recipients, outcome, blank, missed)
          PROVE  MailIInv'
      <3>1. n \in Nat /\ blank \in Nat /\ missed \in Nat
        BY MailTables
      <3> QED
        BY <2>2, <3>1, SendBulkKeeps
    <2>3. ASSUME NEW i \in DOMAIN messages, TrackOpen(i) \/ TrackClick(i) PROVE MailIInv'
      <3>1. \E new : (new = Opened(messages[i]) \/ new = Clicked(messages[i])) /\ Changed(i, new)
        BY <2>3 DEF TrackOpen, TrackClick
      <3> QED
        BY <3>1, EventKeeps
    <2>4. ASSUME NEW i, NEW to, BounceWebhook(i, to) PROVE MailIInv'
      <3>1. PICK j \in DOMAIN messages : \E status \in {"bounced", "complained", "delivered"} :
                Changed(j, [messages[j] EXCEPT !.status = status])
        BY <2>4, BounceWebhookIs
      <3> QED
        BY <3>1, EventKeeps
    <2> QED
      BY <1>3, <2>1, <2>2, <2>3, <2>4 DEF MailNext
  <1> QED
    BY <1>1, <1>2, <1>3 DEF MessagesNext

LEMMA MailSpecIInv == MessagesSpec => []MailIInv
  BY MailInitIInv, MailNextIInv, PTL DEF MessagesSpec

\* Templates, messages and campaigns are what they are declared to be.
THEOREM MailTyped == MessagesSpec => []MessagesTypeOK
  <1>1. MailIInv => MessagesTypeOK
    BY DEF MailIInv
  <1> QED
    BY <1>1, MailSpecIInv, PTL

LEMMA AccountsHold == MailIInv => CampaignsAccount
  <1> SUFFICES ASSUME MailIInv, NEW t \in Tenants, NEW k \in CampaignsOf(t)
               PROVE  LET c == campaigns[k]
                          own == {i \in DeliveriesOf(t) : messages[i].campaign = k}
                      IN  /\ Cardinality(own) + c.blank + c.missed = c.total
                          /\ IF c.missed > 0 THEN c.sent = 0 /\ c.failed = 0
                             ELSE /\ Cardinality({i \in own : messages[i].sent}) = c.sent
                                  /\ c.sent + c.failed <= Cardinality(own)
                                  /\ (\E i \in own : messages[i].status = "queued")
                                        => c.sent + c.failed < Cardinality(own)
    BY DEF CampaignsAccount
  <1>1. k \in DOMAIN campaigns /\ campaigns[k].tenant = t
    BY DEF CampaignsOf, OfTenant
  <1>2. {i \in DeliveriesOf(t) : messages[i].campaign = k} = MailRows(k)
    BY <1>1 DEF DeliveriesOf, OfTenant, MailRows, MailIInv, Belong
  <1>3. Accounted(k)
    BY <1>1 DEF MailIInv
  <1> QED
    BY <1>2, <1>3 DEF Accounted, SentRows

\* However late, doubled or misdirected the provider's events are: a campaign's
\* recipients are each sent, failed, blank, kept back and still queued, or
\* missed by the error that ended send_bulk.
THEOREM RecipientsAreAccountedFor == MessagesSpec => []CampaignsAccount
  BY MailSpecIInv, AccountsHold, PTL

\* Opens and clicks take no bounce, complaint or failure back, and no delivery
\* does that was not reported: what was decided stands until a later event.
THEOREM OutcomesAreKept == MessagesSpec => OutcomesStand
  <1> DEFINE Stands == \A i \in DOMAIN messages :
                messages[i].status \in {"queued", "failed", "bounced", "complained"}
                    => messages'[i].status \in {messages[i].status, "bounced", "complained", "delivered"}
  <1>1. MailIInv /\ [MessagesNext]_messageVars => [Stands]_messageVars
    <2> SUFFICES ASSUME MailIInv, MessagesNext,
                        NEW i \in DOMAIN messages,
                        messages[i].status \in {"queued", "failed", "bounced", "complained"}
                 PROVE  messages'[i].status \in {messages[i].status, "bounced", "complained", "delivered"}
      OBVIOUS
    <2>1. CASE messages'[i] = messages[i]
      BY <2>1
    <2>2. ASSUME NEW j \in DOMAIN messages, NEW status \in {"bounced", "complained", "delivered"},
                 Changed(j, [messages[j] EXCEPT !.status = status])
          PROVE  messages'[i].status \in {messages[i].status, "bounced", "complained", "delivered"}
      <3>1. messages[i] \in Message /\ messages' = [messages EXCEPT ![j] = [messages[j] EXCEPT !.status = status]]
        BY <2>2, MailTables DEF Changed
      <3> QED
        BY <2>2, <3>1 DEF Message
    <2>3. ASSUME NEW j \in DOMAIN messages, TrackOpen(j) \/ TrackClick(j)
          PROVE  messages'[i].status \in {messages[i].status, "bounced", "complained", "delivered"}
      <3>1. /\ messages[i] \in Message
            /\ \/ messages' = [messages EXCEPT ![j] = Opened(messages[j])]
               \/ messages' = [messages EXCEPT ![j] = Clicked(messages[j])]
        BY <2>3, MailTables DEF TrackOpen, TrackClick, Changed
      <3>2. /\ Opened(messages[i]).status = messages[i].status
            /\ Clicked(messages[i]).status = messages[i].status
        BY <3>1 DEF Opened, Clicked, Message
      <3> QED
        BY <3>1, <3>2
    <2>4. ASSUME NEW t \in Tenants, NEW to \in Addresses, SendEmail(t, to)
          PROVE  messages'[i] = messages[i]
      BY <2>4, MailTables DEF SendEmail, Inserted
    <2>5. ASSUME NEW t \in Tenants, NEW n \in 0 .. MaxMessages,
                 NEW recipients \in [1 .. n -> Addresses], NEW outcome \in [1 .. n -> Outcomes],
                 NEW blank, NEW missed, SendBulk(t, recipients, outcome, blank, missed)
          PROVE  messages'[i] = messages[i]
      <3>1. PICK k, mails : k = Len(campaigns) + 1 /\ mails = Mails(t, k, recipients, outcome)
        OBVIOUS
      <3>2. k \in 0 .. MaxCampaigns /\ n \in Nat
        BY <2>5, <3>1, MailTables DEF SendBulk
      <3>3. mails \in Seq(Message) /\ Len(mails) = n
        BY <3>1, <3>2, MailsAre
      <3>4. messages' = messages \o mails
        BY <2>5, <3>1 DEF SendBulk, NewCampaign
      <3>5. \A j \in 1 .. Len(messages) + Len(mails) :
                messages'[j] = IF j <= Len(messages) THEN messages[j] ELSE mails[j - Len(messages)]
        BY <3>3, <3>4, Joined
      <3>6. Len(messages) \in Nat /\ i \in 1 .. Len(messages)
        BY MailTables
      <3> QED
        BY <3>2, <3>3, <3>5, <3>6
    <2>6. CASE TemplatesNext
      BY <2>1, <2>6 DEF TemplatesNext, CreateTemplate, DeleteTemplate
    <2>7. CASE MailNext
      BY <2>1, <2>2, <2>3, <2>4, <2>5, <2>7, BounceWebhookIs DEF MailNext
    <2> QED
      BY <2>6, <2>7 DEF MessagesNext
  <1> QED
    BY <1>1, MailSpecIInv, PTL DEF MessagesSpec, OutcomesStand

LEMMA MessageViewsIs == MailIInv => MessageViewsAgree
  <1> SUFFICES ASSUME MailIInv, NEW t \in Tenants
               PROVE  /\ {i \in 1 .. MaxMessages : GetDelivery(t, i)}
                            = Walk(LAMBDA p, l : ListDeliveries(t, p, l), MaxMessages)
                      /\ {k \in 1 .. MaxCampaigns : GetCampaign(t, k)}
                            = Walk(LAMBDA p, l : ListCampaigns(t, p, l), MaxCampaigns)
                      /\ Walk(LAMBDA p, l : ListTemplates(t, p, l), MaxTemplates)
                            \subseteq {i \in 1 .. MaxTemplates : GetTemplate(t, i)}
    BY DEF MessageViewsAgree
  <1>1. Walk(LAMBDA p, l : ListDeliveries(t, p, l), MaxMessages) = DeliveriesOf(t)
    <2> DEFINE ids == DeliveriesOf(t)
    <2>1. ids \subseteq 1 .. Len(messages)
      BY MailTables DEF DeliveriesOf, OfTenant
    <2> HIDE DEF ids
    <2>2. UNION {Page(ids, p, 1) : p \in 1 .. MaxMessages} = ids
      BY <2>1, MailTables, WalkShowsAll
    <2> QED
      BY <2>2 DEF Walk, ListDeliveries, ids
  <1>2. Walk(LAMBDA p, l : ListCampaigns(t, p, l), MaxCampaigns) = CampaignsOf(t)
    <2> DEFINE ids == CampaignsOf(t)
    <2>1. /\ ids \subseteq 1 .. Len(campaigns) /\ Len(campaigns) \in 0 .. MaxCampaigns
          /\ MaxCampaigns \in Nat
      BY MailTables DEF CampaignsOf, OfTenant
    <2> HIDE DEF ids
    <2>2. UNION {Page(ids, p, 1) : p \in 1 .. MaxCampaigns} = ids
      BY <2>1, WalkShowsAll
    <2> QED
      BY <2>2 DEF Walk, ListCampaigns, ids
  <1>3. Walk(LAMBDA p, l : ListTemplates(t, p, l), MaxTemplates) = TemplatesOf(t)
    <2> DEFINE ids == TemplatesOf(t)
    <2>1. ids \subseteq 1 .. Len(templates)
      BY MailTables DEF TemplatesOf, Listed, OfTenant
    <2> HIDE DEF ids
    <2>2. UNION {Page(ids, p, 1) : p \in 1 .. MaxTemplates} = ids
      BY <2>1, MailTables, WalkShowsAll
    <2> QED
      BY <2>2 DEF Walk, ListTemplates, ids
  <1>4. /\ {i \in 1 .. MaxMessages : GetDelivery(t, i)} = DeliveriesOf(t)
        /\ {k \in 1 .. MaxCampaigns : GetCampaign(t, k)} = CampaignsOf(t)
    BY MailTables DEF GetDelivery, FindDelivery, DeliveriesOf, GetCampaign, FindCampaign,
                      CampaignsOf, OfTenant
  <1>5. TemplatesOf(t) \subseteq {i \in 1 .. MaxTemplates : GetTemplate(t, i)}
    BY MailTables DEF TemplatesOf, GetTemplate, FindTemplate, Listed, OfTenant
  <1> QED
    BY <1>1, <1>2, <1>3, <1>4, <1>5

\* Lists and gets of deliveries and campaigns agree, and every listed template
\* can be used, for any number of them.
THEOREM MessageViews == MessagesSpec => []MessageViewsAgree
  BY MailSpecIInv, MessageViewsIs, PTL
-----------------------------------------------------------------------------
(***************************************************************************)
(* For any number of concurrent calls: the unique indexes keep every place *)
(* to one row, and rows are of calls that were answered, or invitations.   *)
(*                                                                         *)
(* A flush compares its rows with what is committed and with what others   *)
(* hold.  The invariant says that the comparison stays true until the      *)
(* commit: the rows that a call has flushed are in places of their own,    *)
(* apart from one another, from the committed rows that stay and from the  *)
(* rows of the other calls.  A call never flushes into one table twice, so *)
(* that it cannot clash with itself; a new version of a row replaces a row *)
(* that nobody else touches, so that primary keys stay unique too.         *)
(***************************************************************************)

Ids == TenancyCalls \cup {Founder}
IndexKeys == Emails \cup Identities \cup Slugs \cup Ids
            \cup (Ids \X (Slugs \cup {"default", "Admin"})) \cup (Ids \X Ids \X Ids)
Tables == {"tenant", "workspace", "user", "role", "member", "link", "invitation",
           "key", "revoked", "deactivated"}
AnyRow == [table : Tables, id : Ids, key : IndexKeys, of : Ids]
Flushes ==
    [do : {"insert"}, rows : SUBSET AnyRow]
        \cup [do : {"update", "delete"}, table : Tables, id : Ids]
        \cup [do : {"rename"}, slug : Slugs]

Typed ==
    /\ stage \in [TenancyCalls ->
        {"idle", "refused", "unlinked", "open", "committed", "answered", "lost", "raised"}]
    /\ task = [c \in TenancyCalls |-> task[c]]
    /\ \A c \in TenancyCalls : stage[c] = "unlinked" => task[c] \in Identities \X Emails
    /\ todo \in [TenancyCalls -> Seq(Flushes)]
    /\ added \in [TenancyCalls -> SUBSET AnyRow]
    /\ removed \in [TenancyCalls -> SUBSET AnyRow]
    /\ rows \in SUBSET AnyRow

\* The tables to which a flush adds rows; a rename keeps to the row it is about.
Adds(f) ==
    IF f.do = "insert" THEN {r.table : r \in f.rows}
    ELSE IF f.do = "update" THEN {f.table} ELSE {}

\* The rows that a call inserts are its own, one to a table.
OwnRows(c, f) == f.do = "insert" => \A r \in f.rows :
    r.id = c /\ \A q \in f.rows : r.table = q.table => r = q

\* The flushes that a call may have to do: into different tables, and a rename
\* only after the update that holds its row.
Plan(c, F) ==
    /\ \A i, j \in DOMAIN F : i # j => Adds(F[i]) \cap Adds(F[j]) = {}
    /\ \A i \in DOMAIN F : OwnRows(c, F[i])
    /\ \A i \in DOMAIN F : F[i].do = "rename" =>
        i = 1 \/ (i = 2 /\ F[1].do = "update")

\* What a call has flushed already is of other tables, except that a rename
\* follows the one row that the call holds.
Follows(F, A) ==
    /\ \A i \in DOMAIN F, r \in A : r.table \notin Adds(F[i])
    /\ \A i \in DOMAIN F : F[i].do = "rename" /\ i = 1 => \A r, q \in A : SameRow(r, q)
    /\ \A i \in DOMAIN F : F[i].do = "rename" /\ i = 2 => A = {}

Planned == \A c \in TenancyCalls : Plan(c, todo[c]) /\ Follows(todo[c], added[c])

\* Only an open call holds rows, and no committed row is of an open call.
Quiet == \A c \in TenancyCalls : stage[c] # "open" => added[c] = {} /\ removed[c] = {}
Committed == \A r \in rows :
    r.id \in TenancyCalls => stage[r.id] \in {"committed", "answered", "lost"}

\* An update of a workspace makes no row of its own.
UpdatesOnly == \A c \in TenancyCalls :
    stage[c] = "open" /\ task[c][1] = "update_workspace" =>
        /\ \A i \in DOMAIN todo[c] : todo[c][i].do # "insert"
        /\ \A r \in added[c] : r.id # c

\* A row that a call holds is its own, or the version of one that nobody else holds.
Versions ==
    /\ \A c \in TenancyCalls : \A r \in added[c] :
        r.id = c \/ \E q \in removed[c] : SameRow(r, q)
    /\ \A c \in TenancyCalls : removed[c] \subseteq rows
    /\ \A c, d \in TenancyCalls : c # d =>
        \A r \in removed[c], q \in removed[d] : ~SameRow(r, q)

\* A primary key has one row.
OnePerKey ==
    /\ \A r, q \in rows : SameRow(r, q) => r = q
    /\ \A c \in TenancyCalls : \A r, q \in added[c] : SameRow(r, q) => r = q

\* What an open call has flushed is in places of its own.
PlacesKept ==
    /\ \A c \in TenancyCalls : \A r, q \in added[c] : SamePlace(r, q) => r = q
    /\ \A c \in TenancyCalls : \A r \in added[c], q \in rows \ removed[c] : ~SamePlace(r, q)
    /\ \A c, d \in TenancyCalls : c # d =>
        \A r \in added[c], q \in added[d] : ~SamePlace(r, q)

PlacesIInv ==
    /\ Typed /\ Planned /\ Quiet /\ Committed /\ UpdatesOnly
    /\ Versions /\ OnePerKey /\ PlacesKept /\ OnePerPlace /\ MadeWithAnswer

-----------------------------------------------------------------------------
\* Every row that the operations make.
LEMMA RowsTyped ==
    ASSUME NEW i \in Ids, NEW j \in Ids, NEW k \in Ids, NEW l \in Ids
    PROVE  /\ \A s \in Slugs \cup Ids : Tenant(i, s) \in AnyRow
           /\ \A s \in Slugs \cup {"default"} : Workspace(i, j, s) \in AnyRow
           /\ \A e \in Emails : User(i, e, j) \in AnyRow
           /\ Role(i, j) \in AnyRow
           /\ UserRole(i, j, k, l) \in AnyRow
           /\ \A a \in Identities : OAuthAccount(i, a, j) \in AnyRow
           /\ PendingInvitation(i, j) \in AnyRow
           /\ ApiKey(i, j) \in AnyRow
           /\ Revoked(i, j) \in AnyRow
           /\ Deactivated(i, j) \in AnyRow
  <1>1. /\ Slugs \cup Ids \cup Emails \cup Identities \subseteq IndexKeys
        /\ \A s \in Slugs \cup {"default"} : <<j, s>> \in IndexKeys
        /\ <<j, "Admin">> \in IndexKeys /\ <<j, k, l>> \in IndexKeys
    BY DEF IndexKeys
  <1>2. \A s \in Slugs \cup {"default"} : Workspace(i, j, s) \in AnyRow
    BY <1>1 DEF Workspace, Row, AnyRow, Tables
  <1>3. Role(i, j) \in AnyRow /\ UserRole(i, j, k, l) \in AnyRow
    BY <1>1 DEF Role, UserRole, Row, AnyRow, Tables
  <1> QED
    BY <1>1, <1>2, <1>3 DEF Tenant, User, OAuthAccount, PendingInvitation,
       ApiKey, Revoked, Deactivated, Row, AnyRow, Tables

LEMMA TenancyInitIInv == TenancyInit => PlacesIInv
  <1> SUFFICES ASSUME TenancyInit PROVE PlacesIInv
    OBVIOUS
  <1>1. Typed
    <2> USE TenancyAssumption DEF TenancyInit
    <2>1. rows \in SUBSET AnyRow
      BY RowsTyped DEF Ids
    <2>2. todo \in [TenancyCalls -> Seq(Flushes)]
      <3>1. <<>> \in Seq(Flushes)
        OBVIOUS
      <3> QED
        BY <3>1
    <2>3. /\ stage \in [TenancyCalls -> {"idle"}]
          /\ task = [c \in TenancyCalls |-> task[c]]
          /\ added \in [TenancyCalls -> SUBSET AnyRow]
          /\ removed \in [TenancyCalls -> SUBSET AnyRow]
      OBVIOUS
    <2> QED
      BY <2>1, <2>2, <2>3 DEF Typed
  <1> USE TenancyAssumption DEF TenancyInit, Tenant, Workspace, Role, User, UserRole, Row
  <1>2. Planned /\ Quiet /\ UpdatesOnly /\ Versions
    BY DEF Planned, Plan, Follows, Quiet, UpdatesOnly, Versions
  <1>3. Committed /\ MadeWithAnswer
    BY DEF Committed, MadeWithAnswer
  <1>4. OnePerKey /\ PlacesKept /\ OnePerPlace
    BY DEF OnePerKey, PlacesKept, OnePerPlace, SameRow, SamePlace
  <1> QED
    BY <1>1, <1>2, <1>3, <1>4 DEF PlacesIInv

\* A call that begins holds nothing, so it is enough that its flushes are
\* planned.
LEMMA OpenKeeps ==
    ASSUME PlacesIInv, NEW c \in TenancyCalls, stage[c] \in {"idle", "unlinked"},
           NEW F \in Seq(Flushes), Plan(c, F), NEW x,
           x[1] = "update_workspace" => \A i \in DOMAIN F : F[i].do # "insert",
           stage' = [stage EXCEPT ![c] = "open"],
           task' = [task EXCEPT ![c] = x],
           todo' = [todo EXCEPT ![c] = F],
           UNCHANGED <<added, removed, rows>>
    PROVE  PlacesIInv'
  <1> USE DEF PlacesIInv
  <1>0. stage'[c] = "open" /\ task'[c] = x /\ todo'[c] = F
        /\ added[c] = {} /\ removed[c] = {}
    BY DEF Typed, Quiet
  <1>00. \A d \in TenancyCalls : d # c =>
            stage'[d] = stage[d] /\ task'[d] = task[d] /\ todo'[d] = todo[d]
    BY DEF Typed
  <1>1. Typed'
    BY <1>0, <1>00 DEF Typed
  <1>2. Planned'
    <2> SUFFICES ASSUME NEW d \in TenancyCalls
                 PROVE  Plan(d, todo'[d]) /\ Follows(todo'[d], added'[d])
      BY DEF Planned
    <2>1. CASE d = c
      BY <2>1, <1>0 DEF Follows
    <2>2. CASE d # c
      BY <2>2, <1>00 DEF Planned
    <2> QED
      BY <2>1, <2>2
  <1>3. Quiet' /\ UpdatesOnly'
    BY <1>0, <1>00 DEF Quiet, UpdatesOnly
  <1>4. Committed'
    BY <1>0, <1>00 DEF Committed
  <1>5. MadeWithAnswer'
    <2> SUFFICES ASSUME NEW r \in rows, r.id # Founder, stage'[r.id] # "answered"
                 PROVE  stage'[r.id] \in {"committed", "lost"} /\ task'[r.id][1] = "invite_user"
      BY DEF MadeWithAnswer
    <2>1. r.id \in TenancyCalls /\ r.id # c
      BY DEF Typed, AnyRow, Ids, Committed
    <2> QED
      BY <2>1, <1>00 DEF MadeWithAnswer
  <1>6. Versions' /\ OnePerKey' /\ PlacesKept' /\ OnePerPlace'
    BY DEF Versions, OnePerKey, PlacesKept, OnePerPlace
  <1> QED
    BY <1>1, <1>2, <1>3, <1>4, <1>5, <1>6

\* A call that is refused, or that finds no link, has nothing to do.
LEMMA WaitKeeps ==
    ASSUME PlacesIInv, NEW c \in TenancyCalls, stage[c] = "idle",
           NEW s \in {"refused", "unlinked"}, stage' = [stage EXCEPT ![c] = s],
           \/ s = "refused" /\ UNCHANGED task
           \/ \E x \in Identities \X Emails : task' = [task EXCEPT ![c] = x],
           UNCHANGED <<todo, added, removed, rows>>
    PROVE  PlacesIInv'
  <1> USE DEF PlacesIInv
  <1>0. stage'[c] = s /\ (s = "unlinked" => task'[c] \in Identities \X Emails)
    BY DEF Typed
  <1>00. \A d \in TenancyCalls : d # c => stage'[d] = stage[d] /\ task'[d] = task[d]
    BY DEF Typed
  <1>1. Typed'
    BY <1>0, <1>00 DEF Typed
  <1>2. Planned'
    BY DEF Planned, Plan, Follows
  <1>3. Quiet' /\ UpdatesOnly'
    BY <1>0, <1>00 DEF Quiet, UpdatesOnly
  <1>4. Committed'
    BY <1>0, <1>00 DEF Committed
  <1>5. MadeWithAnswer'
    <2> SUFFICES ASSUME NEW r \in rows, r.id # Founder, stage'[r.id] # "answered"
                 PROVE  stage'[r.id] \in {"committed", "lost"} /\ task'[r.id][1] = "invite_user"
      BY DEF MadeWithAnswer
    <2>1. r.id \in TenancyCalls /\ r.id # c
      BY DEF Typed, AnyRow, Ids, Committed
    <2> QED
      BY <2>1, <1>00 DEF MadeWithAnswer
  <1>6. Versions' /\ OnePerKey' /\ PlacesKept' /\ OnePerPlace'
    BY DEF Versions, OnePerKey, PlacesKept, OnePerPlace
  <1> QED
    BY <1>1, <1>2, <1>3, <1>4, <1>5, <1>6
-----------------------------------------------------------------------------
\* What remains of a plan is a plan, and follows the flush that is done.
LEMMA RestFollows ==
    ASSUME NEW c, NEW F \in Seq(Flushes), F # <<>>, Plan(c, F),
           NEW A, NEW B, Follows(F, A),
           \A r \in B : r.table \in Adds(Head(F)) \/ \E q \in A : r.table = q.table,
           Head(F).do = "update" /\ A = {} => \A r, q \in B : SameRow(r, q)
    PROVE  /\ Tail(F) \in Seq(Flushes)
           /\ Plan(c, Tail(F)) /\ Follows(Tail(F), B)
           /\ \A i \in DOMAIN Tail(F) : Tail(F)[i] = F[i + 1] /\ i + 1 \in DOMAIN F
  <1>1. /\ Tail(F) \in Seq(Flushes) /\ Head(F) = F[1] /\ 1 \in DOMAIN F
        /\ \A i \in DOMAIN Tail(F) :
            i \in Nat \ {0} /\ Tail(F)[i] = F[i + 1] /\ i + 1 \in DOMAIN F
    OBVIOUS
  <1>2. Plan(c, Tail(F))
    <2>1. \A i, j \in DOMAIN Tail(F) : i # j => Adds(Tail(F)[i]) \cap Adds(Tail(F)[j]) = {}
      <3> SUFFICES ASSUME NEW i \in DOMAIN Tail(F), NEW j \in DOMAIN Tail(F), i # j
                   PROVE  Adds(F[i + 1]) \cap Adds(F[j + 1]) = {}
        BY <1>1
      <3>1. i + 1 # j + 1
        BY <1>1
      <3> QED
        BY <3>1, <1>1 DEF Plan
    <2>2. \A i \in DOMAIN Tail(F) : OwnRows(c, Tail(F)[i])
      BY <1>1 DEF Plan
    <2>3. \A i \in DOMAIN Tail(F) : Tail(F)[i].do = "rename" => i = 1
      BY <1>1 DEF Plan
    <2> QED
      BY <2>1, <2>2, <2>3 DEF Plan
  <1>3. Follows(Tail(F), B)
    <2>1. ASSUME NEW i \in DOMAIN Tail(F), NEW r \in B
          PROVE  r.table \notin Adds(Tail(F)[i])
      <3>1. Adds(Head(F)) \cap Adds(Tail(F)[i]) = {}
        BY <1>1 DEF Plan
      <3>2. \A q \in A : q.table \notin Adds(Tail(F)[i])
        BY <1>1 DEF Follows
      <3> QED
        BY <3>1, <3>2
    <2>2. ASSUME NEW i \in DOMAIN Tail(F), Tail(F)[i].do = "rename"
          PROVE  i = 1 /\ \A r, q \in B : SameRow(r, q)
      <3>1. i = 1 /\ F[1].do = "update" /\ F[2].do = "rename" /\ 2 \in DOMAIN F
        BY <2>2, <1>1 DEF Plan
      <3> QED
        BY <3>1, <1>1 DEF Follows
    <2> QED
      BY <2>1, <2>2, <1>1 DEF Follows
  <1> QED
    BY <1>1, <1>2, <1>3

\* A flush leaves its call with the rows A, in the place of the versions R.
Leaves(c, A, R) ==
    /\ Flushed(c)
    /\ A \subseteq AnyRow /\ added' = [added EXCEPT ![c] = A]
    /\ R \subseteq AnyRow /\ removed' = [removed EXCEPT ![c] = R]
    /\ \A r \in A : r.table \in Adds(Head(todo[c])) \/ \E q \in added[c] : r.table = q.table
    /\ Head(todo[c]).do = "update" /\ added[c] = {} => \A r, q \in A : SameRow(r, q)
    /\ Head(todo[c]).do # "insert" /\ (\A q \in added[c] : q.id # c) => \A r \in A : r.id # c

\* The parts of the invariant that every flush disturbs in the same way.
LEMMA FlushKeeps ==
    ASSUME PlacesIInv, NEW c \in TenancyCalls, NEW A, NEW R, Leaves(c, A, R)
    PROVE  /\ Typed' /\ Planned' /\ Quiet' /\ Committed' /\ UpdatesOnly'
           /\ OnePerPlace' /\ MadeWithAnswer'
           /\ \A d \in TenancyCalls : d # c => added'[d] = added[d] /\ removed'[d] = removed[d]
           /\ added'[c] = A /\ removed'[c] = R
  <1> USE DEF PlacesIInv, Leaves
  <1>1. /\ todo[c] \in Seq(Flushes) /\ todo[c] # <<>> /\ stage[c] = "open"
        /\ todo' = [todo EXCEPT ![c] = Tail(todo[c])]
        /\ UNCHANGED <<stage, task, rows>>
    BY DEF Flushed, Typed
  <1>2. /\ added'[c] = A /\ removed'[c] = R /\ todo'[c] = Tail(todo[c])
        /\ \A d \in TenancyCalls : d # c =>
            added'[d] = added[d] /\ removed'[d] = removed[d] /\ todo'[d] = todo[d]
    BY <1>1 DEF Typed
  <1>3. /\ Tail(todo[c]) \in Seq(Flushes)
        /\ Plan(c, Tail(todo[c])) /\ Follows(Tail(todo[c]), A)
        /\ \A i \in DOMAIN Tail(todo[c]) :
            Tail(todo[c])[i] = todo[c][i + 1] /\ i + 1 \in DOMAIN todo[c]
    <2> HIDE DEF PlacesIInv
    <2>1. Plan(c, todo[c]) /\ Follows(todo[c], added[c])
      BY DEF PlacesIInv, Planned
    <2> QED
      BY <1>1, <2>1, RestFollows
  <1>4. Typed'
    BY <1>1, <1>2, <1>3 DEF Typed
  <1>5. Planned'
    BY <1>2, <1>3 DEF Planned
  <1>6. Quiet'
    BY <1>1, <1>2 DEF Quiet
  <1>7. UpdatesOnly'
    <2> SUFFICES ASSUME NEW d \in TenancyCalls, stage[d] = "open", task[d][1] = "update_workspace"
                 PROVE  /\ \A i \in DOMAIN todo'[d] : todo'[d][i].do # "insert"
                        /\ \A r \in added'[d] : r.id # d
      BY <1>1 DEF UpdatesOnly
    <2>1. CASE d # c
      BY <2>1, <1>2 DEF UpdatesOnly
    <2>2. CASE d = c
      <3>1. Head(todo[c]) = todo[c][1] /\ 1 \in DOMAIN todo[c]
        BY <1>1
      <3> QED
        BY <2>2, <3>1, <1>2, <1>3 DEF UpdatesOnly
    <2> QED
      BY <2>1, <2>2
  <1>8. Committed' /\ OnePerPlace' /\ MadeWithAnswer'
    BY <1>1 DEF Committed, OnePerPlace, MadeWithAnswer
  <1> QED
    BY <1>2, <1>4, <1>5, <1>6, <1>7, <1>8
LEMMA HeadFlush ==
    ASSUME PlacesIInv, NEW c \in TenancyCalls, Flushed(c)
    PROVE  /\ stage[c] = "open"
           /\ Head(todo[c]) \in Flushes
           /\ Head(todo[c]) = todo[c][1] /\ 1 \in DOMAIN todo[c]
           /\ UNCHANGED <<stage, task, rows>>
           /\ added[c] \in SUBSET AnyRow /\ removed[c] \in SUBSET AnyRow
           /\ \A r \in rows : r.id # c
  <1>1. /\ stage[c] = "open" /\ todo[c] # <<>>
        /\ UNCHANGED <<stage, task, rows>>
    BY DEF Flushed
  <1>2. /\ todo[c] \in Seq(Flushes)
        /\ added[c] \in SUBSET AnyRow /\ removed[c] \in SUBSET AnyRow
    BY DEF PlacesIInv, Typed
  <1>3. Head(todo[c]) \in Flushes /\ Head(todo[c]) = todo[c][1] /\ 1 \in DOMAIN todo[c]
    BY <1>1, <1>2
  <1>4. \A r \in rows : r.id # c
    BY <1>1 DEF PlacesIInv, Committed
  <1> QED
    BY <1>1, <1>2, <1>3, <1>4

LEMMA InsertKeeps ==
    ASSUME PlacesIInv, NEW c \in TenancyCalls, InsertFlush(c)
    PROVE  PlacesIInv'
  <1> DEFINE f == Head(todo[c])
             A == added[c] \cup f.rows
  <1>1. /\ Flushed(c) /\ f.do = "insert"
        /\ added' = [added EXCEPT ![c] = A] /\ removed' = removed
        /\ \A r \in f.rows :
            /\ \A q \in rows \ removed[c] : ~SamePlace(r, q)
            /\ \A d \in TenancyCalls : d # c => \A q \in added[d] : ~SamePlace(r, q)
    BY DEF InsertFlush, NoOtherIn, HeldByOthers, Held
  <1>2. /\ f.rows \in SUBSET AnyRow
        /\ Adds(f) = {r.table : r \in f.rows}
    BY <1>1, HeadFlush DEF Flushes, Adds
  <1>3. /\ A \in SUBSET AnyRow
        /\ removed' = [removed EXCEPT ![c] = removed[c]]
    BY <1>1, <1>2, HeadFlush DEF PlacesIInv, Typed
  <1>4. /\ \A r \in f.rows : r.id = c
        /\ \A r, q \in f.rows : r.table = q.table => r = q
        /\ \A r \in added[c], q \in f.rows : r.table # q.table
    <2>1. f = todo[c][1] /\ 1 \in DOMAIN todo[c]
      BY <1>1, HeadFlush
    <2>2. Plan(c, todo[c]) /\ Follows(todo[c], added[c])
      BY DEF PlacesIInv, Planned
    <2>3. \A r \in added[c] : r.table \notin Adds(f)
      BY <2>1, <2>2 DEF Follows
    <2> QED
      BY <2>1, <2>2, <2>3, <1>1, <1>2 DEF Plan, OwnRows
  <1>5. \A r \in A : r.table \in Adds(f) \/ \E q \in added[c] : r.table = q.table
    BY <1>2
  <1>6. /\ Typed' /\ Planned' /\ Quiet' /\ Committed' /\ UpdatesOnly'
        /\ OnePerPlace' /\ MadeWithAnswer'
        /\ \A d \in TenancyCalls : d # c => added'[d] = added[d]
        /\ added'[c] = A
    <2>1. Leaves(c, A, removed[c])
      BY <1>1, <1>3, <1>5, HeadFlush DEF Leaves
    <2> HIDE DEF A
    <2> QED
      BY <2>1, FlushKeeps
  <1> HIDE DEF f, A
  <1>7. Versions'
    BY <1>1, <1>4, <1>6, HeadFlush DEF PlacesIInv, Versions, A
  <1>8. OnePerKey'
    BY <1>1, <1>4, <1>6, HeadFlush DEF PlacesIInv, OnePerKey, SameRow, A
  <1>9. PlacesKept'
    <2>1. \A r, q \in A : SamePlace(r, q) => r = q
      BY <1>4 DEF PlacesIInv, PlacesKept, SamePlace, A
    <2>2. \A r \in A, q \in rows \ removed[c] : ~SamePlace(r, q)
      BY <1>1 DEF PlacesIInv, PlacesKept, A
    <2>3. \A d \in TenancyCalls : d # c => \A r \in A, q \in added[d] :
            ~SamePlace(r, q) /\ ~SamePlace(q, r)
      BY <1>1 DEF PlacesIInv, PlacesKept, SamePlace, A
    <2> QED
      BY <2>1, <2>2, <2>3, <1>1, <1>6, HeadFlush DEF PlacesIInv, PlacesKept
  <1> QED
    BY <1>6, <1>7, <1>8, <1>9 DEF PlacesIInv

LEMMA UpdateKeeps ==
    ASSUME PlacesIInv, NEW c \in TenancyCalls, UpdateFlush(c)
    PROVE  PlacesIInv'
  <1> DEFINE f == Head(todo[c])
             A == added[c] \cup Found(f)
             R == removed[c] \cup Found(f)
  <1>1. /\ Flushed(c) /\ f.do = "update" /\ Free(c, f)
        /\ added' = [added EXCEPT ![c] = A]
        /\ removed' = [removed EXCEPT ![c] = R]
    BY DEF UpdateFlush
  <1>2. Found(f) \subseteq rows /\ \A r \in Found(f) : r.table = f.table /\ r.id = f.id
    BY DEF Found, Table
  <1>3. A \in SUBSET AnyRow /\ R \in SUBSET AnyRow /\ Adds(f) = {f.table}
    BY <1>1, <1>2, HeadFlush DEF PlacesIInv, Typed, Adds
  <1>4. \A r \in added[c] : r.table # f.table
    BY <1>1, <1>3, HeadFlush DEF PlacesIInv, Planned, Follows
  <1>5. \A d \in TenancyCalls : d # c =>
            \A r \in Found(f), q \in added[d] \cup removed[d] : ~SameRow(r, q) /\ ~SameRow(q, r)
    BY <1>1, <1>2 DEF Free, HeldByOthers, Held, SameRow
  <1>6. /\ Typed' /\ Planned' /\ Quiet' /\ Committed' /\ UpdatesOnly'
        /\ OnePerPlace' /\ MadeWithAnswer'
        /\ \A d \in TenancyCalls : d # c => added'[d] = added[d] /\ removed'[d] = removed[d]
        /\ added'[c] = A /\ removed'[c] = R
    <2>1. \A r \in A : r.table \in Adds(f) \/ \E q \in added[c] : r.table = q.table
      BY <1>2, <1>3
    <2>2. added[c] = {} => \A r, q \in A : SameRow(r, q)
      BY <1>2 DEF SameRow
    <2>3. (\A q \in added[c] : q.id # c) => \A r \in A : r.id # c
      BY <1>1, <1>2, HeadFlush
    <2>4. Leaves(c, A, R)
      BY <1>1, <1>3, <2>1, <2>2, <2>3 DEF Leaves
    <2> HIDE DEF A, R
    <2> QED
      BY <2>4, FlushKeeps
  <1> HIDE DEF f, A, R
  <1>7. Versions'
    <2>1. \A r \in A : r.id = c \/ \E q \in R : SameRow(r, q)
      BY DEF PlacesIInv, Versions, SameRow, A, R
    <2>2. R \subseteq rows
      BY <1>2 DEF PlacesIInv, Versions, R
    <2>3. \A d \in TenancyCalls : d # c => \A r \in R, q \in removed[d] :
            ~SameRow(r, q) /\ ~SameRow(q, r)
      BY <1>5 DEF PlacesIInv, Versions, SameRow, R
    <2> QED
      BY <2>1, <2>2, <2>3, <1>1, <1>6, HeadFlush DEF PlacesIInv, Versions
  <1>8. OnePerKey'
    <2>1. \A r, q \in A : SameRow(r, q) => r = q
      BY <1>2, <1>4 DEF PlacesIInv, OnePerKey, SameRow, A
    <2> QED
      BY <2>1, <1>1, <1>6, HeadFlush DEF PlacesIInv, OnePerKey
  <1>9. PlacesKept'
    <2>1. \A r, q \in A : SamePlace(r, q) => r = q
      BY <1>2, <1>4 DEF PlacesIInv, PlacesKept, OnePerPlace, SamePlace, A
    <2>2. \A r \in A, q \in rows \ R : ~SamePlace(r, q)
      BY <1>2 DEF PlacesIInv, PlacesKept, OnePerPlace, A, R
    <2>3. \A d \in TenancyCalls : d # c => \A r \in A, q \in added[d] :
            ~SamePlace(r, q) /\ ~SamePlace(q, r)
      <3> SUFFICES ASSUME NEW d \in TenancyCalls, d # c, NEW r \in Found(f), NEW q \in added[d]
                   PROVE  ~SamePlace(q, r)
        BY DEF PlacesIInv, PlacesKept, SamePlace, A
      <3>1. r \in rows \ removed[d]
        BY <1>2, <1>5 DEF SameRow
      <3> QED
        BY <3>1 DEF PlacesIInv, PlacesKept
    <2> QED
      BY <2>1, <2>2, <2>3, <1>1, <1>6, HeadFlush DEF PlacesIInv, PlacesKept
  <1> QED
    BY <1>6, <1>7, <1>8, <1>9 DEF PlacesIInv
LEMMA RenameKeeps ==
    ASSUME PlacesIInv, NEW c \in TenancyCalls, RenameFlush(c)
    PROVE  PlacesIInv'
  <1> DEFINE f == Head(todo[c])
             New(r) == Workspace(r.id, r.of, f.slug)
  <1>0. PICK r \in added[c] :
            /\ r.table = "workspace"
            /\ NoOtherIn(c, New(r)) /\ \A q \in HeldByOthers(c) : ~SamePlace(New(r), q)
            /\ added' = [added EXCEPT ![c] = (@ \ {r}) \cup {New(r)}]
    BY Zenon DEF RenameFlush
  <1>1. /\ Flushed(c) /\ f.do = "rename" /\ r.table = "workspace"
        /\ \A q \in rows \ removed[c] : ~SamePlace(New(r), q)
        /\ \A d \in TenancyCalls : d # c => \A q \in added[d] : ~SamePlace(New(r), q)
        /\ added' = [added EXCEPT ![c] = (added[c] \ {r}) \cup {New(r)}]
        /\ removed' = removed
    <2>1. Flushed(c) /\ f.do = "rename" /\ removed' = removed
      BY Zenon DEF RenameFlush
    <2> HIDE DEF New, f
    <2>2. \A q \in rows \ removed[c] : ~SamePlace(New(r), q)
      BY <1>0 DEF NoOtherIn
    <2>3. \A d \in TenancyCalls : d # c => \A q \in added[d] : ~SamePlace(New(r), q)
      BY <1>0 DEF HeldByOthers, Held
    <2>4. added' = [added EXCEPT ![c] = (added[c] \ {r}) \cup {New(r)}]
      BY <1>0
    <2> QED
      BY <1>0, <2>1, <2>2, <2>3, <2>4
  <1>2. added[c] = {r}
    <2>1. f = todo[c][1] /\ 1 \in DOMAIN todo[c]
      BY <1>1, HeadFlush
    <2>2. \A q \in added[c] : SameRow(r, q)
      BY <1>1, <2>1 DEF PlacesIInv, Planned, Follows
    <2> QED
      BY <2>2 DEF PlacesIInv, OnePerKey
  <1>3. New(r) \in AnyRow /\ SameRow(New(r), r)
    <2>1. r \in AnyRow /\ f.slug \in Slugs
      BY <1>1, HeadFlush DEF Flushes
    <2> QED
      BY <2>1, <1>1, RowsTyped DEF AnyRow, SameRow, Workspace, Row
  <1> HIDE DEF New
  <1>4. added' = [added EXCEPT ![c] = {New(r)}]
    BY <1>1, <1>2
  <1>5. removed' = [removed EXCEPT ![c] = removed[c]] /\ removed[c] \in SUBSET AnyRow
    BY <1>1 DEF PlacesIInv, Typed
  <1>6. Leaves(c, {New(r)}, removed[c])
    BY <1>1, <1>3, <1>4, <1>5 DEF Leaves, SameRow
  <1>7. /\ Typed' /\ Planned' /\ Quiet' /\ Committed' /\ UpdatesOnly'
        /\ OnePerPlace' /\ MadeWithAnswer'
        /\ \A d \in TenancyCalls : d # c => added'[d] = added[d]
        /\ added'[c] = {New(r)}
    BY <1>6, FlushKeeps
  <1>8. Versions' /\ OnePerKey'
    BY <1>1, <1>2, <1>3, <1>7, HeadFlush DEF PlacesIInv, Versions, OnePerKey, SameRow
  <1>9. PlacesKept'
    BY <1>1, <1>7, HeadFlush DEF PlacesIInv, PlacesKept, SamePlace
  <1> QED
    BY <1>7, <1>8, <1>9 DEF PlacesIInv

LEMMA DeleteKeeps ==
    ASSUME PlacesIInv, NEW c \in TenancyCalls, DeleteFlush(c)
    PROVE  PlacesIInv'
  <1> DEFINE f == Head(todo[c])
             R == removed[c] \cup Found(f)
  <1>1. /\ Flushed(c) /\ f.do = "delete" /\ Free(c, f)
        /\ removed' = [removed EXCEPT ![c] = R]
        /\ added' = added
    BY DEF DeleteFlush
  <1>2. Found(f) \subseteq rows /\ \A r \in Found(f) : r.table = f.table /\ r.id = f.id
    BY DEF Found, Table
  <1>3. \A d \in TenancyCalls : d # c =>
            \A r \in Found(f), q \in removed[d] : ~SameRow(r, q) /\ ~SameRow(q, r)
    BY <1>1, <1>2 DEF Free, HeldByOthers, Held, SameRow
  <1>4. Leaves(c, added[c], R)
    BY <1>1, <1>2, HeadFlush DEF PlacesIInv, Typed, Leaves
  <1> HIDE DEF R
  <1>5. /\ Typed' /\ Planned' /\ Quiet' /\ Committed' /\ UpdatesOnly'
        /\ OnePerPlace' /\ MadeWithAnswer'
        /\ \A d \in TenancyCalls : d # c => removed'[d] = removed[d]
        /\ removed'[c] = R
    BY <1>4, FlushKeeps
  <1>6. Versions'
    <2>1. \A r \in added[c] : r.id = c \/ \E q \in R : SameRow(r, q)
      BY DEF PlacesIInv, Versions, R
    <2>2. R \subseteq rows
      BY <1>2 DEF PlacesIInv, Versions, R
    <2>3. \A d \in TenancyCalls : d # c => \A r \in R, q \in removed[d] :
            ~SameRow(r, q) /\ ~SameRow(q, r)
      BY <1>3 DEF PlacesIInv, Versions, SameRow, R
    <2> QED
      BY <2>1, <2>2, <2>3, <1>1, <1>5, HeadFlush DEF PlacesIInv, Versions
  <1>7. OnePerKey'
    BY <1>1, HeadFlush DEF PlacesIInv, OnePerKey
  <1>8. PlacesKept'
    BY <1>1, <1>5, HeadFlush DEF PlacesIInv, PlacesKept, R
  <1> QED
    BY <1>5, <1>6, <1>7, <1>8 DEF PlacesIInv

-----------------------------------------------------------------------------
LEMMA CommitKeeps ==
    ASSUME PlacesIInv, NEW c \in TenancyCalls, Commit(c)
    PROVE  PlacesIInv'
  <1>1. /\ stage[c] = "open"
        /\ rows' = (rows \ removed[c]) \cup added[c]
        /\ stage' = [stage EXCEPT ![c] = AfterCommit(c)]
        /\ added' = [added EXCEPT ![c] = {}]
        /\ removed' = [removed EXCEPT ![c] = {}]
        /\ UNCHANGED <<task, todo>>
    BY DEF Commit
  <1>2. /\ AfterCommit(c) \in {"committed", "answered"}
        /\ AfterCommit(c) = "committed" => task[c][1] \in {"update_workspace", "invite_user"}
    BY DEF AfterCommit
  <1>3. /\ stage'[c] = AfterCommit(c) /\ added'[c] = {} /\ removed'[c] = {}
        /\ \A d \in TenancyCalls : d # c =>
            stage'[d] = stage[d] /\ added'[d] = added[d] /\ removed'[d] = removed[d]
    BY <1>1 DEF PlacesIInv, Typed
  <1>4. /\ \A r \in rows : r.id # c
        /\ \A r \in added[c] : r.id = c \/ \E q \in removed[c] : SameRow(r, q)
        /\ removed[c] \subseteq rows
    BY <1>1 DEF PlacesIInv, Committed, Versions
  <1>5. Typed'
    BY <1>1, <1>2, <1>3 DEF PlacesIInv, Typed
  <1>6. Planned' /\ Quiet' /\ UpdatesOnly'
    BY <1>1, <1>2, <1>3 DEF PlacesIInv, Planned, Follows, Quiet, UpdatesOnly
  <1>7. Committed'
    <2> SUFFICES ASSUME NEW r \in rows', r.id \in TenancyCalls
                 PROVE  stage'[r.id] \in {"committed", "answered", "lost"}
      BY DEF Committed
    <2>1. CASE r.id = c
      BY <2>1, <1>2, <1>3
    <2>2. CASE r.id # c
      <3>1. \E q \in rows : q.id = r.id
        BY <2>2, <1>1, <1>4 DEF SameRow
      <3> QED
        BY <3>1, <2>2, <1>3 DEF PlacesIInv, Committed
    <2> QED
      BY <2>1, <2>2
  <1>8. MadeWithAnswer'
    <2> SUFFICES ASSUME NEW r \in rows', r.id # Founder, stage'[r.id] # "answered"
                 PROVE  stage'[r.id] \in {"committed", "lost"} /\ task[r.id][1] = "invite_user"
      BY <1>1 DEF MadeWithAnswer
    <2>1. CASE r.id = c
      <3>1. r \in added[c] /\ stage'[c] = "committed"
        BY <2>1, <1>1, <1>2, <1>3, <1>4
      <3>2. task[c][1] # "update_workspace"
        BY <3>1, <2>1, <1>1 DEF PlacesIInv, UpdatesOnly
      <3> QED
        BY <3>1, <3>2, <2>1, <1>2, <1>3
    <2>2. CASE r.id # c
      <3>1. PICK q \in rows : q.id = r.id
        BY <2>2, <1>1, <1>4 DEF SameRow
      <3>2. r.id \in TenancyCalls
        BY <3>1 DEF PlacesIInv, Typed, AnyRow, Ids
      <3> QED
        BY <3>1, <3>2, <2>2, <1>3 DEF PlacesIInv, MadeWithAnswer
    <2> QED
      BY <2>1, <2>2
  <1>9. Versions'
    <2>1. \A d \in TenancyCalls : d # c => removed[d] \subseteq rows'
      BY <1>1 DEF PlacesIInv, Versions, SameRow
    <2> QED
      BY <2>1, <1>3 DEF PlacesIInv, Versions
  <1>10. OnePerKey'
    <2>1. \A r \in rows \ removed[c], q \in added[c] : ~SameRow(r, q) /\ ~SameRow(q, r)
      BY <1>4 DEF PlacesIInv, OnePerKey, SameRow
    <2> QED
      BY <2>1, <1>1, <1>3 DEF PlacesIInv, OnePerKey
  <1>11. PlacesKept'
    BY <1>1, <1>3 DEF PlacesIInv, PlacesKept, SamePlace
  <1>12. OnePerPlace'
    BY <1>1 DEF PlacesIInv, PlacesKept, OnePerPlace, SamePlace
  <1> QED
    BY <1>5, <1>6, <1>7, <1>8, <1>9, <1>10, <1>11, <1>12 DEF PlacesIInv

LEMMA RaiseKeeps ==
    ASSUME PlacesIInv, NEW c \in TenancyCalls, Raise(c)
    PROVE  PlacesIInv'
  <1>1. /\ stage[c] \in {"unlinked", "open", "committed"}
        /\ stage' = [stage EXCEPT ![c] = IF @ = "committed" THEN "lost" ELSE "raised"]
        /\ added' = [added EXCEPT ![c] = {}]
        /\ removed' = [removed EXCEPT ![c] = {}]
        /\ todo' = [todo EXCEPT ![c] = <<>>]
        /\ UNCHANGED <<task, rows>>
    BY DEF Raise
  <1>2. /\ stage'[c] = (IF stage[c] = "committed" THEN "lost" ELSE "raised")
        /\ added'[c] = {} /\ removed'[c] = {} /\ todo'[c] = <<>>
        /\ \A d \in TenancyCalls : d # c =>
            /\ stage'[d] = stage[d] /\ todo'[d] = todo[d]
            /\ added'[d] = added[d] /\ removed'[d] = removed[d]
    BY <1>1 DEF PlacesIInv, Typed
  <1>3. Typed'
    <2>1. <<>> \in Seq(Flushes)
      OBVIOUS
    <2> QED
      BY <2>1, <1>1, <1>2 DEF PlacesIInv, Typed
  <1>4. Planned'
    <2>1. Plan(c, <<>>) /\ Follows(<<>>, {})
      BY DEF Plan, Follows
    <2> QED
      BY <2>1, <1>2 DEF PlacesIInv, Planned
  <1>41. Quiet' /\ UpdatesOnly'
    BY <1>1, <1>2 DEF PlacesIInv, Quiet, UpdatesOnly
  <1>5. Committed'
    BY <1>1, <1>2 DEF PlacesIInv, Committed
  <1>6. MadeWithAnswer'
    BY <1>1, <1>2 DEF PlacesIInv, Typed, AnyRow, Ids, MadeWithAnswer
  <1>7. Versions' /\ OnePerKey' /\ PlacesKept' /\ OnePerPlace'
    BY <1>1, <1>2 DEF PlacesIInv, Versions, OnePerKey, PlacesKept, OnePerPlace
  <1> QED
    BY <1>3, <1>4, <1>41, <1>5, <1>6, <1>7 DEF PlacesIInv

LEMMA RefreshKeeps ==
    ASSUME PlacesIInv, NEW c \in TenancyCalls, Refresh(c)
    PROVE  PlacesIInv'
  <1>1. /\ stage[c] = "committed" /\ stage' = [stage EXCEPT ![c] = "answered"]
        /\ UNCHANGED <<task, todo, added, removed, rows>>
    BY DEF Refresh
  <1>2. stage'[c] = "answered" /\ \A d \in TenancyCalls : d # c => stage'[d] = stage[d]
    BY <1>1 DEF PlacesIInv, Typed
  <1>3. Typed' /\ Planned' /\ Quiet' /\ UpdatesOnly'
    BY <1>1, <1>2 DEF PlacesIInv, Typed, Planned, Plan, Follows, Quiet, UpdatesOnly
  <1>4. Committed'
    BY <1>1, <1>2 DEF PlacesIInv, Committed
  <1>5. MadeWithAnswer'
    BY <1>1, <1>2 DEF PlacesIInv, Typed, AnyRow, Ids, MadeWithAnswer
  <1>6. Versions' /\ OnePerKey' /\ PlacesKept' /\ OnePerPlace'
    BY <1>1 DEF PlacesIInv, Versions, OnePerKey, PlacesKept, OnePerPlace
  <1> QED
    BY <1>3, <1>4, <1>5, <1>6 DEF PlacesIInv
-----------------------------------------------------------------------------
\* Plans are put together flush by flush.
LEMMA OneFlush ==
    ASSUME NEW c, NEW f \in Flushes, f.do # "rename", OwnRows(c, f)
    PROVE  <<f>> \in Seq(Flushes) /\ Plan(c, <<f>>)
  BY DEF Plan

LEMMA OneMore ==
    ASSUME NEW c, NEW F \in Seq(Flushes), Plan(c, F), NEW f \in Flushes, OwnRows(c, f),
           \A i \in DOMAIN F : Adds(F[i]) \cap Adds(f) = {},
           f.do = "rename" => Len(F) = 1 /\ F[1].do = "update"
    PROVE  /\ Append(F, f) \in Seq(Flushes) /\ Plan(c, Append(F, f))
           /\ \A i \in DOMAIN Append(F, f) : Append(F, f)[i] = f \/ \E j \in DOMAIN F : Append(F, f)[i] = F[j]
  <1>1. /\ Append(F, f) \in Seq(Flushes)
        /\ \A i \in DOMAIN Append(F, f) :
            \/ i \in DOMAIN F /\ Append(F, f)[i] = F[i]
            \/ i = Len(F) + 1 /\ Append(F, f)[i] = f
        /\ \A i \in DOMAIN F : Append(F, f)[i] = F[i]
    OBVIOUS
  <1>2. ASSUME NEW i \in DOMAIN Append(F, f), NEW j \in DOMAIN Append(F, f), i # j
        PROVE  Adds(Append(F, f)[i]) \cap Adds(Append(F, f)[j]) = {}
    BY <1>1, <1>2 DEF Plan
  <1>3. \A i \in DOMAIN Append(F, f) : OwnRows(c, Append(F, f)[i])
    BY <1>1 DEF Plan
  <1>4. \A i \in DOMAIN Append(F, f) : Append(F, f)[i].do = "rename" =>
            i = 1 \/ (i = 2 /\ Append(F, f)[1].do = "update")
    <2> SUFFICES ASSUME NEW i \in DOMAIN Append(F, f), Append(F, f)[i].do = "rename"
                 PROVE  i = 1 \/ (i = 2 /\ Append(F, f)[1].do = "update")
      OBVIOUS
    <2>1. CASE i \in DOMAIN F
      <3>1. F[i].do = "rename" /\ Append(F, f)[1] = F[1]
        BY <2>1
      <3> QED
        BY <2>1, <3>1 DEF Plan
    <2>2. CASE i = Len(F) + 1
      <3>1. f.do = "rename"
        BY <2>2
      <3>2. Len(F) = 1 /\ F[1].do = "update" /\ 1 \in DOMAIN F
        BY <3>1
      <3>3. Append(F, f)[1] = F[1]
        BY <3>2, <1>1
      <3>4. i = 2
        BY <2>2, <3>2
      <3> QED
        BY <3>2, <3>3, <3>4
    <2> QED
      BY <2>1, <2>2, <1>1
  <1> QED
    BY <1>1, <1>2, <1>3, <1>4 DEF Plan

\* The kinds of flushes.
LEMMA FlushKinds ==
    ASSUME NEW c \in TenancyCalls, NEW i \in Ids
    PROVE  /\ \A r \in AnyRow : r.id = c =>
                /\ Insert({r}) \in Flushes /\ OwnRows(c, Insert({r}))
                /\ Insert({r}).do = "insert" /\ Adds(Insert({r})) = {r.table}
           /\ \A t \in Tables :
                /\ Update(t, i) \in Flushes /\ OwnRows(c, Update(t, i))
                /\ Update(t, i).do = "update" /\ Adds(Update(t, i)) = {t}
                /\ Delete(t, i) \in Flushes /\ OwnRows(c, Delete(t, i))
                /\ Delete(t, i).do = "delete" /\ Adds(Delete(t, i)) = {}
           /\ \A s \in Slugs :
                /\ Rename(s) \in Flushes /\ OwnRows(c, Rename(s))
                /\ Rename(s).do = "rename" /\ Adds(Rename(s)) = {}
  BY DEF Insert, Update, Delete, Rename, Flushes, OwnRows, Adds

\* The plans of the operations.
LEMMA InsertPlan ==
    ASSUME NEW c \in TenancyCalls, NEW r \in AnyRow, r.id = c
    PROVE  <<Insert({r})>> \in Seq(Flushes) /\ Plan(c, <<Insert({r})>>)
  BY FlushKinds, OneFlush DEF Ids

LEMMA UpdatePlan ==
    ASSUME NEW c \in TenancyCalls, NEW t \in Tables, NEW i \in Ids
    PROVE  /\ <<Update(t, i)>> \in Seq(Flushes) /\ Plan(c, <<Update(t, i)>>)
           /\ <<Delete(t, i)>> \in Seq(Flushes) /\ Plan(c, <<Delete(t, i)>>)
  BY FlushKinds, OneFlush

LEMMA TwoFlushes ==
    ASSUME NEW c, NEW f \in Flushes, NEW g \in Flushes, OwnRows(c, f), OwnRows(c, g),
           Adds(f) \cap Adds(g) = {}, f.do # "rename", g.do = "rename" => f.do = "update"
    PROVE  <<f, g>> \in Seq(Flushes) /\ Plan(c, <<f, g>>)
  <1>1. \A i \in {1, 2} : <<f, g>>[i] = IF i = 1 THEN f ELSE g
    OBVIOUS
  <1>2. DOMAIN <<f, g>> = {1, 2} /\ <<f, g>> \in Seq(Flushes)
    OBVIOUS
  <1> QED
    BY <1>1, <1>2 DEF Plan

LEMMA UpdateInsertPlan ==
    ASSUME NEW c \in TenancyCalls, NEW t \in Tables, NEW i \in Ids,
           NEW r \in AnyRow, r.id = c, r.table # t
    PROVE  /\ <<Update(t, i), Insert({r})>> \in Seq(Flushes)
           /\ Plan(c, <<Update(t, i), Insert({r})>>)
  <1>1. /\ Update(t, i) \in Flushes /\ OwnRows(c, Update(t, i))
        /\ Update(t, i).do = "update" /\ Adds(Update(t, i)) = {t}
    BY FlushKinds
  <1>2. /\ Insert({r}) \in Flushes /\ OwnRows(c, Insert({r}))
        /\ Insert({r}).do = "insert" /\ Adds(Insert({r})) = {r.table}
    BY FlushKinds DEF Ids
  <1> QED
    BY <1>1, <1>2, TwoFlushes

LEMMA RenamePlan ==
    ASSUME NEW c \in TenancyCalls, NEW i \in Ids, NEW s \in Slugs
    PROVE  /\ <<Update("workspace", i), Rename(s)>> \in Seq(Flushes)
           /\ Plan(c, <<Update("workspace", i), Rename(s)>>)
  <1>1. /\ Update("workspace", i) \in Flushes /\ OwnRows(c, Update("workspace", i))
        /\ Update("workspace", i).do = "update"
    BY FlushKinds DEF Tables
  <1>2. /\ Rename(s) \in Flushes /\ OwnRows(c, Rename(s)) /\ Adds(Rename(s)) = {}
    BY FlushKinds
  <1> QED
    BY <1>1, <1>2, TwoFlushes

\* A new account: three flushes into five tables.
LEMMA AccountPlan ==
    ASSUME NEW c \in TenancyCalls, NEW s \in Slugs \cup {c}, NEW e \in Emails
    PROVE  LET F == NewAccount(c, s, e)
           IN  /\ F \in Seq(Flushes) /\ Plan(c, F)
               /\ \A i \in DOMAIN F : Adds(F[i]) \subseteq Tables \ {"link"}
  <1> DEFINE f == Insert({Tenant(c, s), Workspace(c, c, "default"), Role(c, c)})
             g == Insert({User(c, e, c)})
             h == Insert({UserRole(c, c, c, c)})
  <1>1. /\ {Tenant(c, s), Workspace(c, c, "default"), Role(c, c)} \subseteq AnyRow
        /\ User(c, e, c) \in AnyRow /\ UserRole(c, c, c, c) \in AnyRow
    BY RowsTyped DEF Ids
  <1>2. f \in Flushes /\ OwnRows(c, f) /\ Adds(f) = {"tenant", "workspace", "role"} /\ f.do = "insert"
    BY <1>1 DEF Insert, Flushes, OwnRows, Adds, Tenant, Workspace, Role, Row
  <1>3. g \in Flushes /\ OwnRows(c, g) /\ Adds(g) = {"user"} /\ g.do = "insert"
    BY <1>1 DEF Insert, Flushes, OwnRows, Adds, User, Row
  <1>4. h \in Flushes /\ OwnRows(c, h) /\ Adds(h) = {"member"} /\ h.do = "insert"
    BY <1>1 DEF Insert, Flushes, OwnRows, Adds, UserRole, Row
  <1>5. NewAccount(c, s, e) = <<f, g, h>>
    BY DEF NewAccount
  <1> HIDE DEF f, g, h
  <1>6. <<f, g, h>> \in Seq(Flushes) /\ DOMAIN <<f, g, h>> = {1, 2, 3}
        /\ <<f, g, h>>[1] = f /\ <<f, g, h>>[2] = g /\ <<f, g, h>>[3] = h
    BY <1>2, <1>3, <1>4
  <1> DEFINE F == <<f, g, h>>
  <1> HIDE DEF F
  <1>7. F \in Seq(Flushes) /\ DOMAIN F = {1, 2, 3} /\ F[1] = f /\ F[2] = g /\ F[3] = h
    BY <1>6 DEF F
  <1>8. Plan(c, F) /\ \A i \in DOMAIN F : Adds(F[i]) \subseteq Tables \ {"link"}
    BY <1>2, <1>3, <1>4, <1>7 DEF Plan, Tables
  <1> QED
    BY <1>5, <1>7, <1>8 DEF F
-----------------------------------------------------------------------------
\* What the operations find in the tables.
LEMMA TableTyped ==
    ASSUME PlacesIInv, NEW t, NEW r \in Table(t)
    PROVE  r \in AnyRow /\ r.id \in Ids /\ r.of \in Ids
  BY DEF PlacesIInv, Typed, Table, AnyRow

LEMMA RefusedKeeps == ASSUME PlacesIInv, NEW c \in TenancyCalls, Refused(c) PROVE PlacesIInv'
  BY WaitKeeps DEF Refused

LEMMA OpenPlanKeeps ==
    ASSUME PlacesIInv, NEW c \in TenancyCalls, NEW op, NEW u, NEW F,
           Open(c, op, u, F), F \in Seq(Flushes), Plan(c, F),
           op = "update_workspace" => \A i \in DOMAIN F : F[i].do # "insert"
    PROVE  PlacesIInv'
  <1>1. <<op, u>>[1] = op
    OBVIOUS
  <1> QED
    BY <1>1, OpenKeeps DEF Open

LEMMA InsertOpenKeeps ==
    ASSUME PlacesIInv, NEW c \in TenancyCalls, NEW op, op # "update_workspace", NEW u,
           NEW r, r \in AnyRow, r.id = c, Open(c, op, u, <<Insert({r})>>)
    PROVE  PlacesIInv'
  <1>1. <<Insert({r})>> \in Seq(Flushes) /\ Plan(c, <<Insert({r})>>)
    BY InsertPlan
  <1> QED
    BY <1>1, OpenPlanKeeps

LEMMA RegisterKeeps ==
    ASSUME PlacesIInv, NEW c \in TenancyCalls, NEW e \in Emails, NEW s \in Slugs \cup {c},
           Register(c, e, s)
    PROVE  PlacesIInv'
  BY RefusedKeeps, AccountPlan, OpenPlanKeeps DEF Register

\* A known identity, an unknown one of a known e-mail, and a new account.
LEMMA SsoKeeps ==
    ASSUME PlacesIInv, NEW c \in TenancyCalls, SsoLogin(c)
    PROVE  PlacesIInv'
  <1>1. ASSUME NEW a \in Identities, NEW e \in Emails, SsoLink(c, a, e)
        PROVE  PlacesIInv'
    <2>1. CASE \E l \in Table("link") : l.key = a
      <3>1. PICK l \in Table("link") : Open(c, "sso", l.of, <<Update("user", l.of)>>)
        BY <1>1, <2>1 DEF SsoLink
      <3>2. l.of \in Ids /\ "user" \in Tables
        BY TableTyped DEF Tables
      <3> QED
        BY <3>1, <3>2, UpdatePlan, OpenPlanKeeps
    <2>2. CASE ~\E l \in Table("link") : l.key = a
      <3>1. /\ stage[c] = "idle" /\ stage' = [stage EXCEPT ![c] = "unlinked"]
            /\ task' = [task EXCEPT ![c] = <<a, e>>]
            /\ UNCHANGED <<todo, added, removed, rows>>
        BY <1>1, <2>2 DEF SsoLink
      <3>2. <<a, e>> \in Identities \X Emails
        BY <1>1
      <3> QED
        BY <3>1, <3>2, WaitKeeps
    <2> QED
      BY <2>1, <2>2
  <1>2. ASSUME SsoUser(c)
        PROVE  PlacesIInv'
    <2> DEFINE a == task[c][1]
               e == task[c][2]
               Linking(u) == Insert({OAuthAccount(c, a, u)})
    <2>1. a \in Identities /\ e \in Emails /\ stage[c] = "unlinked"
      BY <1>2 DEF SsoUser, PlacesIInv, Typed
    <2>2. \A u \in Ids :
            /\ OAuthAccount(c, a, u) \in AnyRow
            /\ OAuthAccount(c, a, u).id = c /\ OAuthAccount(c, a, u).table = "link"
      BY <2>1, RowsTyped DEF Ids, OAuthAccount, Row
    <2>3. \/ \E r \in Table("user") :
                /\ task' = [task EXCEPT ![c] = <<"sso", r.id>>]
                /\ todo' = [todo EXCEPT ![c] = <<Update("user", r.id)>> \o <<Linking(r.id)>>]
          \/ /\ task' = [task EXCEPT ![c] = <<"sso", c>>]
             /\ todo' = [todo EXCEPT ![c] = NewAccount(c, c, e) \o <<Linking(c)>>]
      BY <1>2 DEF SsoUser
    <2>4. stage' = [stage EXCEPT ![c] = "open"] /\ UNCHANGED <<added, removed, rows>>
      BY <1>2 DEF SsoUser
    <2>5. \A u : <<"sso", u>>[1] # "update_workspace"
      OBVIOUS
    <2>6. ASSUME NEW r \in Table("user"),
                 task' = [task EXCEPT ![c] = <<"sso", r.id>>],
                 todo' = [todo EXCEPT ![c] = <<Update("user", r.id)>> \o <<Linking(r.id)>>]
          PROVE  PlacesIInv'
      <3>1. r.id \in Ids /\ "user" \in Tables
        BY TableTyped DEF Tables
      <3> DEFINE F == <<Update("user", r.id)>>
      <3>2. /\ F \in Seq(Flushes) /\ Plan(c, F)
            /\ \A i \in DOMAIN F : Adds(F[i]) = {"user"}
        <4>1. Adds(Update("user", r.id)) = {"user"}
          BY <3>1, FlushKinds
        <4>2. DOMAIN F = {1} /\ F[1] = Update("user", r.id)
          OBVIOUS
        <4>3. F \in Seq(Flushes) /\ Plan(c, F)
          BY <3>1, UpdatePlan
        <4> HIDE DEF F
        <4> QED
          BY <4>1, <4>2, <4>3
      <3>3. /\ Linking(r.id) \in Flushes /\ OwnRows(c, Linking(r.id))
            /\ Adds(Linking(r.id)) = {"link"} /\ Linking(r.id).do = "insert"
        BY <3>1, <2>2, FlushKinds DEF Ids
      <3> HIDE DEF F, Linking
      <3>4. F \o <<Linking(r.id)>> = Append(F, Linking(r.id))
        BY <3>2, <3>3
      <3>5. Append(F, Linking(r.id)) \in Seq(Flushes) /\ Plan(c, Append(F, Linking(r.id)))
        BY <3>2, <3>3, OneMore
      <3> QED
        BY <2>1, <2>4, <2>5, <2>6, <3>4, <3>5, OpenKeeps DEF F
    <2>7. ASSUME task' = [task EXCEPT ![c] = <<"sso", c>>],
                 todo' = [todo EXCEPT ![c] = NewAccount(c, c, e) \o <<Linking(c)>>]
          PROVE  PlacesIInv'
      <3> DEFINE F == NewAccount(c, c, e)
      <3>1. /\ F \in Seq(Flushes) /\ Plan(c, F)
            /\ \A i \in DOMAIN F : Adds(F[i]) \subseteq Tables \ {"link"}
        BY <2>1, AccountPlan
      <3>2. /\ Linking(c) \in Flushes /\ OwnRows(c, Linking(c))
            /\ Adds(Linking(c)) = {"link"} /\ Linking(c).do = "insert"
        BY <2>2, FlushKinds DEF Ids
      <3> HIDE DEF F, Linking
      <3>3. F \o <<Linking(c)>> = Append(F, Linking(c))
        BY <3>1, <3>2
      <3>4. Append(F, Linking(c)) \in Seq(Flushes) /\ Plan(c, Append(F, Linking(c)))
        BY <3>1, <3>2, OneMore
      <3> QED
        BY <2>1, <2>4, <2>5, <2>7, <3>3, <3>4, OpenKeeps DEF F
    <2> QED
      BY <2>3, <2>6, <2>7
  <1> QED
    BY <1>1, <1>2 DEF SsoLogin
-----------------------------------------------------------------------------
LEMMA BeginAccountKeeps ==
    ASSUME PlacesIInv, NEW c \in TenancyCalls, BeginAccount(c)
    PROVE  PlacesIInv'
  <1> USE DEF Tables
  <1>1. ASSUME NEW s \in Slugs, CreateTenant(c, s) PROVE PlacesIInv'
    <2>1. Tenant(c, s) \in AnyRow /\ Tenant(c, s).id = c
      BY RowsTyped DEF Ids, Tenant, Row
    <2> QED
      BY <1>1, <2>1, RefusedKeeps, InsertOpenKeeps DEF CreateTenant
  <1>2. ASSUME NEW w \in Table("workspace"), UpdateWorkspace(c, w.id) PROVE PlacesIInv'
    <2>1. w.id \in Ids
      BY TableTyped
    <2>2. CASE Open(c, "update_workspace", w.id, <<Update("workspace", w.id)>>)
      <3>1. \A i \in DOMAIN <<Update("workspace", w.id)>> : <<Update("workspace", w.id)>>[i].do # "insert"
        BY DEF Update
      <3> QED
        BY <2>1, <2>2, <3>1, UpdatePlan, OpenPlanKeeps
    <2>3. ASSUME NEW s \in Slugs,
                 Open(c, "update_workspace", w.id, <<Update("workspace", w.id), Rename(s)>>)
          PROVE  PlacesIInv'
      <3> DEFINE F == <<Update("workspace", w.id), Rename(s)>>
      <3>1. \A i \in DOMAIN F : F[i].do # "insert"
        BY DEF Update, Rename
      <3>2. F \in Seq(Flushes) /\ Plan(c, F)
        BY <2>1, RenamePlan
      <3> HIDE DEF F
      <3> QED
        BY <2>3, <3>1, <3>2, OpenPlanKeeps DEF F
    <2> QED
      BY <1>2, <2>2, <2>3 DEF UpdateWorkspace
  <1>3. ASSUME NEW t \in Table("tenant"), NEW s \in Slugs, CreateWorkspace(c, t.id, s) PROVE PlacesIInv'
    <2>1. Workspace(c, t.id, s) \in AnyRow /\ Workspace(c, t.id, s).id = c
      BY TableTyped, RowsTyped DEF Ids, Workspace, Row
    <2> QED
      BY <1>3, <2>1, RefusedKeeps, InsertOpenKeeps DEF CreateWorkspace
  <1>4. ASSUME NEW e \in Emails, NEW w \in Table("workspace"), InviteUser(c, e, w) PROVE PlacesIInv'
    <2>1. PICK r \in Table("role") :
            \/ \E u \in Table("user") :
                \/ Refused(c)
                \/ Open(c, "invite_user", u.id, <<Insert({UserRole(c, u.id, r.id, w.id)})>>)
            \/ Open(c, "invite_user", c, <<Insert({PendingInvitation(c, w.id)})>>)
      BY <1>4 DEF InviteUser
    <2>2. /\ PendingInvitation(c, w.id) \in AnyRow /\ PendingInvitation(c, w.id).id = c
          /\ \A u \in Table("user") : /\ UserRole(c, u.id, r.id, w.id) \in AnyRow
                                       /\ UserRole(c, u.id, r.id, w.id).id = c
      BY TableTyped, RowsTyped DEF Ids, UserRole, PendingInvitation, Row
    <2> QED
      BY <2>1, <2>2, RefusedKeeps, InsertOpenKeeps
  <1>5. ASSUME NEW u \in Table("user"), NEW w \in Table("workspace"), RemoveUser(c, u.id, w.id) PROVE PlacesIInv'
    <2>1. CASE Refused(c)
      BY <2>1, RefusedKeeps
    <2>2. ASSUME NEW r \in RolesOf(u.id, w.id),
                 Open(c, "remove_user", u.id, <<Delete("member", r.id)>>)
          PROVE  PlacesIInv'
      <3>1. r.id \in Ids
        BY TableTyped DEF RolesOf
      <3> QED
        BY <2>2, <3>1, UpdatePlan, OpenPlanKeeps
    <2> QED
      BY <1>5, <2>1, <2>2 DEF RemoveUser
  <1>6. ASSUME NEW u \in Table("user"), NEW w \in Table("workspace"), AssignRole(c, u.id, w.id) PROVE PlacesIInv'
    <2>1. PICK r \in Table("role") :
            Open(c, "assign_role", u.id, <<Insert({UserRole(c, u.id, r.id, w.id)})>>)
      BY <1>6 DEF AssignRole
    <2>2. UserRole(c, u.id, r.id, w.id) \in AnyRow /\ UserRole(c, u.id, r.id, w.id).id = c
      BY TableTyped, RowsTyped DEF Ids, UserRole, Row
    <2> QED
      BY <2>1, <2>2, InsertOpenKeeps
  <1> QED
    BY <1>1, <1>2, <1>3, <1>4, <1>5, <1>6, RegisterKeeps DEF BeginAccount

LEMMA BeginKeysKeeps ==
    ASSUME PlacesIInv, NEW c \in TenancyCalls, BeginKeys(c)
    PROVE  PlacesIInv'
  <1> USE DEF Tables
  <1>1. PICK u \in Table("user") :
            CreateApiKey(c, u.id) \/ RevokeApiKey(c, u.id) \/ DeleteUserData(c, u.id)
    BY DEF BeginKeys
  <1>2. u.id \in Ids
    BY TableTyped
  <1>3. CASE CreateApiKey(c, u.id)
    <2>1. ApiKey(c, u.id) \in AnyRow /\ ApiKey(c, u.id).id = c
      BY <1>2, RowsTyped DEF Ids, ApiKey, Row
    <2> QED
      BY <1>3, <2>1, InsertOpenKeeps DEF CreateApiKey
  <1>4. CASE RevokeApiKey(c, u.id)
    <2>1. PICK k \in Table("key") :
            Open(c, "revoke_api_key", u.id, <<Update("key", k.id), Insert({Revoked(c, k.id)})>>)
      BY <1>4 DEF RevokeApiKey
    <2>2. k.id \in Ids /\ Revoked(c, k.id) \in AnyRow
          /\ Revoked(c, k.id).id = c /\ Revoked(c, k.id).table = "revoked"
      BY TableTyped, RowsTyped DEF Ids, Revoked, Row
    <2> DEFINE F == <<Update("key", k.id), Insert({Revoked(c, k.id)})>>
    <2>3. F \in Seq(Flushes) /\ Plan(c, F)
      BY <2>2, UpdateInsertPlan
    <2> HIDE DEF F
    <2> QED
      BY <2>1, <2>3, OpenPlanKeeps DEF F
  <1>5. CASE DeleteUserData(c, u.id)
    <2>1. Open(c, "delete_user_data", u.id, <<Update("user", u.id), Insert({Deactivated(c, u.id)})>>)
      BY <1>5 DEF DeleteUserData
    <2>2. Deactivated(c, u.id) \in AnyRow
          /\ Deactivated(c, u.id).id = c /\ Deactivated(c, u.id).table = "deactivated"
      BY <1>2, RowsTyped DEF Ids, Deactivated, Row
    <2> DEFINE F == <<Update("user", u.id), Insert({Deactivated(c, u.id)})>>
    <2>3. F \in Seq(Flushes) /\ Plan(c, F)
      BY <1>2, <2>2, UpdateInsertPlan
    <2> HIDE DEF F
    <2> QED
      BY <2>1, <2>3, OpenPlanKeeps DEF F
  <1> QED
    BY <1>1, <1>3, <1>4, <1>5

-----------------------------------------------------------------------------
LEMMA TenancyNextIInv == PlacesIInv /\ [TenancyNext]_tenancyVars => PlacesIInv'
  <1> SUFFICES ASSUME PlacesIInv, [TenancyNext]_tenancyVars PROVE PlacesIInv'
    OBVIOUS
  <1>1. CASE UNCHANGED tenancyVars
    BY <1>1 DEF tenancyVars, PlacesIInv, Typed, Planned, Plan, OwnRows, Follows, Quiet, Committed, UpdatesOnly,
       Versions, OnePerKey, PlacesKept, OnePerPlace, MadeWithAnswer
  <1>2. ASSUME NEW c \in TenancyCalls, Proceed(c) PROVE PlacesIInv'
    BY <1>2, InsertKeeps, UpdateKeeps, RenameKeeps, DeleteKeeps, CommitKeeps,
       RefreshKeeps, RaiseKeeps DEF Proceed, Flush
  <1> QED
    BY <1>1, <1>2, BeginAccountKeeps, SsoKeeps, BeginKeysKeeps
       DEF TenancyNext, AccountsNext, KeysNext

LEMMA TenancySpecIInv == TenancySpec => []PlacesIInv
  BY TenancyInitIInv, TenancyNextIInv, PTL DEF TenancySpec

\* The unique indexes decide where the checks before the INSERTs do not see
\* each other, for any number of calls that overlap in any way.
THEOREM PlacesAreUnique == TenancySpec => []OnePerPlace
  <1>1. PlacesIInv => OnePerPlace
    BY DEF PlacesIInv
  <1> QED
    BY <1>1, TenancySpecIInv, PTL

\* Rows and stages are what they are declared to be.
THEOREM TenancyTyped == TenancySpec => []TenancyTypeOK
  <1>1. PlacesIInv => TenancyTypeOK
    BY DEF PlacesIInv, Typed, TenancyTypeOK, AnyRow, Ids, Held
  <1> QED
    BY <1>1, TenancySpecIInv, PTL
-----------------------------------------------------------------------------
(***************************************************************************)
(* Accounts come whole and stay so.  The rows that a call brings, those it *)
(* has flushed and those its flushes have still to insert, stay the same   *)
(* from its first flush to its commit, so that what they are together can  *)
(* be said when the call begins: a user comes with a tenant, a workspace,  *)
(* a role and a membership of its own.  A committed row goes only when a   *)
(* new version of it comes, or when it is a membership that its call is    *)
(* there to remove.                                                        *)
(***************************************************************************)
InsertedBy(F) == UNION {F[i].rows : i \in {j \in DOMAIN F : F[j].do = "insert"}}
Brought(c, F, A) == {r \in A \cup InsertedBy(F) : r.id = c}

Whole(c, op, R) ==
    /\ \A u \in R : u.table = "user" =>
        /\ u.of = c
        /\ \A t \in {"tenant", "workspace", "role", "member"} : \E r \in R : r.table = t /\ r.of = c
    /\ \A t \in R : t.table = "tenant" =>
        op = "create_tenant" \/ \E u \in R : u.table = "user"

Brings == \A c \in TenancyCalls : stage[c] = "open" =>
    Whole(c, task[c][1], Brought(c, todo[c], added[c]))

\* Versions of one row.
SameOwner(r, q) == SameRow(r, q) /\ r.of = q.of

Replaced == \A c \in TenancyCalls :
    /\ \A q \in added[c] : q.id = c \/ \E r \in removed[c] : SameOwner(q, r)
    /\ \A r \in removed[c] :
        \/ \E q \in added[c] : SameOwner(q, r)
        \/ r.table = "member" /\ task[c] = <<"remove_user", r.of>>

\* What a call x is to delete is a membership of the user that it is about; the
\* call that made this one is over, so that no other row gets its key.
Removes(x, f) == f.do = "delete" =>
    /\ f.table = "member"
    /\ f.id \in TenancyCalls => stage[f.id] \in {"committed", "answered", "lost"}
    /\ \A r \in Table("member") : r.id = f.id => x = <<"remove_user", r.of>>

Deletes == \A c \in TenancyCalls : stage[c] = "open" =>
    \A i \in DOMAIN todo[c] : Removes(task[c], todo[c][i])

AccountsIInv == PlacesIInv /\ Brings /\ Replaced /\ Deletes /\ AccountsWhole

-----------------------------------------------------------------------------
LEMMA AccountsInitIInv == TenancyInit => AccountsIInv
  <1> SUFFICES ASSUME TenancyInit PROVE AccountsIInv
    OBVIOUS
  <1> USE TenancyAssumption DEF TenancyInit
  <1>1. PlacesIInv
    BY TenancyInitIInv
  <1>2. Brings /\ Replaced /\ Deletes
    BY DEF Brings, Replaced, Deletes
  <1>3. AccountsWhole
    <2>1. \A r \in rows : r.id = Founder /\ r.of = Founder
      BY DEF Tenant, Workspace, Role, User, UserRole, Row
    <2>2. \A t \in {"tenant", "workspace", "role", "user", "member"} : \E r \in rows : r.table = t
      BY DEF Tenant, Workspace, Role, User, UserRole, Row
    <2> HIDE DEF TenancyInit
    <2>3. \A t \in {"tenant", "workspace", "role", "user", "member"} :
            \E r \in Table(t) : r.id = Founder /\ r.of = Founder
      BY <2>1, <2>2 DEF Table
    <2> QED
      BY <2>1, <2>3 DEF AccountsWhole, Table, ListWorkspaces, GetRoles
  <1> QED
    BY <1>1, <1>2, <1>3 DEF AccountsIInv

\* What it says does not change with other tasks and stages than those of calls
\* that are over.
LEMMA WholeStays ==
    ASSUME AccountsIInv, rows' = rows,
           \A d \in TenancyCalls : stage[d] \in {"committed", "answered", "lost"} => task'[d] = task[d],
           \A d \in TenancyCalls : stage[d] = "answered" => stage'[d] = "answered"
    PROVE  AccountsWhole'
  <1>1. Table("user")' = Table("user") /\ Table("tenant")' = Table("tenant")
    BY DEF Table
  <1>2. ASSUME NEW u \in Table("user")
        PROVE  /\ (\E t \in Table("tenant") : t.id = u.of)'
               /\ (\E w \in ListWorkspaces(u.of) : w.id = u.id)'
               /\ (GetRoles(u.of) # {})'
    BY DEF AccountsIInv, AccountsWhole, Table, ListWorkspaces, GetRoles
  <1>3. ASSUME NEW u \in Table("user")
        PROVE  \/ \E r \in Table("member")' : r.id = u.id /\ r.of = u.id
               \/ \E d \in TenancyCalls : task'[d] = <<"remove_user", u.id>> /\ stage'[d] = "answered"
    <2>1. CASE \E r \in Table("member") : r.id = u.id /\ r.of = u.id
      BY <2>1 DEF Table
    <2>2. ASSUME NEW d \in TenancyCalls, task[d] = <<"remove_user", u.id>>, stage[d] = "answered"
          PROVE  task'[d] = <<"remove_user", u.id>> /\ stage'[d] = "answered"
      BY <2>2
    <2> QED
      BY <2>1, <2>2 DEF AccountsIInv, AccountsWhole
  <1>4. ASSUME NEW t \in Table("tenant")
        PROVE  \/ \E u \in Table("user")' : u.of = t.id
               \/ t.id # Founder /\ task'[t.id][1] = "create_tenant"
    <2>1. t.id # Founder => task'[t.id] = task[t.id]
      BY DEF AccountsIInv, PlacesIInv, Typed, AnyRow, Ids, Committed, Table
    <2> QED
      BY <1>1, <2>1 DEF AccountsIInv, AccountsWhole
  <1> QED
    BY <1>1, <1>2, <1>3, <1>4 DEF AccountsWhole

\* A call that begins has flushed nothing.
LEMMA OpenAccounts ==
    ASSUME AccountsIInv, PlacesIInv', NEW c \in TenancyCalls, stage[c] \in {"idle", "unlinked"},
           NEW F, NEW x, Whole(c, x[1], Brought(c, F, {})),
           \A i \in DOMAIN F : Removes(x, F[i]),
           stage' = [stage EXCEPT ![c] = "open"],
           task' = [task EXCEPT ![c] = x],
           todo' = [todo EXCEPT ![c] = F],
           UNCHANGED <<added, removed, rows>>
    PROVE  AccountsIInv'
  <1>1. /\ stage'[c] = "open" /\ task'[c] = x /\ todo'[c] = F
        /\ added[c] = {} /\ removed[c] = {}
        /\ \A d \in TenancyCalls : d # c =>
            stage'[d] = stage[d] /\ task'[d] = task[d] /\ todo'[d] = todo[d]
    BY DEF AccountsIInv, PlacesIInv, Typed, Quiet
  <1>2. Brings'
    <2> SUFFICES ASSUME NEW d \in TenancyCalls, stage'[d] = "open"
                 PROVE  Whole(d, task'[d][1], Brought(d, todo'[d], added[d]))
      BY DEF Brings
    <2>1. CASE d = c
      BY <2>1, <1>1
    <2>2. CASE d # c
      BY <2>2, <1>1 DEF AccountsIInv, Brings
    <2> QED
      BY <2>1, <2>2
  <1>3. Replaced'
    BY <1>1 DEF AccountsIInv, Replaced
  <1>4. Deletes'
    <2> SUFFICES ASSUME NEW d \in TenancyCalls, stage'[d] = "open", NEW i \in DOMAIN todo'[d]
                 PROVE  Removes(task[d], todo[d][i])'
      BY DEF Deletes
    <2>1. Removes(task'[d], todo'[d][i])
      BY <1>1 DEF AccountsIInv, Deletes
    <2> QED
      BY <2>1, <1>1 DEF Removes, Table
  <1>5. AccountsWhole'
    BY <1>1, WholeStays
  <1> QED
    BY <1>2, <1>3, <1>4, <1>5 DEF AccountsIInv

\* A call that waits or is refused is not open.
LEMMA WaitAccounts ==
    ASSUME AccountsIInv, PlacesIInv', NEW c \in TenancyCalls, stage[c] \in {"idle", "unlinked", "committed"},
           stage'[c] # "open",
           \A d \in TenancyCalls : d # c =>
                stage'[d] = stage[d] /\ task'[d] = task[d] /\ todo'[d] = todo[d],
           stage[c] = "idle" \/ task' = task,
           stage[c] = "committed" => stage'[c] \in {"committed", "answered", "lost"},
           \A d \in TenancyCalls : added'[d] = added[d] /\ removed'[d] = removed[d],
           rows' = rows
    PROVE  AccountsIInv'
  <1>1. added[c] = {} /\ removed[c] = {}
    BY DEF AccountsIInv, PlacesIInv, Quiet
  <1>2. Brings' /\ Replaced'
    BY <1>1 DEF AccountsIInv, Brings, Replaced
  <1>3. Deletes'
    <2> SUFFICES ASSUME NEW d \in TenancyCalls, stage'[d] = "open", NEW i \in DOMAIN todo'[d]
                 PROVE  Removes(task[d], todo[d][i])'
      BY DEF Deletes
    <2>1. d # c /\ Removes(task'[d], todo'[d][i])
      BY DEF AccountsIInv, Deletes
    <2> QED
      BY <2>1 DEF Removes, Table
  <1>4. AccountsWhole'
    BY WholeStays
  <1> QED
    BY <1>2, <1>3, <1>4 DEF AccountsIInv
-----------------------------------------------------------------------------
\* Most operations make neither users nor tenants, and delete nothing.
Plain(f) ==
    /\ f.do # "delete"
    /\ f.do = "insert" => \A r \in f.rows : r.table \notin {"user", "tenant"}

LEMMA PlainFlushes ==
    ASSUME NEW F, \A i \in DOMAIN F : Plain(F[i]), NEW c, NEW x
    PROVE  Whole(c, x[1], Brought(c, F, {})) /\ \A i \in DOMAIN F : Removes(x, F[i])
  <1>1. \A r \in Brought(c, F, {}) : r.table \notin {"user", "tenant"}
    BY DEF Brought, InsertedBy, Plain
  <1> QED
    BY <1>1 DEF Whole, Removes, Plain

LEMMA OpenPlain ==
    ASSUME AccountsIInv, PlacesIInv', NEW c \in TenancyCalls, NEW op, NEW u, NEW F,
           Open(c, op, u, F), \A i \in DOMAIN F : Plain(F[i])
    PROVE  AccountsIInv'
  <1>1. Whole(c, <<op, u>>[1], Brought(c, F, {})) /\ \A i \in DOMAIN F : Removes(<<op, u>>, F[i])
    BY PlainFlushes
  <1> QED
    BY <1>1, OpenAccounts DEF Open

LEMMA RefusedAccounts ==
    ASSUME AccountsIInv, PlacesIInv', NEW c \in TenancyCalls, Refused(c)
    PROVE  AccountsIInv'
  <1>1. /\ stage[c] = "idle" /\ stage' = [stage EXCEPT ![c] = "refused"]
        /\ UNCHANGED <<task, todo, added, removed, rows>>
    BY DEF Refused
  <1>2. stage'[c] = "refused" /\ \A d \in TenancyCalls : d # c => stage'[d] = stage[d]
    BY <1>1 DEF AccountsIInv, PlacesIInv, Typed
  <1> QED
    BY <1>1, <1>2, WaitAccounts

\* Updates, renames and the inserts of a row of another table are plain.
LEMMA PlainKinds ==
    /\ \A t, i : Plain(Update(t, i))
    /\ \A s : Plain(Rename(s))
    /\ \A r : r.table \notin {"user", "tenant"} => Plain(Insert({r}))
  BY DEF Plain, Update, Rename, Insert

LEMMA PlainLists ==
    /\ \A f : Plain(f) => \A i \in DOMAIN <<f>> : Plain(<<f>>[i])
    /\ \A f, g : Plain(f) /\ Plain(g) => \A i \in DOMAIN <<f, g>> : Plain(<<f, g>>[i])
  <1>1. ASSUME NEW f, Plain(f), NEW i \in DOMAIN <<f>> PROVE Plain(<<f>>[i])
    <2>1. <<f>>[i] = f
      OBVIOUS
    <2> QED
      BY <1>1, <2>1
  <1>2. ASSUME NEW f, NEW g, Plain(f), Plain(g), NEW i \in DOMAIN <<f, g>> PROVE Plain(<<f, g>>[i])
    <2>1. <<f, g>>[i] = f \/ <<f, g>>[i] = g
      OBVIOUS
    <2> QED
      BY <1>2, <2>1
  <1> QED
    BY <1>1, <1>2

\* One list after another.
LEMMA TwoInOne ==
    ASSUME NEW f, NEW g
    PROVE  <<f>> \o <<g>> = <<f, g>>
  <1>1. <<f>> \in Seq({f, g}) /\ <<g>> \in Seq({f, g}) /\ <<f, g>> \in Seq({f, g})
    OBVIOUS
  <1>2. /\ Len(<<f>> \o <<g>>) = 2 /\ (<<f>> \o <<g>>)[1] = f /\ (<<f>> \o <<g>>)[2] = g
        /\ <<f>> \o <<g>> \in Seq({f, g})
    BY <1>1
  <1>3. Len(<<f, g>>) = 2 /\ <<f, g>>[1] = f /\ <<f, g>>[2] = g
    OBVIOUS
  <1>4. \A i \in 1 .. 2 : (<<f>> \o <<g>>)[i] = <<f, g>>[i]
    BY <1>2, <1>3
  <1> QED
    BY <1>1, <1>2, <1>3, <1>4, SeqEqual

\* An account's flushes, with or without a link after them, bring all of it.
LEMMA AccountBrings ==
    ASSUME NEW c, NEW s, NEW e, NEW F, NEW op,
           LET P == NewAccount(c, s, e)
           IN  \/ F = P
               \/ \E a : F = P \o <<Insert({OAuthAccount(c, a, c)})>>
    PROVE  /\ Whole(c, op, Brought(c, F, {}))
           /\ \A x : \A i \in DOMAIN F : Removes(x, F[i])
  <1> DEFINE f == Insert({Tenant(c, s), Workspace(c, c, "default"), Role(c, c)})
             g == Insert({User(c, e, c)})
             h == Insert({UserRole(c, c, c, c)})
             R == Brought(c, F, {})
  <1>1. NewAccount(c, s, e) = <<f, g, h>>
    BY DEF NewAccount
  <1>2. /\ {1, 2, 3} \subseteq DOMAIN F /\ F[1] = f /\ F[2] = g /\ F[3] = h
        /\ \A i \in DOMAIN F : i \in {1, 2, 3} \/ \E a : F[i] = Insert({OAuthAccount(c, a, c)})
    <2> HIDE DEF f, g, h
    <2>1. CASE F = <<f, g, h>>
      BY <2>1
    <2>2. ASSUME NEW a, F = <<f, g, h>> \o <<Insert({OAuthAccount(c, a, c)})>>
          PROVE  /\ DOMAIN F = {1, 2, 3, 4} /\ F[1] = f /\ F[2] = g /\ F[3] = h
                 /\ F[4] = Insert({OAuthAccount(c, a, c)})
      BY <2>2
    <2>3. ASSUME NEW a, F = <<f, g, h>> \o <<Insert({OAuthAccount(c, a, c)})>>
          PROVE  \A i \in DOMAIN F : i \in {1, 2, 3} \/ F[i] = Insert({OAuthAccount(c, a, c)})
      BY <2>2, <2>3
    <2> QED
      BY <1>1, <2>1, <2>2, <2>3
  <1>3. /\ \A i \in DOMAIN F : F[i].do = "insert"
        /\ \A i \in DOMAIN F : \A r \in F[i].rows : r.table = "user" => r.of = c
        /\ \A i \in DOMAIN F : \A r \in F[i].rows : r.id = c
    BY <1>2 DEF Insert, Tenant, Workspace, Role, User, UserRole, OAuthAccount, Row
  <1>4. \A r \in R : r.table = "user" => r.of = c
    BY <1>3 DEF Brought, InsertedBy
  <1>5. \A i \in DOMAIN F : \A r \in F[i].rows : r \in R
    BY <1>3 DEF Brought, InsertedBy
  <1> HIDE DEF R
  <1>6. {Tenant(c, s), Workspace(c, c, "default"), Role(c, c), User(c, e, c), UserRole(c, c, c, c)} \subseteq R
    <2>1. \A r \in f.rows \cup g.rows \cup h.rows : r \in R
      BY <1>2, <1>5
    <2> QED
      BY <2>1 DEF Insert
  <1>7. \A t \in {"tenant", "workspace", "role", "member", "user"} : \E r \in R : r.table = t /\ r.of = c
    BY <1>6 DEF Tenant, Workspace, Role, User, UserRole, Row
  <1>8. Whole(c, op, R)
    BY <1>4, <1>7 DEF Whole
  <1>9. \A x : \A i \in DOMAIN F : Removes(x, F[i])
    BY <1>3 DEF Removes
  <1> QED
    BY <1>8, <1>9 DEF R

LEMMA RegisterAccounts ==
    ASSUME AccountsIInv, PlacesIInv', NEW c \in TenancyCalls, NEW e, NEW s, Register(c, e, s)
    PROVE  AccountsIInv'
  <1>1. CASE Refused(c)
    BY <1>1, RefusedAccounts
  <1>2. CASE Open(c, "register", c, NewAccount(c, s, e))
    <2> DEFINE F == NewAccount(c, s, e)
    <2>1. /\ Whole(c, <<"register", c>>[1], Brought(c, F, {}))
          /\ \A i \in DOMAIN F : Removes(<<"register", c>>, F[i])
      BY AccountBrings
    <2> HIDE DEF F
    <2> QED
      BY <1>2, <2>1, OpenAccounts DEF Open, F
  <1> QED
    BY <1>1, <1>2 DEF Register

LEMMA SsoAccounts ==
    ASSUME AccountsIInv, PlacesIInv', NEW c \in TenancyCalls, SsoLogin(c)
    PROVE  AccountsIInv'
  <1>1. ASSUME NEW a \in Identities, NEW e \in Emails, SsoLink(c, a, e)
        PROVE  AccountsIInv'
    <2>1. CASE \E l \in Table("link") : l.key = a
      <3>1. PICK l \in Table("link") : Open(c, "sso", l.of, <<Update("user", l.of)>>)
        BY <1>1, <2>1 DEF SsoLink
      <3>2. \A i \in DOMAIN <<Update("user", l.of)>> : Plain(<<Update("user", l.of)>>[i])
        BY PlainKinds, PlainLists
      <3> QED
        BY <3>1, <3>2, OpenPlain
    <2>2. CASE ~\E l \in Table("link") : l.key = a
      <3>1. /\ stage[c] = "idle" /\ stage' = [stage EXCEPT ![c] = "unlinked"]
            /\ task' = [task EXCEPT ![c] = <<a, e>>]
            /\ UNCHANGED <<todo, added, removed, rows>>
        BY <1>1, <2>2 DEF SsoLink
      <3>2. /\ stage'[c] = "unlinked"
            /\ \A d \in TenancyCalls : d # c => stage'[d] = stage[d] /\ task'[d] = task[d]
        BY <3>1 DEF AccountsIInv, PlacesIInv, Typed
      <3> QED
        BY <3>1, <3>2, WaitAccounts
    <2> QED
      BY <2>1, <2>2
  <1>2. ASSUME SsoUser(c) PROVE AccountsIInv'
    <2> DEFINE Linking(u) == Insert({OAuthAccount(c, task[c][1], u)})
    <2>1. /\ stage[c] = "unlinked"
          /\ stage' = [stage EXCEPT ![c] = "open"] /\ UNCHANGED <<added, removed, rows>>
      BY <1>2 DEF SsoUser
    <2>2. \/ \E u : /\ task' = [task EXCEPT ![c] = <<"sso", u>>]
                    /\ todo' = [todo EXCEPT ![c] = <<Update("user", u)>> \o <<Linking(u)>>]
          \/ /\ task' = [task EXCEPT ![c] = <<"sso", c>>]
             /\ todo' = [todo EXCEPT ![c] = NewAccount(c, c, task[c][2]) \o <<Linking(c)>>]
      BY <1>2 DEF SsoUser
    <2>3. ASSUME NEW u, task' = [task EXCEPT ![c] = <<"sso", u>>],
                 todo' = [todo EXCEPT ![c] = <<Update("user", u)>> \o <<Linking(u)>>]
          PROVE  AccountsIInv'
      <3> DEFINE F == <<Update("user", u), Linking(u)>>
                 x == <<"sso", u>>
      <3>1. Linking(u).do = "insert" /\ Plain(Linking(u))
        BY PlainKinds DEF OAuthAccount, Row, Insert
      <3>2. \A i \in DOMAIN F : Plain(F[i])
        <4> HIDE DEF Linking
        <4> QED
          BY <3>1, PlainKinds, PlainLists
      <3>3. <<Update("user", u)>> \o <<Linking(u)>> = F
        BY TwoInOne
      <3> HIDE DEF F
      <3>4. Whole(c, x[1], Brought(c, F, {})) /\ \A i \in DOMAIN F : Removes(x, F[i])
        BY <3>2, PlainFlushes
      <3>5. task' = [task EXCEPT ![c] = x] /\ todo' = [todo EXCEPT ![c] = F]
        BY <2>3, <3>3
      <3> HIDE DEF x
      <3> QED
        BY <2>1, <3>4, <3>5, OpenAccounts
    <2>4. ASSUME task' = [task EXCEPT ![c] = <<"sso", c>>],
                 todo' = [todo EXCEPT ![c] = NewAccount(c, c, task[c][2]) \o <<Linking(c)>>]
          PROVE  AccountsIInv'
      <3> DEFINE F == NewAccount(c, c, task[c][2]) \o <<Linking(c)>>
                 x == <<"sso", c>>
      <3>1. Whole(c, x[1], Brought(c, F, {})) /\ \A i \in DOMAIN F : Removes(x, F[i])
        BY AccountBrings
      <3> HIDE DEF F, x
      <3> QED
        BY <2>1, <2>4, <3>1, OpenAccounts DEF F, x
    <2> QED
      BY <2>2, <2>3, <2>4
  <1> QED
    BY <1>1, <1>2 DEF SsoLogin

\* A membership that is removed is one of that user's; its call is over.
LEMMA RemoveAccounts ==
    ASSUME AccountsIInv, PlacesIInv', NEW c \in TenancyCalls, NEW u, NEW w, RemoveUser(c, u, w)
    PROVE  AccountsIInv'
  <1>1. CASE Refused(c)
    BY <1>1, RefusedAccounts
  <1>2. ASSUME NEW r \in RolesOf(u, w), Open(c, "remove_user", u, <<Delete("member", r.id)>>)
        PROVE  AccountsIInv'
    <2> DEFINE f == Delete("member", r.id)
               F == <<f>>
               x == <<"remove_user", u>>
    <2>1. r \in rows /\ r.table = "member" /\ r.of = u
      BY DEF RolesOf, Table
    <2>2. \A q \in Table("member") : q.id = r.id => q = r
      BY <2>1 DEF AccountsIInv, PlacesIInv, OnePerKey, SameRow, Table
    <2>3. r.id \in TenancyCalls => stage[r.id] \in {"committed", "answered", "lost"}
      BY <2>1 DEF AccountsIInv, PlacesIInv, Committed
    <2>4. f.do = "delete" /\ f.table = "member" /\ f.id = r.id
      BY DEF Delete
    <2> HIDE DEF f, x
    <2>5. Removes(x, f)
      BY <2>1, <2>2, <2>3, <2>4 DEF Removes, x
    <2>6. \A i \in DOMAIN F : F[i] = f
      OBVIOUS
    <2>7. InsertedBy(F) = {}
      BY <2>4, <2>6 DEF InsertedBy
    <2>8. Whole(c, x[1], Brought(c, F, {}))
      BY <2>7 DEF Whole, Brought
    <2> HIDE DEF F
    <2> QED
      BY <1>2, <2>5, <2>6, <2>8, OpenAccounts DEF Open, F, f, x
  <1> QED
    BY <1>1, <1>2 DEF RemoveUser

LEMMA BeginAccounts ==
    ASSUME AccountsIInv, PlacesIInv', NEW c \in TenancyCalls, BeginAccount(c)
    PROVE  AccountsIInv'
  <1>0. ASSUME NEW op, NEW u, NEW r, r.table \notin {"user", "tenant"}, Open(c, op, u, <<Insert({r})>>)
        PROVE  AccountsIInv'
    BY <1>0, PlainKinds, PlainLists, OpenPlain
  <1>1. ASSUME NEW s \in Slugs, CreateTenant(c, s) PROVE AccountsIInv'
    <2>1. CASE Open(c, "create_tenant", c, <<Insert({Tenant(c, s)})>>)
      <3> DEFINE F == <<Insert({Tenant(c, s)})>>
                 x == <<"create_tenant", c>>
      <3>1. \A i \in DOMAIN F : F[i] = Insert({Tenant(c, s)})
        OBVIOUS
      <3> HIDE DEF F
      <3>2. \A i \in DOMAIN F : F[i].do = "insert" /\ \A r \in F[i].rows : r.table = "tenant"
        BY <3>1 DEF Insert, Tenant, Row
      <3>3. \A r \in Brought(c, F, {}) : r.table = "tenant"
        BY <3>2 DEF Brought, InsertedBy
      <3>4. Whole(c, x[1], Brought(c, F, {})) /\ \A i \in DOMAIN F : Removes(x, F[i])
        BY <3>2, <3>3 DEF Whole, Removes
      <3> HIDE DEF x
      <3> QED
        BY <2>1, <3>4, OpenAccounts DEF Open, F, x
    <2> QED
      BY <1>1, <2>1, RefusedAccounts DEF CreateTenant
  <1>2. ASSUME NEW w, UpdateWorkspace(c, w) PROVE AccountsIInv'
    <2>1. CASE Open(c, "update_workspace", w, <<Update("workspace", w)>>)
      BY <2>1, PlainKinds, PlainLists, OpenPlain
    <2>2. ASSUME NEW s, Open(c, "update_workspace", w, <<Update("workspace", w), Rename(s)>>)
          PROVE  AccountsIInv'
      <3> DEFINE F == <<Update("workspace", w), Rename(s)>>
      <3>1. \A i \in DOMAIN F : Plain(F[i])
        BY PlainKinds, PlainLists
      <3> HIDE DEF F
      <3> QED
        BY <2>2, <3>1, OpenPlain DEF F
    <2> QED
      BY <1>2, <2>1, <2>2 DEF UpdateWorkspace
  <1>3. ASSUME NEW t, NEW s, CreateWorkspace(c, t, s) PROVE AccountsIInv'
    <2>1. Workspace(c, t, s).table = "workspace"
      BY DEF Workspace, Row
    <2> QED
      BY <1>3, <2>1, <1>0, RefusedAccounts DEF CreateWorkspace
  <1>4. ASSUME NEW e, NEW w, InviteUser(c, e, w) PROVE AccountsIInv'
    <2>1. \A i, u, r, v : UserRole(i, u, r, v).table = "member" /\ PendingInvitation(i, v).table = "invitation"
      BY DEF UserRole, PendingInvitation, Row
    <2>2. PICK r \in Table("role") :
            \/ Refused(c)
            \/ \E u : Open(c, "invite_user", u.id, <<Insert({UserRole(c, u.id, r.id, w.id)})>>)
            \/ Open(c, "invite_user", c, <<Insert({PendingInvitation(c, w.id)})>>)
      BY <1>4 DEF InviteUser
    <2> QED
      BY <2>1, <2>2, <1>0, RefusedAccounts
  <1>5. ASSUME NEW u, NEW w, AssignRole(c, u, w) PROVE AccountsIInv'
    <2>1. \A r : UserRole(c, u, r, w).table = "member"
      BY DEF UserRole, Row
    <2> QED
      BY <1>5, <2>1, <1>0 DEF AssignRole
  <1> QED
    BY <1>1, <1>2, <1>3, <1>4, <1>5, RegisterAccounts, RemoveAccounts DEF BeginAccount

LEMMA BeginKeysAccounts ==
    ASSUME AccountsIInv, PlacesIInv', NEW c \in TenancyCalls, BeginKeys(c)
    PROVE  AccountsIInv'
  <1>1. /\ \A i, u : ApiKey(i, u).table = "key"
        /\ \A i, k : Revoked(i, k).table = "revoked" /\ Deactivated(i, k).table = "deactivated"
    BY DEF ApiKey, Revoked, Deactivated, Row
  <1>2. ASSUME NEW op, NEW u, NEW F, Open(c, op, u, F),
               \/ \E r : F = <<Insert({r})>> /\ r.table \notin {"user", "tenant"}
               \/ \E t, i, r : F = <<Update(t, i), Insert({r})>> /\ r.table \notin {"user", "tenant"}
        PROVE  AccountsIInv'
    <2>1. \A i \in DOMAIN F : Plain(F[i])
      BY <1>2, PlainKinds, PlainLists
    <2> QED
      BY <1>2, <2>1, OpenPlain
  <1>3. PICK u : CreateApiKey(c, u) \/ RevokeApiKey(c, u) \/ DeleteUserData(c, u)
    BY DEF BeginKeys
  <1>4. CASE CreateApiKey(c, u)
    BY <1>4, <1>1, <1>2 DEF CreateApiKey
  <1>5. CASE RevokeApiKey(c, u)
    <2>1. PICK k : Open(c, "revoke_api_key", u, <<Update("key", k.id), Insert({Revoked(c, k.id)})>>)
      BY <1>5 DEF RevokeApiKey
    <2> QED
      BY <2>1, <1>1, <1>2
  <1>6. CASE DeleteUserData(c, u)
    BY <1>6, <1>1, <1>2 DEF DeleteUserData
  <1> QED
    BY <1>3, <1>4, <1>5, <1>6
-----------------------------------------------------------------------------
\* What a flush inserts was to be inserted before it.
LEMMA RestInserts ==
    ASSUME NEW F \in Seq(Flushes), F # <<>>
    PROVE  InsertedBy(F) = (IF Head(F).do = "insert" THEN Head(F).rows ELSE {}) \cup InsertedBy(Tail(F))
  <1>1. /\ Head(F) = F[1] /\ 1 \in DOMAIN F
        /\ \A i \in DOMAIN Tail(F) : Tail(F)[i] = F[i + 1] /\ i + 1 \in DOMAIN F
        /\ \A i \in DOMAIN F : i = 1 \/ (i - 1 \in DOMAIN Tail(F) /\ Tail(F)[i - 1] = F[i])
    OBVIOUS
  <1>2. ASSUME NEW r \in InsertedBy(F)
        PROVE  r \in (IF Head(F).do = "insert" THEN Head(F).rows ELSE {}) \cup InsertedBy(Tail(F))
    <2>1. PICK i \in DOMAIN F : F[i].do = "insert" /\ r \in F[i].rows
      BY DEF InsertedBy
    <2>2. CASE i = 1
      BY <2>1, <2>2, <1>1
    <2>3. CASE i - 1 \in DOMAIN Tail(F) /\ Tail(F)[i - 1] = F[i]
      BY <2>1, <2>3 DEF InsertedBy
    <2> QED
      BY <2>2, <2>3, <1>1
  <1>3. InsertedBy(Tail(F)) \subseteq InsertedBy(F)
    BY <1>1 DEF InsertedBy
  <1>4. Head(F).do = "insert" => Head(F).rows \subseteq InsertedBy(F)
    BY <1>1 DEF InsertedBy
  <1> QED
    BY <1>2, <1>3, <1>4

\* Rows of the same tables and owners are as whole.
LEMMA WholeAlike ==
    ASSUME NEW c, NEW op, NEW R, NEW Q, Whole(c, op, R),
           \A r \in R : \E q \in Q : q.table = r.table /\ q.of = r.of,
           \A q \in Q : \E r \in R : q.table = r.table /\ q.of = r.of
    PROVE  Whole(c, op, Q)
  <1>1. ASSUME NEW u \in Q, u.table = "user", NEW t \in {"tenant", "workspace", "role", "member"}
        PROVE  u.of = c /\ \E q \in Q : q.table = t /\ q.of = c
    <2>1. PICK v \in R : v.table = "user" /\ v.of = u.of
      BY <1>1
    <2>2. v.of = c /\ \E r \in R : r.table = t /\ r.of = c
      BY <2>1 DEF Whole
    <2> QED
      BY <2>1, <2>2
  <1>2. ASSUME NEW t \in Q, t.table = "tenant", op # "create_tenant"
        PROVE  \E u \in Q : u.table = "user"
    <2>1. PICK s \in R : s.table = "tenant"
      BY <1>2
    <2>2. PICK u \in R : u.table = "user"
      BY <1>2, <2>1 DEF Whole
    <2> QED
      BY <2>2
  <1> QED
    BY <1>1, <1>2 DEF Whole

\* What a flush has to show: the rows that its call brings are alike, and the
\* rows it holds are versions of each other.
Alike(R, Q) ==
    /\ \A r \in R : \E q \in Q : q.table = r.table /\ q.of = r.of
    /\ \A q \in Q : \E r \in R : q.table = r.table /\ q.of = r.of

Carries(c, A, R) ==
    /\ Flushed(c)
    /\ added' = [added EXCEPT ![c] = A] /\ removed' = [removed EXCEPT ![c] = R]
    /\ Alike(Brought(c, todo[c], added[c]), Brought(c, Tail(todo[c]), A))
    /\ \A q \in A : q.id = c \/ \E r \in R : SameOwner(q, r)
    /\ \A r \in R : \/ \E q \in A : SameOwner(q, r)
                    \/ r.table = "member" /\ task[c] = <<"remove_user", r.of>>

LEMMA FlushAccounts ==
    ASSUME AccountsIInv, PlacesIInv', NEW c \in TenancyCalls, NEW A, NEW R, Carries(c, A, R)
    PROVE  AccountsIInv'
  <1> USE DEF Carries
  <1>1. /\ todo[c] \in Seq(Flushes) /\ todo[c] # <<>> /\ stage[c] = "open"
        /\ UNCHANGED <<stage, task, rows>>
    BY DEF Flushed, AccountsIInv, PlacesIInv, Typed
  <1>2. /\ added'[c] = A /\ removed'[c] = R /\ todo'[c] = Tail(todo[c])
        /\ \A d \in TenancyCalls : d # c =>
            added'[d] = added[d] /\ removed'[d] = removed[d] /\ todo'[d] = todo[d]
    BY DEF Flushed, AccountsIInv, PlacesIInv, Typed
  <1>3. Brings'
    <2> SUFFICES ASSUME NEW d \in TenancyCalls, stage[d] = "open"
                 PROVE  Whole(d, task[d][1], Brought(d, todo'[d], added'[d]))
      BY <1>1 DEF Brings
    <2>1. Whole(d, task[d][1], Brought(d, todo[d], added[d]))
      BY DEF AccountsIInv, Brings
    <2>2. CASE d = c
      <3> DEFINE B == Brought(c, todo[c], added[c])
                 C == Brought(c, Tail(todo[c]), A)
      <3>1. Whole(c, task[c][1], B) /\ Alike(B, C)
        BY <2>1, <2>2
      <3> HIDE DEF B, C
      <3>2. Whole(c, task[c][1], C)
        BY <3>1, WholeAlike DEF Alike
      <3> QED
        BY <2>2, <3>2, <1>2 DEF C
    <2>3. CASE d # c
      BY <2>1, <2>3, <1>2
    <2> QED
      BY <2>2, <2>3
  <1>4. Replaced'
    <2> SUFFICES ASSUME NEW d \in TenancyCalls
                 PROVE  /\ \A q \in added'[d] : q.id = d \/ \E r \in removed'[d] : SameOwner(q, r)
                        /\ \A r \in removed'[d] :
                            \/ \E q \in added'[d] : SameOwner(q, r)
                            \/ r.table = "member" /\ task[d] = <<"remove_user", r.of>>
      BY <1>1 DEF Replaced
    <2>1. CASE d = c
      BY <2>1, <1>2
    <2>2. CASE d # c
      BY <2>2, <1>2 DEF AccountsIInv, Replaced
    <2> QED
      BY <2>1, <2>2
  <1>5. Deletes'
    <2> SUFFICES ASSUME NEW d \in TenancyCalls, stage[d] = "open", NEW i \in DOMAIN todo'[d]
                 PROVE  Removes(task[d], todo'[d][i])
      BY <1>1 DEF Deletes, Removes, Table
    <2>1. CASE d = c
      <3>1. Tail(todo[c])[i] = todo[c][i + 1] /\ i + 1 \in DOMAIN todo[c]
        BY <2>1, <1>1, <1>2
      <3> QED
        BY <2>1, <3>1, <1>2 DEF AccountsIInv, Deletes
    <2>2. CASE d # c
      BY <2>2, <1>2 DEF AccountsIInv, Deletes
    <2> QED
      BY <2>1, <2>2
  <1>6. AccountsWhole'
    BY <1>1, WholeStays
  <1> QED
    BY <1>3, <1>4, <1>5, <1>6 DEF AccountsIInv

\* A row is a version of itself.
LEMMA OwnerItself == \A r : SameOwner(r, r)
  BY DEF SameOwner, SameRow

LEMMA InsertAccounts ==
    ASSUME AccountsIInv, PlacesIInv', NEW c \in TenancyCalls, InsertFlush(c)
    PROVE  AccountsIInv'
  <1> DEFINE f == Head(todo[c])
             A == added[c] \cup f.rows
  <1>1. /\ Flushed(c) /\ f.do = "insert" /\ todo[c] # <<>>
        /\ added' = [added EXCEPT ![c] = A] /\ removed' = removed
    BY DEF InsertFlush, Flushed
  <1>2. todo[c] \in Seq(Flushes) /\ removed' = [removed EXCEPT ![c] = removed[c]]
    BY <1>1 DEF AccountsIInv, PlacesIInv, Typed
  <1>3. Brought(c, Tail(todo[c]), A) = Brought(c, todo[c], added[c])
    BY <1>1, <1>2, RestInserts DEF Brought
  <1>4. \A r \in f.rows : r.id = c
    <2>1. f = todo[c][1] /\ 1 \in DOMAIN todo[c]
      BY <1>1, <1>2
    <2> QED
      BY <2>1, <1>1 DEF AccountsIInv, PlacesIInv, Planned, Plan, OwnRows
  <1>5. /\ \A q \in A : q.id = c \/ \E r \in removed[c] : SameOwner(q, r)
        /\ \A r \in removed[c] : \/ \E q \in A : SameOwner(q, r)
                                 \/ r.table = "member" /\ task[c] = <<"remove_user", r.of>>
    BY <1>4 DEF AccountsIInv, Replaced
  <1>6. Carries(c, A, removed[c])
    BY <1>1, <1>2, <1>3, <1>5 DEF Carries, Alike
  <1> HIDE DEF A
  <1> QED
    BY <1>6, FlushAccounts

LEMMA UpdateAccounts ==
    ASSUME AccountsIInv, PlacesIInv', NEW c \in TenancyCalls, UpdateFlush(c)
    PROVE  AccountsIInv'
  <1> DEFINE f == Head(todo[c])
             A == added[c] \cup Found(f)
             R == removed[c] \cup Found(f)
  <1>1. /\ Flushed(c) /\ f.do = "update" /\ todo[c] # <<>>
        /\ added' = [added EXCEPT ![c] = A] /\ removed' = [removed EXCEPT ![c] = R]
    BY DEF UpdateFlush, Flushed
  <1>2. \A r \in Found(f) : r.id # c
    BY <1>1, HeadFlush DEF Found, Table, AccountsIInv
  <1>3. Brought(c, Tail(todo[c]), A) = Brought(c, todo[c], added[c])
    <2>1. todo[c] \in Seq(Flushes)
      BY DEF AccountsIInv, PlacesIInv, Typed
    <2> QED
      BY <2>1, <1>1, <1>2, RestInserts DEF Brought
  <1>4. /\ \A q \in A : q.id = c \/ \E r \in R : SameOwner(q, r)
        /\ \A r \in R : \/ \E q \in A : SameOwner(q, r)
                        \/ r.table = "member" /\ task[c] = <<"remove_user", r.of>>
    BY OwnerItself DEF AccountsIInv, Replaced
  <1>5. Carries(c, A, R)
    BY <1>1, <1>3, <1>4 DEF Carries, Alike
  <1> HIDE DEF A, R
  <1> QED
    BY <1>5, FlushAccounts

\* A rename replaces the one row that the call holds.
LEMMA RenameAccounts ==
    ASSUME AccountsIInv, PlacesIInv', NEW c \in TenancyCalls, RenameFlush(c)
    PROVE  AccountsIInv'
  <1> DEFINE f == Head(todo[c])
             New(r) == Workspace(r.id, r.of, f.slug)
  <1>1. PICK r \in added[c] :
            r.table = "workspace" /\ added' = [added EXCEPT ![c] = (@ \ {r}) \cup {New(r)}]
    BY Zenon DEF RenameFlush
  <1>2. Flushed(c) /\ f.do = "rename" /\ removed' = removed
    BY Zenon DEF RenameFlush
  <1>3. /\ New(r).table = "workspace" /\ New(r).id = r.id /\ New(r).of = r.of
    BY DEF Workspace, Row
  <1> DEFINE A == (added[c] \ {r}) \cup {New(r)}
  <1> HIDE DEF New
  <1>4. todo[c] \in Seq(Flushes) /\ todo[c] # <<>> /\ removed' = [removed EXCEPT ![c] = removed[c]]
    BY <1>2 DEF Flushed, AccountsIInv, PlacesIInv, Typed
  <1>5. InsertedBy(Tail(todo[c])) = InsertedBy(todo[c])
    BY <1>2, <1>4, RestInserts
  <1>6. Alike(Brought(c, todo[c], added[c]), Brought(c, Tail(todo[c]), A))
    <2>1. ASSUME NEW p \in Brought(c, todo[c], added[c])
          PROVE  \E q \in Brought(c, Tail(todo[c]), A) : q.table = p.table /\ q.of = p.of
      <3>1. CASE p = r
        BY <3>1, <1>1, <1>3 DEF Brought
      <3>2. CASE p # r
        BY <3>2, <1>5 DEF Brought
      <3> QED
        BY <3>1, <3>2
    <2>2. ASSUME NEW q \in Brought(c, Tail(todo[c]), A)
          PROVE  \E p \in Brought(c, todo[c], added[c]) : q.table = p.table /\ q.of = p.of
      <3>1. CASE q = New(r)
        BY <3>1, <1>1, <1>3 DEF Brought
      <3>2. CASE q # New(r)
        BY <3>2, <1>5 DEF Brought
      <3> QED
        BY <3>1, <3>2
    <2> QED
      BY <2>1, <2>2 DEF Alike
  <1>7. \A q : SameOwner(q, New(r)) <=> SameOwner(q, r)
    BY <1>1, <1>3 DEF SameOwner, SameRow
  <1>8. \A q : SameOwner(New(r), q) <=> SameOwner(r, q)
    BY <1>1, <1>3 DEF SameOwner, SameRow
  <1>9. /\ \A q \in A : q.id = c \/ \E p \in removed[c] : SameOwner(q, p)
        /\ \A p \in removed[c] : \/ \E q \in A : SameOwner(q, p)
                                 \/ p.table = "member" /\ task[c] = <<"remove_user", p.of>>
    BY <1>3, <1>8 DEF AccountsIInv, Replaced
  <1>10. Carries(c, A, removed[c])
    BY <1>1, <1>2, <1>4, <1>6, <1>9 DEF Carries
  <1> HIDE DEF A
  <1> QED
    BY <1>10, FlushAccounts

LEMMA DeleteAccounts ==
    ASSUME AccountsIInv, PlacesIInv', NEW c \in TenancyCalls, DeleteFlush(c)
    PROVE  AccountsIInv'
  <1> DEFINE f == Head(todo[c])
             R == removed[c] \cup Found(f)
  <1>1. /\ Flushed(c) /\ f.do = "delete" /\ todo[c] # <<>> /\ stage[c] = "open"
        /\ removed' = [removed EXCEPT ![c] = R] /\ added' = added
    BY DEF DeleteFlush, Flushed
  <1>2. todo[c] \in Seq(Flushes) /\ added' = [added EXCEPT ![c] = added[c]]
    BY <1>1 DEF AccountsIInv, PlacesIInv, Typed
  <1>3. Brought(c, Tail(todo[c]), added[c]) = Brought(c, todo[c], added[c])
    BY <1>1, <1>2, RestInserts DEF Brought
  <1>4. Removes(task[c], f)
    <2>1. f = todo[c][1] /\ 1 \in DOMAIN todo[c]
      BY <1>1, <1>2
    <2> QED
      BY <2>1, <1>1 DEF AccountsIInv, Deletes
  <1>5. \A r \in Found(f) : r.table = "member" /\ task[c] = <<"remove_user", r.of>>
    BY <1>1, <1>4 DEF Removes, Found, Table
  <1>6. /\ \A q \in added[c] : q.id = c \/ \E r \in R : SameOwner(q, r)
        /\ \A r \in R : \/ \E q \in added[c] : SameOwner(q, r)
                        \/ r.table = "member" /\ task[c] = <<"remove_user", r.of>>
    BY <1>5 DEF AccountsIInv, Replaced
  <1>7. Carries(c, added[c], R)
    BY <1>1, <1>2, <1>3, <1>6 DEF Carries, Alike
  <1> HIDE DEF R
  <1> QED
    BY <1>7, FlushAccounts
-----------------------------------------------------------------------------
LEMMA CommitAccounts ==
    ASSUME AccountsIInv, PlacesIInv', NEW c \in TenancyCalls, Commit(c)
    PROVE  AccountsIInv'
  <1>1. /\ stage[c] = "open" /\ todo[c] = <<>>
        /\ rows' = (rows \ removed[c]) \cup added[c]
        /\ stage' = [stage EXCEPT ![c] = AfterCommit(c)]
        /\ added' = [added EXCEPT ![c] = {}]
        /\ removed' = [removed EXCEPT ![c] = {}]
        /\ UNCHANGED <<task, todo>>
    BY DEF Commit
  <1>2. /\ stage'[c] = AfterCommit(c) /\ added'[c] = {} /\ removed'[c] = {}
        /\ stage'[c] \in {"committed", "answered"}
        /\ task[c][1] = "remove_user" => stage'[c] = "answered"
        /\ \A d \in TenancyCalls : d # c =>
            stage'[d] = stage[d] /\ added'[d] = added[d] /\ removed'[d] = removed[d]
    BY <1>1 DEF AccountsIInv, PlacesIInv, Typed, AfterCommit
  <1>3. \A r \in rows : \/ \E q \in rows' : SameOwner(q, r)
                        \/ r.table = "member" /\ task[c] = <<"remove_user", r.of>>
    BY <1>1, OwnerItself DEF AccountsIInv, Replaced
  <1>4. \A q \in rows' : (q \in added[c] /\ q.id = c) \/ \E r \in rows : SameOwner(q, r)
    <2>1. removed[c] \subseteq rows
      BY DEF AccountsIInv, PlacesIInv, Versions
    <2> QED
      BY <2>1, <1>1, OwnerItself DEF AccountsIInv, Replaced
  <1> DEFINE B == {r \in added[c] : r.id = c}
  <1>5. Whole(c, task[c][1], B) /\ B \subseteq rows'
    <2>1. InsertedBy(todo[c]) = {}
      BY <1>1 DEF InsertedBy
    <2>2. Whole(c, task[c][1], Brought(c, todo[c], added[c]))
      BY <1>1 DEF AccountsIInv, Brings
    <2> QED
      BY <1>1, <2>1, <2>2 DEF Brought
  <1>6. Brings' /\ Replaced'
    BY <1>1, <1>2 DEF AccountsIInv, Brings, Replaced
  <1>7. Deletes'
    <2> SUFFICES ASSUME NEW d \in TenancyCalls, stage'[d] = "open", NEW i \in DOMAIN todo[d]
                 PROVE  Removes(task[d], todo[d][i])'
      BY <1>1 DEF Deletes
    <2> DEFINE f == todo[d][i]
    <2>1. d # c /\ Removes(task[d], f)
      BY <1>2 DEF AccountsIInv, Deletes
    <2> HIDE DEF f
    <2>2. ASSUME NEW q \in rows', f.do = "delete", q.table = "member", q.id = f.id
          PROVE  task[d] = <<"remove_user", q.of>>
      <3>1. q.id # c
        BY <2>1, <2>2, <1>1 DEF Removes
      <3>2. PICK r \in rows : SameOwner(q, r)
        BY <3>1, <1>4
      <3> QED
        BY <2>1, <2>2, <3>2 DEF Removes, SameOwner, SameRow, Table
    <2>3. f.id \in TenancyCalls /\ stage[f.id] \in {"committed", "answered", "lost"}
            => stage'[f.id] \in {"committed", "answered", "lost"}
      BY <1>2
    <2>4. f.do = "delete" => f.table = "member" /\
            (f.id \in TenancyCalls => stage'[f.id] \in {"committed", "answered", "lost"})
      BY <2>1, <2>3 DEF Removes
    <2>5. UNCHANGED <<task, todo>>
      BY <1>1
    <2> QED
      BY <2>2, <2>4, <2>5 DEF Removes, Table, f
  <1> HIDE DEF B
  <1>8. \A t : \A r \in Table(t) : t # "member" => \E q \in Table(t)' : q.id = r.id /\ q.of = r.of
    BY <1>3 DEF Table, SameOwner, SameRow
  <1>9. \A t : \A q \in Table(t)' : (q \in B /\ q.table = t) \/ \E r \in Table(t) : q.id = r.id /\ q.of = r.of
    BY <1>4 DEF Table, SameOwner, SameRow, B
  <1>10. ASSUME NEW u \in Table("user")'
         PROVE  /\ \E t \in Table("tenant")' : t.id = u.of
                /\ \E w \in Table("workspace")' : w.of = u.of /\ w.id = u.id
                /\ \E r \in Table("role")' : r.of = u.of
                /\ \/ \E r \in Table("member")' : r.id = u.id /\ r.of = u.id
                   \/ \E d \in TenancyCalls : task[d] = <<"remove_user", u.id>> /\ stage'[d] = "answered"
    <2>1. CASE u \in B /\ u.table = "user"
      <3>1. u.of = c /\ u.id = c
        BY <2>1, <1>5 DEF Whole, B
      <3>2. \A t \in {"tenant", "workspace", "role", "member"} :
                \E r \in Table(t)' : r.id = c /\ r.of = c
        BY <2>1, <1>5 DEF Whole, Table, B
      <3> QED
        BY <3>1, <3>2
    <2>2. ASSUME NEW v \in Table("user"), u.id = v.id, u.of = v.of
          PROVE  /\ \E t \in Table("tenant")' : t.id = u.of
                 /\ \E w \in Table("workspace")' : w.of = u.of /\ w.id = u.id
                 /\ \E r \in Table("role")' : r.of = u.of
                 /\ \/ \E r \in Table("member")' : r.id = u.id /\ r.of = u.id
                    \/ \E d \in TenancyCalls : task[d] = <<"remove_user", u.id>> /\ stage'[d] = "answered"
      <3>1. /\ \E t \in Table("tenant") : t.id = v.of
            /\ \E w \in Table("workspace") : w.of = v.of /\ w.id = v.id
            /\ \E r \in Table("role") : r.of = v.of
        BY DEF AccountsIInv, AccountsWhole, ListWorkspaces, GetRoles
      <3>2. \E t \in Table("tenant")' : t.id = u.of
        BY <3>1, <2>2, <1>8
      <3>3. \E w \in Table("workspace")' : w.of = u.of /\ w.id = u.id
        BY <3>1, <2>2, <1>8
      <3>4. \E r \in Table("role")' : r.of = u.of
        BY <3>1, <2>2, <1>8
      <3>5. \/ \E r \in Table("member")' : r.id = u.id /\ r.of = u.id
            \/ \E d \in TenancyCalls : task[d] = <<"remove_user", u.id>> /\ stage'[d] = "answered"
        <4>1. ASSUME NEW d \in TenancyCalls, task[d] = <<"remove_user", v.id>>, stage[d] = "answered"
              PROVE  stage'[d] = "answered"
          BY <4>1, <1>1, <1>2
        <4>2. ASSUME NEW r \in Table("member"), r.id = v.id, r.of = v.id
              PROVE  \/ \E q \in Table("member")' : q.id = v.id /\ q.of = v.id
                     \/ task[c] = <<"remove_user", v.id>> /\ stage'[c] = "answered"
          <5>1. task[c] = <<"remove_user", v.id>> => task[c][1] = "remove_user"
            OBVIOUS
          <5>2. r \in rows /\ r.table = "member"
            BY DEF Table
          <5>3. CASE \E q \in rows' : SameOwner(q, r)
            BY <5>2, <5>3, <4>2 DEF Table, SameOwner, SameRow
          <5>4. CASE task[c] = <<"remove_user", r.of>>
            BY <5>1, <5>4, <4>2, <1>2
          <5> QED
            BY <5>2, <5>3, <5>4, <1>3
        <4>3. \/ \E r \in Table("member") : r.id = v.id /\ r.of = v.id
              \/ \E d \in TenancyCalls : task[d] = <<"remove_user", v.id>> /\ stage[d] = "answered"
          BY DEF AccountsIInv, AccountsWhole
        <4> QED
          BY <2>2, <4>1, <4>2, <4>3
      <3> QED
        BY <3>2, <3>3, <3>4, <3>5
    <2> QED
      BY <2>1, <2>2, <1>9
  <1>11. ASSUME NEW t \in Table("tenant")'
         PROVE  \/ \E u \in Table("user")' : u.of = t.id
                \/ t.id # Founder /\ task[t.id][1] = "create_tenant"
    <2>1. CASE t \in B /\ t.table = "tenant"
      <3>1. t.id = c /\ c # Founder
        BY <2>1, TenancyAssumption DEF B
      <3>2. task[c][1] = "create_tenant" \/ \E u \in B : u.table = "user"
        BY <2>1, <1>5 DEF Whole
      <3>3. \A u \in B : u.table = "user" => u.of = c /\ u \in Table("user")'
        BY <1>5 DEF Whole, Table
      <3> QED
        BY <3>1, <3>2, <3>3
    <2>2. ASSUME NEW v \in Table("tenant"), t.id = v.id
          PROVE  \/ \E u \in Table("user")' : u.of = t.id
                 \/ t.id # Founder /\ task[t.id][1] = "create_tenant"
      BY <2>2, <1>8 DEF AccountsIInv, AccountsWhole
    <2> QED
      BY <2>1, <2>2, <1>9
  <1>12. AccountsWhole'
    BY <1>1, <1>10, <1>11 DEF AccountsWhole, ListWorkspaces, GetRoles
  <1> QED
    BY <1>6, <1>7, <1>12 DEF AccountsIInv

LEMMA RefreshAccounts ==
    ASSUME AccountsIInv, PlacesIInv', NEW c \in TenancyCalls, Refresh(c)
    PROVE  AccountsIInv'
  <1>1. /\ stage[c] = "committed" /\ stage' = [stage EXCEPT ![c] = "answered"]
        /\ UNCHANGED <<task, todo, added, removed, rows>>
    BY DEF Refresh
  <1>2. stage'[c] = "answered" /\ \A d \in TenancyCalls : d # c => stage'[d] = stage[d]
    BY <1>1 DEF AccountsIInv, PlacesIInv, Typed
  <1> QED
    BY <1>1, <1>2, WaitAccounts

LEMMA RaiseAccounts ==
    ASSUME AccountsIInv, PlacesIInv', NEW c \in TenancyCalls, Raise(c)
    PROVE  AccountsIInv'
  <1>1. /\ stage[c] \in {"unlinked", "open", "committed"}
        /\ stage'[c] = (IF stage[c] = "committed" THEN "lost" ELSE "raised")
        /\ added'[c] = {} /\ removed'[c] = {}
        /\ \A d \in TenancyCalls : d # c => /\ stage'[d] = stage[d] /\ todo'[d] = todo[d]
                                            /\ added'[d] = added[d] /\ removed'[d] = removed[d]
        /\ UNCHANGED <<task, rows>>
    BY DEF Raise, AccountsIInv, PlacesIInv, Typed
  <1>2. Brings' /\ Replaced'
    BY <1>1 DEF AccountsIInv, Brings, Replaced
  <1>3. Deletes'
    <2> SUFFICES ASSUME NEW d \in TenancyCalls, stage'[d] = "open", NEW i \in DOMAIN todo'[d]
                 PROVE  Removes(task[d], todo[d][i])'
      BY DEF Deletes
    <2>1. d # c /\ Removes(task[d], todo'[d][i])
      BY <1>1 DEF AccountsIInv, Deletes
    <2> QED
      BY <2>1, <1>1 DEF Removes, Table
  <1>4. AccountsWhole'
    BY <1>1, WholeStays
  <1> QED
    BY <1>2, <1>3, <1>4 DEF AccountsIInv

LEMMA AccountsNextIInv == AccountsIInv /\ [TenancyNext]_tenancyVars => AccountsIInv'
  <1> SUFFICES ASSUME AccountsIInv, [TenancyNext]_tenancyVars PROVE AccountsIInv'
    OBVIOUS
  <1>1. PlacesIInv'
    BY TenancyNextIInv DEF AccountsIInv
  <1>2. CASE UNCHANGED tenancyVars
    <2>1. UNCHANGED <<stage, task, todo, added, removed, rows>>
      BY <1>2 DEF tenancyVars
    <2>2. Brings' /\ Replaced'
      BY <2>1 DEF AccountsIInv, Brings, Replaced
    <2>3. Deletes'
      BY <2>1 DEF AccountsIInv, Deletes, Removes, Table
    <2>4. AccountsWhole'
      BY <2>1, WholeStays
    <2> QED
      BY <1>1, <2>2, <2>3, <2>4 DEF AccountsIInv
  <1>3. ASSUME NEW c \in TenancyCalls, Proceed(c) PROVE AccountsIInv'
    BY <1>1, <1>3, InsertAccounts, UpdateAccounts, RenameAccounts, DeleteAccounts, CommitAccounts,
       RefreshAccounts, RaiseAccounts DEF Proceed, Flush
  <1> QED
    BY <1>1, <1>2, <1>3, BeginAccounts, SsoAccounts, BeginKeysAccounts
       DEF TenancyNext, AccountsNext, KeysNext

LEMMA AccountsSpecIInv == TenancySpec => []AccountsIInv
  BY AccountsInitIInv, AccountsNextIInv, PTL DEF TenancySpec
-----------------------------------------------------------------------------
(***************************************************************************)
(* Workspaces change their names by update_workspace alone.  A call that   *)
(* holds a workspace under another name than "default" creates it, or is   *)
(* the update that it is told to be; only the commit shows the new name,   *)
(* and from then on no error takes it back.                                *)
(***************************************************************************)
NamedBy(x, c, r) == r.table = "workspace" =>
    /\ r.key[2] # "default" => x[1] \in {"create_workspace", "update_workspace"}
    /\ x[1] = "create_workspace" => r.id = c
    /\ x[1] = "update_workspace" => x = <<"update_workspace", r.id>>

\* What a flush of the call x will do to workspaces.
Names(x, c, f) ==
    /\ f.do = "insert" => \A r \in f.rows : NamedBy(x, c, r)
    /\ f.do = "update" /\ f.table = "workspace" => x = <<"update_workspace", f.id>>
    /\ f.do = "rename" => x[1] = "update_workspace"

Named == \A c \in TenancyCalls : stage[c] = "open" =>
    /\ \A i \in DOMAIN todo[c] : Names(task[c], c, todo[c][i])
    /\ \A r \in added[c] : NamedBy(task[c], c, r)

NamesIInv == PlacesIInv /\ Named /\ RenamedByCommit

-----------------------------------------------------------------------------
LEMMA NamesInitIInv == TenancyInit => NamesIInv
  <1> SUFFICES ASSUME TenancyInit PROVE NamesIInv
    OBVIOUS
  <1>1. PlacesIInv
    BY TenancyInitIInv
  <1>2. Named
    BY DEF TenancyInit, Named
  <1>3. \A w \in Table("workspace") : w.key[2] = "default"
    BY DEF TenancyInit, Table, Tenant, Workspace, Role, User, UserRole, Row
  <1> QED
    BY <1>1, <1>2, <1>3 DEF NamesIInv, RenamedByCommit

\* The names that are committed stay explained as long as calls that are over keep
\* their task.
LEMMA NamesStay ==
    ASSUME NamesIInv, rows' = rows,
           \A d \in TenancyCalls : stage[d] \in {"committed", "answered", "lost"} =>
                /\ task'[d] = task[d]
                /\ stage'[d] \in {"committed", "answered", "lost"}
    PROVE  RenamedByCommit'
  <1> SUFFICES ASSUME NEW w \in Table("workspace"), w.id = Founder \/ task'[w.id][1] # "create_workspace",
                      w.key[2] # "default"
               PROVE  \E d \in TenancyCalls : /\ task'[d] = <<"update_workspace", w.id>>
                                              /\ stage'[d] \in {"committed", "answered", "lost"}
    BY DEF RenamedByCommit, Table
  <1>1. w \in rows /\ w.id \in TenancyCalls \cup {Founder}
    BY DEF NamesIInv, PlacesIInv, Typed, AnyRow, Ids, Table
  <1>2. w.id # Founder => task'[w.id] = task[w.id]
    BY <1>1 DEF NamesIInv, PlacesIInv, Committed
  <1>3. PICK d \in TenancyCalls : /\ task[d] = <<"update_workspace", w.id>>
                                  /\ stage[d] \in {"committed", "answered", "lost"}
    BY <1>2 DEF NamesIInv, RenamedByCommit
  <1> QED
    BY <1>3

\* A call that begins, with the flushes that it has to do.
LEMMA OpenNames ==
    ASSUME NamesIInv, PlacesIInv', NEW c \in TenancyCalls, stage[c] \in {"idle", "unlinked"},
           NEW F, NEW x, \A i \in DOMAIN F : Names(x, c, F[i]),
           stage' = [stage EXCEPT ![c] = "open"],
           task' = [task EXCEPT ![c] = x],
           todo' = [todo EXCEPT ![c] = F],
           UNCHANGED <<added, removed, rows>>
    PROVE  NamesIInv'
  <1>1. /\ stage'[c] = "open" /\ task'[c] = x /\ todo'[c] = F /\ added[c] = {}
        /\ \A d \in TenancyCalls : d # c =>
            stage'[d] = stage[d] /\ task'[d] = task[d] /\ todo'[d] = todo[d]
    BY DEF NamesIInv, PlacesIInv, Typed, Quiet
  <1>2. Named'
    <2> SUFFICES ASSUME NEW d \in TenancyCalls, stage'[d] = "open"
                 PROVE  /\ \A i \in DOMAIN todo'[d] : Names(task'[d], d, todo'[d][i])
                        /\ \A r \in added[d] : NamedBy(task'[d], d, r)
      BY DEF Named
    <2>1. CASE d = c
      BY <2>1, <1>1
    <2>2. CASE d # c
      BY <2>2, <1>1 DEF NamesIInv, Named
    <2> QED
      BY <2>1, <2>2
  <1>3. RenamedByCommit'
    BY <1>1, NamesStay
  <1> QED
    BY <1>2, <1>3 DEF NamesIInv

\* A call that is refused, waits, has its answer or ends with an error is not open.
LEMMA WaitNames ==
    ASSUME NamesIInv, PlacesIInv', NEW c \in TenancyCalls, stage'[c] # "open",
           stage[c] \in {"committed", "answered", "lost"} =>
                task'[c] = task[c] /\ stage'[c] \in {"committed", "answered", "lost"},
           \A d \in TenancyCalls : d # c =>
                /\ stage'[d] = stage[d] /\ task'[d] = task[d]
                /\ todo'[d] = todo[d] /\ added'[d] = added[d],
           rows' = rows
    PROVE  NamesIInv'
  <1>1. Named'
    BY DEF NamesIInv, Named
  <1>2. RenamedByCommit'
    BY NamesStay
  <1> QED
    BY <1>1, <1>2 DEF NamesIInv

-----------------------------------------------------------------------------
\* Most operations leave workspaces alone, or make a default one.
Aside(f) ==
    /\ f.do = "insert" => \A r \in f.rows : r.table = "workspace" => r.key[2] = "default"
    /\ f.do = "update" => f.table # "workspace"
    /\ f.do # "rename"

OtherTasks(x) == x[1] \notin {"create_workspace", "update_workspace"}

LEMMA AsideNames == \A x, c, f : OtherTasks(x) /\ Aside(f) => Names(x, c, f)
  BY DEF OtherTasks, Aside, Names, NamedBy

LEMMA AsideKinds ==
    /\ \A r : r.table # "workspace" => Aside(Insert({r}))
    /\ \A t, i : t # "workspace" => Aside(Update(t, i))
    /\ \A t, i : Aside(Delete(t, i))
  BY DEF Aside, Insert, Update, Delete

LEMMA AsideLists ==
    /\ \A f : Aside(f) => \A i \in DOMAIN <<f>> : Aside(<<f>>[i])
    /\ \A f, g : Aside(f) /\ Aside(g) => \A i \in DOMAIN <<f, g>> : Aside(<<f, g>>[i])
  <1>1. ASSUME NEW f, Aside(f), NEW i \in DOMAIN <<f>> PROVE Aside(<<f>>[i])
    <2>1. <<f>>[i] = f
      OBVIOUS
    <2> QED
      BY <1>1, <2>1
  <1>2. ASSUME NEW f, NEW g, Aside(f), Aside(g), NEW i \in DOMAIN <<f, g>> PROVE Aside(<<f, g>>[i])
    <2>1. <<f, g>>[i] = f \/ <<f, g>>[i] = g
      OBVIOUS
    <2> QED
      BY <1>2, <2>1
  <1> QED
    BY <1>1, <1>2

LEMMA OpenAside ==
    ASSUME NamesIInv, PlacesIInv', NEW c \in TenancyCalls, NEW op, NEW u, NEW F,
           op \notin {"create_workspace", "update_workspace"},
           Open(c, op, u, F), \A i \in DOMAIN F : Aside(F[i])
    PROVE  NamesIInv'
  <1>1. \A i \in DOMAIN F : Names(<<op, u>>, c, F[i])
    BY AsideNames DEF OtherTasks
  <1> QED
    BY <1>1, OpenNames DEF Open

LEMMA RefusedNames ==
    ASSUME NamesIInv, PlacesIInv', NEW c \in TenancyCalls, Refused(c)
    PROVE  NamesIInv'
  <1>1. /\ stage[c] = "idle" /\ stage'[c] = "refused"
        /\ \A d \in TenancyCalls : d # c => stage'[d] = stage[d]
        /\ UNCHANGED <<task, todo, added, removed, rows>>
    BY DEF Refused, NamesIInv, PlacesIInv, Typed
  <1> QED
    BY <1>1, WaitNames

\* The workspace of a new account has the default name.
LEMMA AccountAside ==
    ASSUME NEW c, NEW s, NEW e, NEW F,
           LET P == NewAccount(c, s, e)
           IN  \/ F = P
               \/ \E a : F = P \o <<Insert({OAuthAccount(c, a, c)})>>
    PROVE  \A i \in DOMAIN F : Aside(F[i])
  <1> DEFINE f == Insert({Tenant(c, s), Workspace(c, c, "default"), Role(c, c)})
             g == Insert({User(c, e, c)})
             h == Insert({UserRole(c, c, c, c)})
  <1>1. NewAccount(c, s, e) = <<f, g, h>>
    BY DEF NewAccount
  <1>2. /\ Aside(f) /\ Aside(g) /\ Aside(h)
        /\ \A a : Aside(Insert({OAuthAccount(c, a, c)}))
    <2>1. /\ Tenant(c, s).table = "tenant" /\ Role(c, c).table = "role"
          /\ Workspace(c, c, "default").key[2] = "default"
          /\ User(c, e, c).table = "user" /\ UserRole(c, c, c, c).table = "member"
          /\ \A a : OAuthAccount(c, a, c).table = "link"
      BY DEF Tenant, Workspace, Role, User, UserRole, OAuthAccount, Row
    <2>2. Aside(f)
      BY <2>1 DEF Aside, Insert
    <2> QED
      BY <2>1, <2>2, AsideKinds
  <1> HIDE DEF f, g, h
  <1>3. CASE F = <<f, g, h>>
    <2>1. \A i \in DOMAIN F : F[i] \in {f, g, h}
      BY <1>3
    <2> QED
      BY <2>1, <1>2
  <1>4. ASSUME NEW a, F = <<f, g, h>> \o <<Insert({OAuthAccount(c, a, c)})>>
        PROVE  \A i \in DOMAIN F : Aside(F[i])
    <2> DEFINE l == Insert({OAuthAccount(c, a, c)})
    <2>1. Aside(l)
      BY <1>2
    <2> HIDE DEF l
    <2>2. F = <<f, g, h>> \o <<l>>
      BY <1>4 DEF l
    <2>3. DOMAIN F = 1 .. 4 /\ F[1] = f /\ F[2] = g /\ F[3] = h /\ F[4] = l
      BY <2>2
    <2> QED
      BY <2>1, <2>3, <1>2
  <1> QED
    BY <1>1, <1>3, <1>4

-----------------------------------------------------------------------------
LEMMA SsoNames ==
    ASSUME NamesIInv, PlacesIInv', NEW c \in TenancyCalls, SsoLogin(c)
    PROVE  NamesIInv'
  <1>1. ASSUME NEW a \in Identities, NEW e \in Emails, SsoLink(c, a, e)
        PROVE  NamesIInv'
    <2>1. CASE \E l \in Table("link") : l.key = a
      <3>1. PICK l \in Table("link") : Open(c, "sso", l.of, <<Update("user", l.of)>>)
        BY <1>1, <2>1 DEF SsoLink
      <3> QED
        BY <3>1, AsideKinds, AsideLists, OpenAside
    <2>2. CASE ~\E l \in Table("link") : l.key = a
      <3>1. /\ stage[c] = "idle" /\ stage' = [stage EXCEPT ![c] = "unlinked"]
            /\ task' = [task EXCEPT ![c] = <<a, e>>]
            /\ UNCHANGED <<todo, added, removed, rows>>
        BY <1>1, <2>2 DEF SsoLink
      <3>2. /\ stage'[c] = "unlinked"
            /\ \A d \in TenancyCalls : d # c => stage'[d] = stage[d] /\ task'[d] = task[d]
        BY <3>1 DEF NamesIInv, PlacesIInv, Typed
      <3> QED
        BY <3>1, <3>2, WaitNames
    <2> QED
      BY <2>1, <2>2
  <1>2. ASSUME SsoUser(c) PROVE NamesIInv'
    <2> DEFINE Linking(u) == Insert({OAuthAccount(c, task[c][1], u)})
    <2>1. /\ stage[c] = "unlinked"
          /\ stage' = [stage EXCEPT ![c] = "open"] /\ UNCHANGED <<added, removed, rows>>
      BY <1>2 DEF SsoUser
    <2>2. PICK x, F :
            /\ task' = [task EXCEPT ![c] = x] /\ todo' = [todo EXCEPT ![c] = F]
            /\ x[1] = "sso"
            /\ \/ \E u : F = <<Update("user", u)>> \o <<Linking(u)>>
               \/ F = NewAccount(c, c, task[c][2]) \o <<Linking(c)>>
      <3>1. \/ \E u : /\ task' = [task EXCEPT ![c] = <<"sso", u>>]
                      /\ todo' = [todo EXCEPT ![c] = <<Update("user", u)>> \o <<Linking(u)>>]
            \/ /\ task' = [task EXCEPT ![c] = <<"sso", c>>]
               /\ todo' = [todo EXCEPT ![c] = NewAccount(c, c, task[c][2]) \o <<Linking(c)>>]
        BY <1>2 DEF SsoUser
      <3>2. \A u : <<"sso", u>>[1] = "sso"
        OBVIOUS
      <3> HIDE DEF Linking
      <3> QED
        BY <3>1, <3>2
    <2>3. \A i \in DOMAIN F : Aside(F[i])
      <3>1. ASSUME NEW u, F = <<Update("user", u)>> \o <<Linking(u)>>
            PROVE  \A i \in DOMAIN F : Aside(F[i])
        <4>1. Aside(Linking(u)) /\ Aside(Update("user", u))
          BY AsideKinds DEF OAuthAccount, Row
        <4> HIDE DEF Linking
        <4>2. F = <<Update("user", u), Linking(u)>>
          BY <3>1, TwoInOne
        <4> QED
          BY <4>1, <4>2, AsideLists
      <3>2. CASE F = NewAccount(c, c, task[c][2]) \o <<Linking(c)>>
        BY <3>2, AccountAside
      <3> QED
        BY <2>2, <3>1, <3>2
    <2>4. \A i \in DOMAIN F : Names(x, c, F[i])
      BY <2>2, <2>3, AsideNames DEF OtherTasks
    <2> QED
      BY <2>1, <2>2, <2>4, OpenNames
  <1> QED
    BY <1>1, <1>2 DEF SsoLogin

LEMMA BeginNames ==
    ASSUME NamesIInv, PlacesIInv', NEW c \in TenancyCalls, BeginAccount(c)
    PROVE  NamesIInv'
  <1>0. ASSUME NEW op, NEW u, NEW r, r.table # "workspace", Open(c, op, u, <<Insert({r})>>),
               op \notin {"create_workspace", "update_workspace"}
        PROVE  NamesIInv'
    BY <1>0, AsideKinds, AsideLists, OpenAside
  <1>1. ASSUME NEW s \in Slugs, CreateTenant(c, s) PROVE NamesIInv'
    <2>1. Tenant(c, s).table = "tenant"
      BY DEF Tenant, Row
    <2> QED
      BY <1>1, <2>1, <1>0, RefusedNames DEF CreateTenant
  <1>2. ASSUME NEW w, UpdateWorkspace(c, w) PROVE NamesIInv'
    <2> DEFINE x == <<"update_workspace", w>>
               f == Update("workspace", w)
    <2>1. Names(x, c, f) /\ \A s : Names(x, c, Rename(s))
      BY DEF Names, Update, Rename
    <2> HIDE DEF f
    <2>2. \A i \in DOMAIN <<f>> : <<f>>[i] = f
      OBVIOUS
    <2>3. \A s : \A i \in DOMAIN <<f, Rename(s)>> : <<f, Rename(s)>>[i] \in {f, Rename(s)}
      OBVIOUS
    <2>4. PICK F : Open(c, "update_workspace", w, F) /\ (F = <<f>> \/ \E s : F = <<f, Rename(s)>>)
      BY <1>2 DEF UpdateWorkspace, f
    <2>5. \A i \in DOMAIN F : Names(x, c, F[i])
      BY <2>1, <2>2, <2>3, <2>4
    <2> QED
      BY <2>4, <2>5, OpenNames DEF Open
  <1>3. ASSUME NEW t, NEW s, CreateWorkspace(c, t, s) PROVE NamesIInv'
    <2> DEFINE x == <<"create_workspace", c>>
               f == Insert({Workspace(c, t, s)})
    <2>1. Names(x, c, f)
      BY DEF Names, NamedBy, Insert, Workspace, Row
    <2> HIDE DEF f
    <2>2. \A i \in DOMAIN <<f>> : <<f>>[i] = f
      OBVIOUS
    <2>3. CASE Open(c, "create_workspace", c, <<f>>)
      BY <2>1, <2>2, <2>3, OpenNames DEF Open
    <2> QED
      BY <1>3, <2>3, RefusedNames DEF CreateWorkspace, f
  <1>4. ASSUME NEW e, NEW w, InviteUser(c, e, w) PROVE NamesIInv'
    <2>1. \A i, u, r, v : UserRole(i, u, r, v).table = "member" /\ PendingInvitation(i, v).table = "invitation"
      BY DEF UserRole, PendingInvitation, Row
    <2>2. PICK r \in Table("role") :
            \/ Refused(c)
            \/ \E u : Open(c, "invite_user", u.id, <<Insert({UserRole(c, u.id, r.id, w.id)})>>)
            \/ Open(c, "invite_user", c, <<Insert({PendingInvitation(c, w.id)})>>)
      BY <1>4 DEF InviteUser
    <2>3. ASSUME NEW u, NEW v, Open(c, "invite_user", u, <<Insert({v})>>), v.table # "workspace"
          PROVE  NamesIInv'
      BY <2>3, <1>0
    <2>4. ASSUME NEW u, Open(c, "invite_user", u.id, <<Insert({UserRole(c, u.id, r.id, w.id)})>>)
          PROVE  NamesIInv'
      <3> DEFINE v == UserRole(c, u.id, r.id, w.id)
      <3>1. v.table # "workspace" /\ Open(c, "invite_user", u.id, <<Insert({v})>>)
        BY <2>1, <2>4
      <3> HIDE DEF v
      <3> QED
        BY <3>1, <2>3
    <2>5. CASE Open(c, "invite_user", c, <<Insert({PendingInvitation(c, w.id)})>>)
      <3> DEFINE v == PendingInvitation(c, w.id)
      <3>1. v.table # "workspace" /\ Open(c, "invite_user", c, <<Insert({v})>>)
        BY <2>1, <2>5
      <3> HIDE DEF v
      <3> QED
        BY <3>1, <2>3
    <2> QED
      BY <2>2, <2>4, <2>5, RefusedNames
  <1>5. ASSUME NEW u, NEW w, AssignRole(c, u, w) PROVE NamesIInv'
    <2>1. \A r : UserRole(c, u, r, w).table = "member"
      BY DEF UserRole, Row
    <2> QED
      BY <1>5, <2>1, <1>0 DEF AssignRole
  <1>6. ASSUME NEW u, NEW w, RemoveUser(c, u, w) PROVE NamesIInv'
    <2>1. ASSUME NEW r, Open(c, "remove_user", u, <<Delete("member", r.id)>>) PROVE NamesIInv'
      BY <2>1, AsideKinds, AsideLists, OpenAside
    <2> QED
      BY <1>6, <2>1, RefusedNames DEF RemoveUser
  <1>7. ASSUME NEW e, NEW s, Register(c, e, s) PROVE NamesIInv'
    <2>1. \A i \in DOMAIN NewAccount(c, s, e) : Aside(NewAccount(c, s, e)[i])
      BY AccountAside
    <2> QED
      BY <1>7, <2>1, OpenAside, RefusedNames DEF Register
  <1> QED
    BY <1>1, <1>2, <1>3, <1>4, <1>5, <1>6, <1>7 DEF BeginAccount

LEMMA BeginKeysNames ==
    ASSUME NamesIInv, PlacesIInv', NEW c \in TenancyCalls, BeginKeys(c)
    PROVE  NamesIInv'
  <1>1. /\ \A i, u : ApiKey(i, u).table = "key"
        /\ \A i, k : Revoked(i, k).table = "revoked" /\ Deactivated(i, k).table = "deactivated"
    BY DEF ApiKey, Revoked, Deactivated, Row
  <1>2. ASSUME NEW op, NEW u, NEW F, Open(c, op, u, F),
               op \notin {"create_workspace", "update_workspace"},
               \/ \E r : F = <<Insert({r})>> /\ r.table # "workspace"
               \/ \E t, i, r : F = <<Update(t, i), Insert({r})>> /\ t # "workspace" /\ r.table # "workspace"
        PROVE  NamesIInv'
    <2>1. \A i \in DOMAIN F : Aside(F[i])
      BY <1>2, AsideKinds, AsideLists
    <2> QED
      BY <1>2, <2>1, OpenAside
  <1>3. PICK u : CreateApiKey(c, u) \/ RevokeApiKey(c, u) \/ DeleteUserData(c, u)
    BY DEF BeginKeys
  <1>4. CASE CreateApiKey(c, u)
    <2> DEFINE v == ApiKey(c, u)
               F == <<Insert({v})>>
    <2>1. v.table # "workspace" /\ Open(c, "create_api_key", u, F)
      BY <1>4, <1>1 DEF CreateApiKey
    <2> HIDE DEF v
    <2>2. \E r : F = <<Insert({r})>> /\ r.table # "workspace"
      BY <2>1
    <2> HIDE DEF F
    <2> QED
      BY <2>1, <2>2, <1>2
  <1>5. CASE RevokeApiKey(c, u)
    <2>1. PICK k : Open(c, "revoke_api_key", u, <<Update("key", k.id), Insert({Revoked(c, k.id)})>>)
      BY <1>5 DEF RevokeApiKey
    <2> DEFINE v == Revoked(c, k.id)
               F == <<Update("key", k.id), Insert({v})>>
    <2>2. v.table # "workspace" /\ Open(c, "revoke_api_key", u, F)
      BY <2>1, <1>1
    <2> HIDE DEF v
    <2>3. \E t, i, r : F = <<Update(t, i), Insert({r})>> /\ t # "workspace" /\ r.table # "workspace"
      BY <2>2
    <2> HIDE DEF F
    <2> QED
      BY <2>2, <2>3, <1>2
  <1>6. CASE DeleteUserData(c, u)
    <2> DEFINE v == Deactivated(c, u)
               F == <<Update("user", u), Insert({v})>>
    <2>1. v.table # "workspace" /\ Open(c, "delete_user_data", u, F)
      BY <1>6, <1>1 DEF DeleteUserData
    <2> HIDE DEF v
    <2>2. \E t, i, r : F = <<Update(t, i), Insert({r})>> /\ t # "workspace" /\ r.table # "workspace"
      BY <2>1
    <2> HIDE DEF F
    <2> QED
      BY <2>1, <2>2, <1>2
  <1> QED
    BY <1>3, <1>4, <1>5, <1>6
-----------------------------------------------------------------------------
\* A flush leaves its call with rows that are named by what the call is.
LEMMA FlushNames ==
    ASSUME NamesIInv, PlacesIInv', NEW c \in TenancyCalls, NEW A, Flushed(c),
           added' = [added EXCEPT ![c] = A], \A r \in A : NamedBy(task[c], c, r)
    PROVE  NamesIInv'
  <1>1. /\ todo[c] \in Seq(Flushes) /\ todo[c] # <<>> /\ UNCHANGED <<stage, task, rows>>
        /\ added'[c] = A /\ todo'[c] = Tail(todo[c])
        /\ \A d \in TenancyCalls : d # c => added'[d] = added[d] /\ todo'[d] = todo[d]
    BY DEF Flushed, NamesIInv, PlacesIInv, Typed
  <1>2. Named'
    <2> SUFFICES ASSUME NEW d \in TenancyCalls, stage[d] = "open"
                 PROVE  /\ \A i \in DOMAIN todo'[d] : Names(task[d], d, todo'[d][i])
                        /\ \A r \in added'[d] : NamedBy(task[d], d, r)
      BY <1>1 DEF Named
    <2>1. /\ \A i \in DOMAIN todo[d] : Names(task[d], d, todo[d][i])
          /\ \A r \in added[d] : NamedBy(task[d], d, r)
      BY DEF NamesIInv, Named
    <2>2. CASE d = c
      <3>1. \A i \in DOMAIN Tail(todo[c]) :
                Tail(todo[c])[i] = todo[c][i + 1] /\ i + 1 \in DOMAIN todo[c]
        BY <1>1
      <3> QED
        BY <2>1, <2>2, <3>1, <1>1
    <2>3. CASE d # c
      BY <2>1, <2>3, <1>1
    <2> QED
      BY <2>2, <2>3
  <1>3. RenamedByCommit'
    BY <1>1, NamesStay
  <1> QED
    BY <1>2, <1>3 DEF NamesIInv

\* What the next flush does to workspaces.
LEMMA HeadNames ==
    ASSUME NamesIInv, NEW c \in TenancyCalls, Flushed(c)
    PROVE  /\ Names(task[c], c, Head(todo[c]))
           /\ \A r \in added[c] : NamedBy(task[c], c, r)
  <1>1. stage[c] = "open" /\ Head(todo[c]) = todo[c][1] /\ 1 \in DOMAIN todo[c]
    BY HeadFlush DEF NamesIInv
  <1> QED
    BY <1>1 DEF NamesIInv, Named

LEMMA FlushesNames ==
    ASSUME NamesIInv, PlacesIInv', NEW c \in TenancyCalls, Flush(c)
    PROVE  NamesIInv'
  <1> DEFINE f == Head(todo[c])
  <1>1. CASE InsertFlush(c)
    <2>1. /\ Flushed(c) /\ f.do = "insert"
          /\ added' = [added EXCEPT ![c] = added[c] \cup f.rows]
      BY <1>1 DEF InsertFlush
    <2>2. \A r \in added[c] \cup f.rows : NamedBy(task[c], c, r)
      BY <2>1, HeadNames DEF Names
    <2> QED
      BY <2>1, <2>2, FlushNames
  <1>2. CASE UpdateFlush(c)
    <2>1. /\ Flushed(c) /\ f.do = "update"
          /\ added' = [added EXCEPT ![c] = added[c] \cup Found(f)]
      BY <1>2 DEF UpdateFlush
    <2>2. ASSUME NEW r \in Found(f) PROVE NamedBy(task[c], c, r)
      <3>1. r.table = f.table /\ r.id = f.id
        BY DEF Found, Table
      <3>2. r.table = "workspace" => task[c] = <<"update_workspace", r.id>>
        BY <3>1, <2>1, HeadNames DEF Names
      <3>3. <<"update_workspace", r.id>>[1] = "update_workspace"
        OBVIOUS
      <3> QED
        BY <3>2, <3>3 DEF NamedBy
    <2>3. \A r \in added[c] \cup Found(f) : NamedBy(task[c], c, r)
      BY <2>1, <2>2, HeadNames
    <2> QED
      BY <2>1, <2>3, FlushNames
  <1>3. CASE RenameFlush(c)
    <2>1. Flushed(c) /\ f.do = "rename"
      BY <1>3, Zenon DEF RenameFlush
    <2>2. PICK r \in added[c] :
            /\ r.table = "workspace"
            /\ added' = [added EXCEPT ![c] = (@ \ {r}) \cup {Workspace(r.id, r.of, f.slug)}]
      BY <1>3, Zenon DEF RenameFlush
    <2> DEFINE new == Workspace(r.id, r.of, f.slug)
    <2>3. new.table = "workspace" /\ new.id = r.id
      BY DEF Workspace, Row
    <2>4. task[c][1] = "update_workspace" /\ NamedBy(task[c], c, r)
      BY <2>1, HeadNames DEF Names
    <2>5. NamedBy(task[c], c, new)
      BY <2>2, <2>3, <2>4 DEF NamedBy
    <2> HIDE DEF new, f
    <2> DEFINE A == (added[c] \ {r}) \cup {new}
    <2>6. \A q \in A : NamedBy(task[c], c, q)
      BY <2>1, <2>5, HeadNames
    <2>7. added' = [added EXCEPT ![c] = A]
      BY <2>2 DEF new
    <2> HIDE DEF A
    <2> QED
      BY <2>1, <2>6, <2>7, FlushNames
  <1>4. CASE DeleteFlush(c)
    <2>1. Flushed(c) /\ added' = [added EXCEPT ![c] = added[c]]
      BY <1>4 DEF DeleteFlush, NamesIInv, PlacesIInv, Typed
    <2> QED
      BY <2>1, HeadNames, FlushNames
  <1> QED
    BY <1>1, <1>2, <1>3, <1>4 DEF Flush

\* The commit shows the rows under the names they have been given.
LEMMA CommitNames ==
    ASSUME NamesIInv, PlacesIInv', NEW c \in TenancyCalls, Commit(c)
    PROVE  NamesIInv'
  <1>1. /\ stage[c] = "open" /\ rows' = (rows \ removed[c]) \cup added[c]
        /\ stage'[c] = AfterCommit(c) /\ stage'[c] \in {"committed", "answered"}
        /\ \A d \in TenancyCalls : d # c => stage'[d] = stage[d] /\ added'[d] = added[d]
        /\ UNCHANGED <<task, todo>>
    BY DEF Commit, AfterCommit, NamesIInv, PlacesIInv, Typed
  <1>2. Named'
    BY <1>1 DEF NamesIInv, Named
  <1>3. RenamedByCommit'
    <2> SUFFICES ASSUME NEW w \in rows', w.table = "workspace",
                        w.id = Founder \/ task[w.id][1] # "create_workspace", w.key[2] # "default"
                 PROVE  \E d \in TenancyCalls : /\ task[d] = <<"update_workspace", w.id>>
                                                /\ stage'[d] \in {"committed", "answered", "lost"}
      BY <1>1 DEF RenamedByCommit, Table
    <2>1. CASE w \in added[c]
      <3>1. NamedBy(task[c], c, w)
        BY <2>1, <1>1 DEF NamesIInv, Named
      <3>2. task[c][1] # "create_workspace"
        BY <3>1, TenancyAssumption DEF NamedBy
      <3> QED
        BY <3>1, <3>2, <1>1 DEF NamedBy
    <2>2. CASE w \in rows
      <3>1. PICK d \in TenancyCalls : /\ task[d] = <<"update_workspace", w.id>>
                                      /\ stage[d] \in {"committed", "answered", "lost"}
        BY <2>2 DEF NamesIInv, RenamedByCommit, Table
      <3> QED
        BY <3>1, <1>1
    <2> QED
      BY <2>1, <2>2, <1>1
  <1> QED
    BY <1>2, <1>3 DEF NamesIInv

LEMMA NamesNextIInv == NamesIInv /\ [TenancyNext]_tenancyVars => NamesIInv'
  <1> SUFFICES ASSUME NamesIInv, [TenancyNext]_tenancyVars PROVE NamesIInv'
    OBVIOUS
  <1>1. PlacesIInv'
    BY TenancyNextIInv DEF NamesIInv
  <1>2. CASE UNCHANGED tenancyVars
    <2>1. UNCHANGED <<stage, task, todo, added, removed, rows>>
      BY <1>2 DEF tenancyVars
    <2> QED
      BY <2>1, <1>1 DEF NamesIInv, Named, RenamedByCommit, Table
  <1>3. ASSUME NEW c \in TenancyCalls, Refresh(c) PROVE NamesIInv'
    <2>1. /\ stage'[c] = "answered" /\ \A d \in TenancyCalls : d # c => stage'[d] = stage[d]
          /\ UNCHANGED <<task, todo, added, removed, rows>>
      BY <1>3 DEF Refresh, NamesIInv, PlacesIInv, Typed
    <2> QED
      BY <2>1, <1>1, WaitNames
  <1>4. ASSUME NEW c \in TenancyCalls, Raise(c) PROVE NamesIInv'
    <2>1. /\ stage[c] \in {"unlinked", "open", "committed"}
          /\ stage'[c] = (IF stage[c] = "committed" THEN "lost" ELSE "raised")
          /\ \A d \in TenancyCalls : d # c => /\ stage'[d] = stage[d] /\ todo'[d] = todo[d]
                                              /\ added'[d] = added[d]
          /\ UNCHANGED <<task, rows>>
      BY <1>4 DEF Raise, NamesIInv, PlacesIInv, Typed
    <2> QED
      BY <2>1, <1>1, WaitNames
  <1> QED
    BY <1>1, <1>2, <1>3, <1>4, BeginNames, SsoNames, BeginKeysNames, FlushesNames, CommitNames
       DEF TenancyNext, AccountsNext, KeysNext, Proceed

LEMMA NamesSpecIInv == TenancySpec => []NamesIInv
  BY NamesInitIInv, NamesNextIInv, PTL DEF TenancySpec

\* A call that is answered with an error has left nothing behind, unless the error
\* came after its commit: then an invitation is there without an answer, or a
\* workspace has the name that an update was to give it.
THEOREM NothingLeftBehind == TenancySpec => []ErrorsLeaveNothing
  <1>1. NamesIInv => ErrorsLeaveNothing
    BY DEF NamesIInv, PlacesIInv, ErrorsLeaveNothing
  <1> QED
    BY <1>1, NamesSpecIInv, PTL

\* Calls take effect as a whole or not at all, for any number of them that overlap
\* in any way and fail at any await: no account is seen without its tenant, its
\* workspace and its role, no tenant without the account that it was made for, and
\* an error before the commit has left nothing behind.
THEOREM CallsAreWhole == TenancySpec => []AllOrNothing
  <1>1. AccountsIInv => AccountsWhole
    BY DEF AccountsIInv
  <1>2. AccountsWhole /\ ErrorsLeaveNothing => AllOrNothing
    BY DEF AllOrNothing
  <1> QED
    BY <1>1, <1>2, AccountsSpecIInv, NothingLeftBehind, PTL
-----------------------------------------------------------------------------
(***************************************************************************)
(* The services together.  Whatever a step does, it is for each of them a  *)
(* step of its own or none: the whole implements each specification, and   *)
(* what is proved of one service holds of all.                             *)
(***************************************************************************)
LEMMA TenancyViewsIs == TenancyViewsAgree
  BY DEF TenancyViewsAgree, ListUserTenants, UserBelongsToTenant, ListWorkspaces, RolesOf

\* The tenants that a user is shown are those that the header may name, in any
\* state of the rows: the two queries are one.
THEOREM TenancyViews == TenancySpec => []TenancyViewsAgree
  BY TenancyViewsIs, PTL

LEMMA OneServiceSteps ==
    ASSUME [Next]_vars
    PROVE  /\ [BillingNext]_billingVars /\ [ContactsNext]_contactVars /\ [DealsNext]_dealVars
           /\ [MessagesNext]_messageVars /\ [LimiterNext]_limiterVars
           /\ [OutreachNext]_outreachVars /\ [TenancyNext]_tenancyVars
           /\ [AgentsNext]_agentVars /\ [AnalyticsNext]_analyticsVars /\ [FlagsNext]_flagVars
           /\ [InboxNext]_inboxVars /\ [KnowledgeNext]_knowledgeVars /\ [LeadNext]_leadVars
           /\ [MediaNext]_mediaVars
  BY DEF Next, vars, BillingNext, MessagesNext, OutreachNext, TenancyNext, AnalyticsNext, DealsNext

\* The services as they are checked together implement the specification of each:
\* no service's steps, nor the choice of one, give another a step that it has not.
THEOREM ServicesImplementEach ==
    Spec => /\ BillingSpec /\ ContactsSpec /\ DealsSpec /\ MessagesSpec /\ LimiterSpec
            /\ OutreachSpec /\ TenancySpec /\ AgentsSpec /\ AnalyticsSpec /\ FlagsSpec
            /\ InboxSpec /\ KnowledgeSpec /\ LeadSpec /\ MediaSpec
  <1>1. Init => /\ BillingInit /\ ContactsInit /\ DealsInit /\ MessagesInit /\ LimiterInit
                /\ OutreachInit /\ TenancyInit /\ AgentsInit /\ AnalyticsInit /\ FlagsInit
                /\ InboxInit /\ KnowledgeInit /\ LeadInit /\ MediaInit
    BY DEF Init
  <1> QED
    BY <1>1, OneServiceSteps, PTL DEF Spec, BillingSpec, ContactsSpec, DealsSpec, MessagesSpec,
       LimiterSpec, OutreachSpec, TenancySpec, AgentsSpec, AnalyticsSpec, FlagsSpec, InboxSpec,
       KnowledgeSpec, LeadSpec, MediaSpec

\* Every table and every structure of the services stays what it is declared to be.
THEOREM ServicesTyped == Spec => []TypeOK
  <1>1. /\ BillingTypeOK /\ ContactsTypeOK /\ DealsTypeOK /\ MessagesTypeOK /\ LimiterTypeOK
        /\ OutreachTypeOK /\ TenancyTypeOK /\ AgentsTypeOK /\ AnalyticsTypeOK /\ FlagsTypeOK
        /\ InboxTypeOK /\ KnowledgeTypeOK /\ LeadTypeOK /\ MediaTypeOK
        => TypeOK
    BY DEF TypeOK
  <1> QED
    BY <1>1, ServicesImplementEach, BillingTyped, ContactsTyped, DealsTyped, MailTyped,
       LimiterTyped, OutreachTyped, TenancyTyped, AgentsTyped, AnalyticsTyped, FlagsTyped,
       InboxTyped, KnowledgeTyped, LeadTyped, MediaTyped, PTL

\* CRM: the score that is shown is the newest of the history, and deals are as
\* their moves have left them, for any number of contacts, deals and tenants.
THEOREM CrmStaysConsistent == Spec => []CrmConsistent
  <1>1. ScoreTellsHistory /\ DealsConsistent => CrmConsistent
    BY DEF CrmConsistent
  <1> QED
    BY <1>1, ServicesImplementEach, ScoreIsTheNewest, DealsStayConsistent, PTL

\* What the readers of a service show agrees, page by page and tenant by tenant.
THEOREM ServicesViews == Spec => []ViewsAgree
  <1>1. /\ BillingViewsAgree /\ ContactViewsAgree /\ DealViewsAgree /\ MessageViewsAgree
        /\ OutreachViewsAgree /\ TenancyViewsAgree /\ AgentViewsAgree /\ AnalyticsViewsAgree
        /\ FlagViewsAgree /\ InboxViewsAgree /\ KnowledgeViewsAgree /\ MediaViewsAgree
        => ViewsAgree
    BY DEF ViewsAgree
  <1> QED
    BY <1>1, ServicesImplementEach, BillingViews, ContactViews, DealViews, MessageViews,
       OutreachViews, TenancyViews, AgentViews, AnalyticsViews, FlagViews, InboxViews,
       KnowledgeViews, MediaViews, PTL
=============================================================================

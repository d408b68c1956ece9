----------------------------- MODULE EmailLimiter -----------------------------
(***************************************************************************)
(* The sending limit of one workspace (services/email_service.py): stamps  *)
(* in each worker's memory.  A request checks the limit, sends over awaits *)
(* and only then adds its stamp, while other requests of the worker do the *)
(* same.  Clock ticks stand for fractions of the minute.  The worker's     *)
(* list is filtered and measured, whatever its order, so that it is a set  *)
(* here, of stamps that the mail they count tells apart.                   *)
(***************************************************************************)
EXTENDS Naturals, FiniteSets

CONSTANTS
    Requests,       \* calls of send_email and send_bulk
    Workers,
    WorkerOf,       \* the worker that serves each request
    Recipients,     \* how many a request has: one, or a campaign's list
    Limit,          \* email_rate_limit
    Minute,         \* ticks of the window
    MaxClock        \* bound

ASSUME LimiterAssumption ==
    /\ IsFiniteSet(Requests)
    /\ WorkerOf \in [Requests -> Workers] /\ Recipients \in [Requests -> Nat]
    /\ Limit \in Nat \ {0} /\ Minute \in Nat \ {0} /\ MaxClock \in Nat

VARIABLES
    clock,
    counts,     \* RateLimiter._counts of each worker
    sending,    \* requests that have passed the check and await the backend
    left,       \* recipients that each request has not come to yet
    queued,     \* messages of each request that the limit has kept back
    sent        \* history: the stamp of every mail that went out, counted or not

limiterVars == <<clock, counts, sending, left, queued, sent>>

\* A mail of a request and when it went out; number: recipients from it to the last.
Stamp == [at : 0 .. MaxClock, by : Requests, number : Nat]

LimiterTypeOK ==
    /\ clock \in 0 .. MaxClock
    /\ counts \in [Workers -> SUBSET Stamp]
    /\ sending \subseteq Requests
    /\ left \in [Requests -> Nat] /\ queued \in [Requests -> Nat]
    /\ sent \subseteq Stamp

LimiterInit ==
    /\ clock = 0
    /\ counts = [w \in Workers |-> {}]
    /\ sending = {}
    /\ left = Recipients
    /\ queued = [r \in Requests |-> 0]
    /\ sent = {}

Tick ==
    /\ clock < MaxClock /\ clock' = clock + 1
    /\ UNCHANGED <<counts, sending, left, queued, sent>>

\* check: what is left of the stamps once those outside of the window are gone.
Pruned(w) == {s \in counts[w] : clock - s.at < Minute}

UnderLimit(w) == Cardinality(Pruned(w)) < Limit

\* A mail under the limit goes to the backend, and its row says so.
Check(r) == LET w == WorkerOf[r] IN
    /\ left[r] > 0 /\ r \notin sending
    /\ UnderLimit(w)
    /\ counts' = [counts EXCEPT ![w] = Pruned(w)]
    /\ sending' = sending \cup {r}
    /\ UNCHANGED <<clock, left, queued, sent>>

\* Otherwise it stays queued; a campaign goes on with its next recipient.
KeepBack(r) == LET w == WorkerOf[r] IN
    /\ left[r] > 0 /\ r \notin sending
    /\ ~UnderLimit(w)
    /\ counts' = [counts EXCEPT ![w] = Pruned(w)]
    /\ left' = [left EXCEPT ![r] = @ - 1]
    /\ queued' = [queued EXCEPT ![r] = @ + 1]
    /\ UNCHANGED <<clock, sending, sent>>

Done(r) ==
    /\ r \in sending /\ sending' = sending \ {r}
    /\ left' = [left EXCEPT ![r] = @ - 1]

\* Mutant: a mail is not counted.
NotCounted(r) == UNCHANGED counts

StampOf(r) == [at |-> clock, by |-> r, number |-> left[r]]

\* increment.
Counted(r) == counts' = [counts EXCEPT ![WorkerOf[r]] = @ \cup {StampOf(r)}]

\* The backend has taken the mail: it is counted now, and not when checked.
Sent(r) ==
    /\ Done(r) /\ Counted(r)
    /\ sent' = sent \cup {StampOf(r)}
    /\ UNCHANGED <<clock, queued>>

\* An error of the backend fails the message, uncounted.
Failed(r) == Done(r) /\ UNCHANGED <<clock, counts, queued, sent>>

LimiterNext == Tick \/ \E r \in Requests : Check(r) \/ KeepBack(r) \/ Sent(r) \/ Failed(r)

LimiterSpec == LimiterInit /\ [][LimiterNext]_limiterVars

-----------------------------------------------------------------------------
Recent(w) == {m \in sent : WorkerOf[m.by] = w /\ clock - m.at < Minute}
Of(w) == {r \in Requests : WorkerOf[r] = w}

\* A worker exceeds the limit by no more than its other requests: each of them
\* may have passed the check on the same count.  One request alone, a campaign
\* too, keeps it.
OvershootBounded == \A w \in Workers :
    Cardinality(Recent(w)) + Cardinality(sending \cap Of(w))
        <= Limit + Cardinality({r \in Of(w) : Recipients[r] > 0}) - 1
=============================================================================

----------------------------- MODULE RateLimiter -----------------------------
(***************************************************************************)
(* RateLimitMiddleware (core/middleware.py): a request reads the clock,    *)
(* then has its minute checked and then its hour, each check one run of a  *)
(* Lua script on a sorted set of timestamps in Redis.  Between the clock   *)
(* and the checks other requests come in, of this worker or of others.     *)
(* While Redis cannot be reached, or does not know the script any more,    *)
(* requests pass unchecked.                                                *)
(*                                                                         *)
(* Time is counted in ticks.  Redis keeps its keys over a restart          *)
(* (docker-compose.yml: appendonly), never its scripts.                    *)
(***************************************************************************)
EXTENDS Integers, Sequences, FiniteSets

CONSTANTS
    Requests, Tenants, Addresses, Paths,
    Tiers,              \* tiers that requests may name
    PerMinute, PerHour, \* [Tiers -> Nat]: the limits; of hours, 0 means none
    Second, Minute, Hour,   \* in ticks
    MaxDelay,           \* bound: ticks from reading the clock to the last check
    MaxClock,           \* bound: ticks in all
    DistinctStamps,     \* do no two requests read the same time?
    Restarts            \* may Redis be restarted?

ASSUME RateAssumption ==
    /\ IsFiniteSet(Requests)
    /\ PerMinute \in [Tiers -> Nat] /\ PerHour \in [Tiers -> Nat]
    /\ Second \in Nat \ {0} /\ Minute \in Nat \ {0} /\ Hour \in Nat \ {0}
    /\ MaxDelay \in Nat /\ MaxClock \in Nat
    /\ DistinctStamps \in BOOLEAN /\ Restarts \in BOOLEAN

VARIABLES
    clock,
    at,         \* where each request is
    source,     \* its tenant, address, path and tier
    stamp,      \* the time that it has read
    minuteOK,   \* the result of its minute's check
    retryAfter, \* the seconds that a rejected request is told to wait
    zset,       \* the sorted sets: the requests whose timestamps are members
    expires,    \* when their keys expire
    loaded,     \* has this worker loaded the script?
    script,     \* does Redis know it?
    up,         \* can Redis be reached?
    recorded    \* history: the requests recorded in each sorted set, ever

redis == <<zset, expires, recorded>>
vars == <<clock, at, source, stamp, minuteOK, retryAfter, redis, loaded, script, up>>

Windows == {"min", "hour"}
Span(w) == IF w = "min" THEN Minute ELSE Hour
Limit(s, w) == IF w = "min" THEN PerMinute[s.tier] ELSE PerHour[s.tier]

\* A limit of 0 for the hour is none: the hour is not checked.
Enforced(s, w) == w = "hour" => Limit(s, w) > 0

Sources == [tenant : Tenants, address : Addresses, path : Paths, tier : Tiers]
Pending == {"stamped", "minuted"}
Places == Pending \cup {"idle", "forwarded", "rejected", "degraded"}

-----------------------------------------------------------------------------
\* create_app adds the middleware in this order; what is added last runs first.
Registered == <<"RequestID", "APIVersion", "CORS", "PrometheusMetrics", "TrustedHost",
                "TenantContext", "CSP", "RateLimit", "Logging">>
RunsBefore(a, b) == \E i, j \in DOMAIN Registered :
    Registered[i] = a /\ Registered[j] = b /\ i > j

\* Whom a request counts for: its tenant, if that is known already.
Identity(s) == IF RunsBefore("TenantContext", "RateLimit") THEN s.tenant ELSE s.address

\* The key of a sorted set, rate_limit:{identity}:{path}:{window}.
Slot(s, w) == <<Identity(s), s.path, w>>
Slots == (Tenants \cup Addresses) \X Paths \X Windows

TypeOK ==
    /\ clock \in Nat
    /\ at \in [Requests -> Places]
    /\ source \in [Requests -> Sources]
    /\ stamp \in [Requests -> Nat]
    /\ minuteOK \in [Requests -> BOOLEAN]
    /\ retryAfter \in [Requests -> Nat]
    /\ zset \in [Slots -> SUBSET Requests] /\ recorded \in [Slots -> SUBSET Requests]
    /\ expires \in [Slots -> Nat]
    /\ loaded \in BOOLEAN /\ script \in BOOLEAN /\ up \in BOOLEAN

Init ==
    /\ clock = 0
    /\ at = [r \in Requests |-> "idle"]
    /\ source \in [Requests -> Sources]
    /\ stamp = [r \in Requests |-> 0]
    /\ minuteOK = [r \in Requests |-> FALSE]
    /\ retryAfter = [r \in Requests |-> 0]
    /\ zset = [k \in Slots |-> {}] /\ recorded = [k \in Slots |-> {}]
    /\ expires = [k \in Slots |-> 0]
    /\ loaded = FALSE /\ script = FALSE /\ up = TRUE

-----------------------------------------------------------------------------
Move(r, from, to) == at[r] = from /\ at' = [at EXCEPT ![r] = to]

\* A request comes in: now = time.time().
Arrive(r) ==
    /\ Move(r, "idle", "stamped")
    /\ stamp' = [stamp EXCEPT ![r] = clock]
    /\ DistinctStamps => \A q \in Requests : at[q] # "idle" => stamp[q] # clock
    /\ UNCHANGED <<clock, source, minuteOK, retryAfter, redis, loaded, script, up>>

\* script_load, by the first requests of the worker.
LoadScript(r) ==
    /\ at[r] = "stamped" /\ up /\ ~loaded
    /\ loaded' = TRUE /\ script' = TRUE
    /\ UNCHANGED <<clock, at, source, stamp, minuteOK, retryAfter, redis, up>>

\* Mutant: the entry that is as old as the window is kept.
InclusiveWindow(r, w) ==
    LET k == Slot(source[r], w) IN
    {q \in zset[k] : clock < expires[k] /\ stamp[q] + Span(w) >= stamp[r]}

\* The entries that are left once those outside of the window are removed.
InWindow(r, w) ==
    LET k == Slot(source[r], w) IN
    {q \in zset[k] : clock < expires[k] /\ stamp[q] + Span(w) > stamp[r]}

\* Mutant: one too many.
AdmitsOneMore(r, w) == Cardinality(InWindow(r, w)) <= Limit(source[r], w)

\* Is the number of entries below the limit?
Admits(r, w) == Cardinality(InWindow(r, w)) < Limit(source[r], w)

\* The script: a member is a timestamp, so an equal one is replaced.
RunScript(r, w) ==
    LET k == Slot(source[r], w)
        kept == InWindow(r, w)
    IN  IF Admits(r, w)
        THEN /\ zset' = [zset EXCEPT ![k] = {q \in kept : stamp[q] # stamp[r]} \cup {r}]
             /\ expires' = [expires EXCEPT ![k] = clock + Span(w)]
             /\ recorded' = [recorded EXCEPT ![k] = @ \cup {r}]
        ELSE zset' = [zset EXCEPT ![k] = kept] /\ UNCHANGED <<expires, recorded>>

\* max(1, int(x + 0.5)) for x ticks in seconds.
Rounded(x) == IF 2 * x < 3 * Second THEN 1 ELSE (2 * x + Second) \div (2 * Second)

\* Mutant: the newest one.
Newest(r) ==
    LET stamps == {stamp[q] : q \in InWindow(r, "min")}
        greatest == CHOOSE s \in stamps : \A t \in stamps : t <= s
    IN  IF stamps = {} THEN 0 ELSE greatest - (greatest % Second)

\* The oldest timestamp in the window, or 0.  What a script returns is cut to
\* an integer, so its fraction of a second is lost.
Oldest(r) ==
    LET stamps == {stamp[q] : q \in InWindow(r, "min")}
        least == CHOOSE s \in stamps : \A t \in stamps : s <= t
    IN  IF stamps = {} THEN 0 ELSE least - (least % Second)

\* Retry-After of a request that its minute rejects.
MinuteRetryAfter(r) ==
    IF Oldest(r) + Minute <= stamp[r] THEN 1 ELSE Rounded(Oldest(r) + Minute - stamp[r])

CheckMinute(r) ==
    /\ up /\ loaded /\ script
    /\ Move(r, "stamped", IF Enforced(source[r], "hour") THEN "minuted"
                          ELSE IF Admits(r, "min") THEN "forwarded" ELSE "rejected")
    /\ minuteOK' = [minuteOK EXCEPT ![r] = Admits(r, "min")]
    /\ retryAfter' = IF Admits(r, "min") THEN retryAfter
                     ELSE [retryAfter EXCEPT ![r] = MinuteRetryAfter(r)]
    /\ RunScript(r, "min")
    /\ UNCHANGED <<clock, source, stamp, loaded, script, up>>

\* The hour is checked, and charged, whatever the minute's check has said.
CheckHour(r) ==
    /\ up /\ script
    /\ Move(r, "minuted",
            IF minuteOK[r] /\ Admits(r, "hour") THEN "forwarded" ELSE "rejected")
    /\ retryAfter' = IF minuteOK[r] /\ ~Admits(r, "hour")
                     THEN [retryAfter EXCEPT ![r] = Hour \div Second] ELSE retryAfter
    /\ RunScript(r, "hour")
    /\ UNCHANGED <<clock, source, stamp, minuteOK, loaded, script, up>>

\* Any exception: the request passes unchecked.
Degrade(r) ==
    /\ at[r] \in Pending /\ at' = [at EXCEPT ![r] = "degraded"]
    /\ ~up \/ (loaded /\ ~script)
    /\ UNCHANGED <<clock, source, stamp, minuteOK, retryAfter, redis, loaded, script, up>>

\* Redis cannot be reached, and can again, perhaps after a restart.
RedisFails ==
    /\ up /\ Restarts /\ up' = FALSE
    /\ script' \in {script, FALSE}
    /\ UNCHANGED <<clock, at, source, stamp, minuteOK, retryAfter, redis, loaded>>

RedisReturns ==
    /\ ~up /\ up' = TRUE
    /\ UNCHANGED <<clock, at, source, stamp, minuteOK, retryAfter, redis, loaded, script>>

Tick ==
    /\ clock < MaxClock
    /\ \A r \in Requests : at[r] \in Pending => clock < stamp[r] + MaxDelay
    /\ clock' = clock + 1
    /\ UNCHANGED <<at, source, stamp, minuteOK, retryAfter, redis, loaded, script, up>>

Next ==
    \/ \E r \in Requests : Arrive(r) \/ LoadScript(r) \/ CheckMinute(r) \/ CheckHour(r) \/ Degrade(r)
    \/ RedisFails \/ RedisReturns \/ Tick

Spec == Init /\ [][Next]_vars

-----------------------------------------------------------------------------
\* The requests recorded in k with timestamps in the span of n ticks after x.
During(k, x, n) == {q \in recorded[k] : x < stamp[q] /\ stamp[q] <= x + n}

\* The limit holds in EVERY window that is shorter by the delay of the
\* checks: the requests recorded in it are no more than one of them may be.
\* With no delay it is the limit of X-RateLimit-Limit.
WindowBounded == \A k \in Slots, x \in 0..clock :
    LET most == During(k, x, Span(k[3]) - MaxDelay) IN
    most = {} \/ \E q \in most : Cardinality(most) <= Limit(source[q], k[3])

\* As many requests as r may make have been recorded in its window, and its
\* tier has a limit for that window.
Full(r, w) ==
    /\ Enforced(source[r], w)
    /\ Cardinality({q \in recorded[Slot(source[r], w)] : stamp[r] < stamp[q] + Span(w)})
           >= Limit(source[r], w)

\* Nobody is rejected below the limit: one of the request's windows is full,
\* and an hour that its tier does not limit is never the one.
RejectedOnlyWhenFull == \A r \in Requests :
    at[r] = "rejected" => \E w \in Windows : Full(r, w)

\* A request passes unchecked only if Redis fails: "the set is trimmed ... and
\* the remaining count is checked" on each request (middleware.py:183).
UncheckedOnlyWhileDown == [][\A r \in Requests : Degrade(r) => ~up]_vars

\* Retry-After tells how long the oldest request still counts: less than one
\* and a half seconds too little, for it is computed from whole seconds and
\* rounded, and at most a second too much.
RetryAfterIsClose == [][\A r \in Requests :
    CheckMinute(r) /\ ~minuteOK'[r] =>
        \A q \in InWindow(r, "min") :
            (\A p \in InWindow(r, "min") : stamp[q] <= stamp[p]) =>
                LET wait == retryAfter'[r] * Second
                    left == stamp[q] + Minute - stamp[r]
                IN  2 * left < 2 * wait + 3 * Second /\ wait <= left + Second]_vars
=============================================================================

--------------------------- MODULE ConnectionPool ---------------------------
(***************************************************************************)
(* The requests of one worker and its database connections (database.py).  *)
(* The dependencies of an endpoint (api/deps.py) authenticate with the     *)
(* request's session, whose open transaction keeps a connection until the  *)
(* session is closed; get_tenant_context then checks the X-Tenant-ID       *)
(* header with a SECOND session.  A request that finds no free connection  *)
(* waits for one, holding what it has, until the pool's timeout.           *)
(*                                                                         *)
(* In the tests app.state.skip_tenant_membership_check is set: no test     *)
(* ever opens the second session.                                          *)
(***************************************************************************)
EXTENDS Naturals, FiniteSets

CONSTANTS
    Requests,
    PoolSize    \* pool_size + max_overflow

ASSUME PoolAssumption == IsFiniteSet(Requests) /\ PoolSize \in Nat \ {0}

VARIABLES
    at,         \* where each request is
    free        \* connections that the pool can still hand out

vars == <<at, free>>

Waiting == {"connecting", "checking"}
Holding == {"authenticated", "checking", "checked", "serving"}
Places == Waiting \cup Holding \cup {"idle", "done", "failed"}

\* Requests that hold a connection, and those of them that hold two.
Holders == {r \in Requests : at[r] \in Holding}
Doubles == {r \in Requests : at[r] = "checked"}

TypeOK == at \in [Requests -> Places] /\ free \in 0..PoolSize

Init == at = [r \in Requests |-> "idle"] /\ free = PoolSize

Move(r, from, to) == at[r] = from /\ at' = [at EXCEPT ![r] = to]

Take == free > 0 /\ free' = free - 1
Return == free' = free + 1

-----------------------------------------------------------------------------
\* A token that does not decode is rejected without the database.
Arrive(r) ==
    /\ Move(r, "idle", "connecting") \/ Move(r, "idle", "done")
    /\ UNCHANGED free

\* verify_token selects the user.
Authenticate(r) == Move(r, "connecting", "authenticated") /\ Take

\* The user does not exist or is not active; the session is closed.
Reject(r) == Move(r, "authenticated", "done") /\ Return

\* With a tenant header the membership must be checked; an endpoint that asks
\* for no tenant context serves at once.  An endpoint that does rejects a
\* request without the header: no other tenant is known then.
NeedMembership(r) ==
    /\ Move(r, "authenticated", "checking") \/ Move(r, "authenticated", "serving")
    /\ UNCHANGED free

\* The second session opens, reads and closes.
CheckMembership(r) == Move(r, "checking", "checked") /\ Take

\* Mutant: the second session is not closed.
MemberHolding(r) == Move(r, "checked", "serving") /\ UNCHANGED free

Member(r) == Move(r, "checked", "serving") /\ Return

\* Not a member: both sessions are closed.
Forbid(r) == Move(r, "checked", "done") /\ free' = free + 2

\* Mutant: the endpoint waits, without a timeout, for one more connection.
ServeWaiting(r) == free > 0 /\ Move(r, "serving", "done") /\ Return

\* The endpoint ends, in whatever way, and get_db closes the session.
Serve(r) == Move(r, "serving", "done") /\ Return

\* The pool's timeout: an error, and a connection already held is returned.
TimeOut(r) ==
    /\ free = 0
    /\ \/ Move(r, "connecting", "failed") /\ UNCHANGED free
       \/ Move(r, "checking", "failed") /\ Return

Next == \E r \in Requests :
    \/ Arrive(r) \/ Authenticate(r) \/ Reject(r) \/ NeedMembership(r)
    \/ CheckMembership(r) \/ Member(r) \/ Forbid(r) \/ Serve(r) \/ TimeOut(r)

\* A request that waits for nothing goes on; the pool serves those that wait
\* or their timeout expires.
Fairness == \A r \in Requests :
    /\ WF_vars(Reject(r) \/ NeedMembership(r) \/ Member(r) \/ Forbid(r) \/ Serve(r))
    /\ WF_vars(Authenticate(r) \/ CheckMembership(r) \/ TimeOut(r))

Spec == Init /\ [][Next]_vars /\ Fairness

-----------------------------------------------------------------------------
\* On no path, errors and timeouts included, does a connection get lost, or
\* returned twice.
ConnectionsConserved == free + Cardinality(Holders) + Cardinality(Doubles) = PoolSize

\* The requests never hold all the connections while each waits for one more.
\* It takes a pool larger than the number of requests at work.
NeverStalled == free = 0 => \E r \in Holders : at[r] \notin Waiting

\* Even when they do, every request that has begun ends: with an answer or
\* with the pool's timeout.
RequestsEnd == \A r \in Requests : at[r] = "connecting" ~> at[r] \in {"done", "failed"}
=============================================================================

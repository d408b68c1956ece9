-------------------------- MODULE SocketLifecycle --------------------------
(***************************************************************************)
(* What a connection registry promises about the sockets it is handed,     *)
(* whatever it keeps them in: a socket enters the registry at most once,   *)
(* only a socket whose peer is gone leaves it, it never returns, and every *)
(* socket whose peer is gone leaves it at last.                            *)
(***************************************************************************)
CONSTANT Sockets

VARIABLES
    status,     \* "unknown", "registered" or "forgotten"
    alive       \* is the peer there?

lifecycle == <<status, alive>>

Init ==
    /\ status = [s \in Sockets |-> "unknown"]
    /\ alive = [s \in Sockets |-> FALSE]

\* A peer comes, while the socket is unknown, or goes.
Arrive(s) ==
    /\ status[s] = "unknown"
    /\ alive' = [alive EXCEPT ![s] = TRUE]
    /\ UNCHANGED status

Depart(s) ==
    /\ alive[s]
    /\ alive' = [alive EXCEPT ![s] = FALSE]
    /\ UNCHANGED status

Enter(s) ==
    /\ status[s] = "unknown"
    /\ status' = [status EXCEPT ![s] = "registered"]
    /\ UNCHANGED alive

\* A socket whose peer left before it was registered is never registered.
Skip(s) ==
    /\ status[s] = "unknown" /\ ~alive[s]
    /\ status' = [status EXCEPT ![s] = "forgotten"]
    /\ UNCHANGED alive

\* Registered sockets leave together; their peers are gone, or go now.
Forget(S) ==
    /\ \A s \in S : status[s] = "registered"
    /\ status' = [s \in Sockets |-> IF s \in S THEN "forgotten" ELSE status[s]]
    /\ alive' \in {alive} \cup {[alive EXCEPT ![s] = FALSE] : s \in S}
    /\ \A s \in S : ~alive'[s]

Next ==
    \/ \E s \in Sockets : Arrive(s) \/ Depart(s) \/ Enter(s) \/ Skip(s)
    \/ \E S \in SUBSET Sockets : Forget(S)

Safety == Init /\ [][Next]_lifecycle

\* Every registered socket whose peer is gone leaves.
Forgets == \A s \in Sockets : (status[s] = "registered" /\ ~alive[s]) ~> (status[s] = "forgotten")

Spec == Safety /\ Forgets
=============================================================================

------------------------ MODULE MCConnectionManager ------------------------
(***************************************************************************)
(* Small instances of ConnectionManager: up to three sockets of two users, *)
(* two of them in one workspace and one of them global.                    *)
(***************************************************************************)
EXTENDS ConnectionManager

CONSTANTS s1, s2, s3, u1, u2, w1, c1

\* Owners: u1 has a socket in the workspace and a global one.
MCOwner == [s \in Sockets |-> IF s = s2 THEN u2 ELSE u1]
MCRoom  == [s \in Sockets |-> IF s = s3 THEN Global ELSE w1]

\* The same user on every socket: one pool takes all the churn.
OneOwner == [s \in Sockets |-> u1]
OneRoom  == [s \in Sockets |-> w1]
=============================================================================

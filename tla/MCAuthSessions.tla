--------------------------- MODULE MCAuthSessions ---------------------------
(***************************************************************************)
(* Two devices and three concurrent calls: two changes that lock the two   *)
(* sessions in opposite orders, with a refresh or a login between them.    *)
(***************************************************************************)
EXTENDS AuthSessions
CONSTANTS c1, c2, c3, d1, d2
ThreeCalls == {c1, c2, c3}
TwoDevices == {d1, d2}
=============================================================================

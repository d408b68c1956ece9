-------------------------- MODULE MCRequestSession --------------------------
(***************************************************************************)
(* Small instances of RequestSession: three requests, two records.         *)
(***************************************************************************)
EXTENDS RequestSession, TLC

CONSTANTS r1, r2, r3

\* Requests to services of the same kind are interchangeable, and so are records.
Symmetry == Permutations(Requests) \cup Permutations(Records)
=============================================================================

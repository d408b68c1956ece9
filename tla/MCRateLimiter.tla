---------------------------- MODULE MCRateLimiter ----------------------------
(***************************************************************************)
(* Small instances of RateLimiter: a minute of three or four ticks, limits *)
(* of one or two requests.                                                 *)
(***************************************************************************)
EXTENDS RateLimiter, TLC

CONSTANTS r1, r2, r3, r4, free, pro

\* One tier with both limits, and a second one with more per minute and no
\* limit per hour.
BothPerMinute == free :> 1 @@ pro :> 2
BothPerHour == free :> 2 @@ pro :> 0

\* A single tier.
TwoPerMinute == free :> 2
NoHour == free :> 0

Symmetry == Permutations(Requests)
=============================================================================

\* Deployed, services that only flush.
SPECIFICATION Spec
CONSTANTS
  r1 = r1
  r2 = r2
  r3 = r3
  Requests = {r1, r2, r3}
  Records = {x1, x2}
  Committing = {}
  SharedSession = FALSE
SYMMETRY Symmetry
INVARIANT ReportedIsSeen
\* Every request ends.
CHECK_DEADLOCK FALSE

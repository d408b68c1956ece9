\* Deployed, two services that commit and one that only flushes.
SPECIFICATION Spec
CONSTANTS
  r1 = r1
  r2 = r2
  r3 = r3
  Requests = {r1, r2, r3}
  Records = {x1, x2}
  Committing = {r1, r2}
  SharedSession = FALSE
INVARIANTS CommitsAreSeen
PROPERTY LocksAreReleased
\* Every request ends.
CHECK_DEADLOCK FALSE

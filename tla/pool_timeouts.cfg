\* More requests than connections.
SPECIFICATION Spec
CONSTANTS
  Requests = {r1, r2, r3, r4}
  PoolSize = 3
INVARIANTS ConnectionsConserved
PROPERTY RequestsEnd
\* Every request ends.
CHECK_DEADLOCK FALSE

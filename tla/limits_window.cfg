\* Four requests of two tiers, checked up to a tick late; Redis fails and restarts.
SPECIFICATION Spec
CONSTANTS
  r1 = r1
  r2 = r2
  r3 = r3
  r4 = r4
  free = free
  pro = pro
  Requests = {r1, r2, r3, r4}
  Tenants = {t1}
  Addresses = {a}
  Paths = {p}
  Tiers = {free, pro}
  PerMinute <- BothPerMinute
  PerHour <- BothPerHour
  Second = 2
  Minute = 4
  Hour = 6
  MaxDelay = 1
  MaxClock = 6
  DistinctStamps = TRUE
  Restarts = TRUE
SYMMETRY Symmetry
INVARIANTS WindowBounded RejectedOnlyWhenFull
PROPERTY RetryAfterIsClose
\* Every request has been answered, or the clock has reached its bound.
CHECK_DEADLOCK FALSE

\* Redis restarts.
SPECIFICATION Spec
CONSTANTS
  r1 = r1
  r2 = r2
  r3 = r3
  r4 = r4
  free = free
  pro = pro
  Requests = {r1, r2, r3}
  Tenants = {t1}
  Addresses = {a}
  Paths = {p}
  Tiers = {free}
  PerMinute <- TwoPerMinute
  PerHour <- NoHour
  Second = 1
  Minute = 3
  Hour = 5
  MaxDelay = 1
  MaxClock = 4
  DistinctStamps = TRUE
  Restarts = TRUE
SYMMETRY Symmetry
PROPERTY UncheckedOnlyWhileDown
\* Every request has been answered, or the clock has reached its bound.
CHECK_DEADLOCK FALSE

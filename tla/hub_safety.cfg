\* Three sockets of two users in two rooms: what the hub guarantees, whatever
\* its tasks do meanwhile.
SPECIFICATION Spec
CONSTANTS
  s1 = s1
  s2 = s2
  s3 = s3
  u1 = u1
  u2 = u2
  w1 = w1
  c1 = c1
  Sockets = {s1, s2, s3}
  Users = {u1, u2}
  Global = Global
  Rooms = {w1, Global}
  Owner <- MCOwner
  Room <- MCRoom
  Callers = {c1}
  Listener = Listener
  Heartbeat = Heartbeat
  Nobody = Nobody
  RedisMayFail = TRUE
  Broadcasters = {s1, c1, Listener}
INVARIANTS PoolsAgree RegisteredWhileServed RoomEntriesBounded AddressedOnly
PROPERTY LifecycleSafety
\* A worker that was shut down and whose clients are gone stops.
CHECK_DEADLOCK FALSE

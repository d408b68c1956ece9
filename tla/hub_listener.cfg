\* The listener of a running worker, with Redis always up.
SPECIFICATION Spec
CONSTANTS
  s1 = s1
  s2 = s2
  s3 = s3
  u1 = u1
  u2 = u2
  w1 = w1
  c1 = c1
  Sockets = {s1, s2}
  Users = {u1, u2}
  Global = Global
  Rooms = {w1, Global}
  Owner <- OneOwner
  Room <- OneRoom
  Callers = {c1}
  Listener = Listener
  Heartbeat = Heartbeat
  Nobody = Nobody
  RedisMayFail = FALSE
  Broadcasters = {Listener}
INVARIANT ListenerKeepsListening
\* A worker that was shut down and whose clients are gone stops.
CHECK_DEADLOCK FALSE

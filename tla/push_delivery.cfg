\* Two notifications, two workers, every failure, a client that comes back.
SPECIFICATION Spec
CONSTANTS
  Notifications = {n1, n2}
  Workers = {w1, w2}
  Nowhere = Nowhere
  Local = Local
  MaxConnects = 2
INVARIANTS ShownIsStored OncePerPath ListenersKeepOrder LocalClientsServed
PROPERTY ListenersDeliver

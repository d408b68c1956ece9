\* The ledger: two webhooks, a limit that is exceeded at once and one that allows a retry.
SPECIFICATION Spec
CONSTANTS
  Webhooks = {w1, w2}
  Urls = {a, b}
  Events = {test}
  TestEvent = test
  Limits = {1, 2}
  MaxDeliveries = 2
  MaxAttempts = 2
SYMMETRY Symmetry
INVARIANTS AttemptsNumbered NothingAfterSuccess StatusTellsLastAttempt DeliveriesHaveWebhooks
\* Every webhook may be deleted, every bound reached.
CHECK_DEADLOCK FALSE

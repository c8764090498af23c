SPECIFICATION Spec
CONSTANTS
  api = api
  a = a
  b = b
  Caller = {a, b}
  Client = {api}
  ClientOf <- Clients
  Window <- Windows
  Interval = 1
  MaxRetries = 1
  MaxTime = 5
  MaxCharges = 4
  MaxResets = 1
INVARIANTS TypeOK WindowRespected RetryAfterHonest Polite
SYMMETRY Threads
CHECK_DEADLOCK FALSE

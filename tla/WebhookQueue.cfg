\* Two deliveries, three retries each (the default), a worker that is interrupted once.
SPECIFICATION FairSpec
CONSTANTS
  Payloads = {p1, p2}
  Workers = {w1}
  MaxRetries = 3
  MaxInterrupts = 1
  None = None
INVARIANTS TypeOK Accounted CopiesBounded
PROPERTY Settles
\* With nothing left to arrive the worker waits for ever.
CHECK_DEADLOCK FALSE

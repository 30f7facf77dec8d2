\* One delivery whose message the gateway refuses.
SPECIFICATION Spec
CONSTANTS
  Payloads = {p1}
  Workers = {w1}
  MaxRetries = 1
  MaxInterrupts = 0
  None = None
INVARIANT FailedIsRetried
\* With nothing left to arrive the worker waits for ever.
CHECK_DEADLOCK FALSE

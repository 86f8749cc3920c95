\* Three goroutines against a limit that moves between one and three; two reads
\* and an upload that cannot be sent again behind one rate-limit gate.
SPECIFICATION ThrottleSpec
CONSTANTS
  g1 = g1  g2 = g2  g3 = g3
  Thread <- Goroutines
  Initial = 2
  Target = 700
  Ceiling = 3
  Latencies = {50, 300}
  MaxSamples = 1
  MaxShifts = 1
  Requests = {get, poll, upload}
  Replayable = {get, poll}
  Hasty = {get}
  Backoff <- OneRetry
  SqcBackoff <- TwoRetries
  NonSqcBackoff <- OneRetry
  RetryAfters = {0, 4}
  RetryAfterCap = 3
INVARIANTS
  PauseIsWallClock
  BodiesAreWhole
PROPERTIES
  ImplementsGate
  EveryoneGetsThrough

\* Nothing expires and nothing fails but a request.
SPECIFICATION Spec
CONSTANTS
  Sends = {k1}
  Handlers = {h1, h2}
  Workers = {w1, w2}
  None = None
  Free = Free
  InFlight = InFlight
  Refused = Refused
  MaxMessages = 2
  MaxTries = 3
  MaxAttempts = 2
  MaxLapses = 0
  MaxFaults = 0
INVARIANT OneMessagePerKey
CHECK_DEADLOCK FALSE

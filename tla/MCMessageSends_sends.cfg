\* One key asked for three times by a client that stops waiting, two requests
\* and two tasks at once, one expiry and one fault anywhere.
SPECIFICATION FairSpec
CONSTANTS
  Sends = {k1}
  Handlers = {h1, h2}
  Workers = {w1, w2}
  None = None
  Free = Free
  InFlight = InFlight
  Refused = Refused
  MaxMessages = 2
  MaxTries = 3
  MaxAttempts = 2
  MaxLapses = 1
  MaxFaults = 1
INVARIANTS
  IInv
  MessagesAreAccounted
  TakenIsAccounted
PROPERTIES
  ToldIsTried
  ClaimsAreSettled
CHECK_DEADLOCK FALSE

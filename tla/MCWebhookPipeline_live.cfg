SPECIFICATION FairSpec

CONSTANTS
    Inbounds = {i1, i2}
    Receipts = {"read"}
    Poison = {}
    Workers = {w1, w2}
    AttemptCap = 2
    FaultKinds = {"drop", "unheard", "repeat", "redeliver"}
    MaxEvents = 2
    MaxFaults = 1
    MaxReads = 0
    MaxDeletes = 1

PROPERTIES
    AckedIsRecorded

\* When Meta has nothing left to say, nothing is left to do.
CHECK_DEADLOCK FALSE

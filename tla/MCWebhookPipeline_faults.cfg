SPECIFICATION Spec

CONSTANTS
    Inbounds = {i1, i2}
    Receipts = {"delivered", "read"}
    Poison = {p}
    Workers = {w1, w2}
    AttemptCap = 2
    FaultKinds = {"drop", "unheard", "repeat", "crash", "redeliver"}
    MaxEvents = 3
    MaxFaults = 1
    MaxReads = 1
    MaxDeletes = 0

INVARIANTS
    IInv
    VerdictsHaveEvidence
    CopiesAreAccounted
    UnreadIsBacked
    SerialStoresOnce

PROPERTIES
    SerialMovesForward

SYMMETRY Symmetry

\* When Meta has nothing left to say, nothing is left to do.
CHECK_DEADLOCK FALSE

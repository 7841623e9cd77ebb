SPECIFICATION Spec

CONSTANTS
    NumRecipients = 1
    BatchSize = 1
    Workers = {w1, w2}
    Requests = {q1, q2}
    Scanners = {s1, s2}
    AttemptCaps = {0, 2}
    Rejecting = TRUE
    ScannerRuns = TRUE
    FaultKinds = {"crash", "redeliver", "park", "drop", "unheard", "flush"}
    MaxMessages = 2
    MaxBatches = 2
    MaxFaults = 1
    MaxPauses = 1
    MaxCancels = 1
    MaxReruns = 1
    MaxOverlaps = 1
    MaxTroubles = 2

INVARIANTS
    IInv
    SentWasAcknowledged
    DuplicatesAreAccounted

ACTION_CONSTRAINT FewTroubles

SYMMETRY Symmetry

\* A campaign that is over, or paused, leaves nothing to do.
CHECK_DEADLOCK FALSE

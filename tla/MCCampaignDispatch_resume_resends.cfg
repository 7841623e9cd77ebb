SPECIFICATION Spec

CONSTANTS
    NumRecipients = 1
    BatchSize = 1
    Workers = {w1, w2}
    Requests = {q1}
    Scanners = {s1}
    AttemptCaps = {0, 2}
    Rejecting = TRUE
    ScannerRuns = TRUE
    FaultKinds = {}
    MaxMessages = 3
    MaxBatches = 1
    MaxFaults = 0
    MaxPauses = 1
    MaxCancels = 0
    MaxReruns = 0
    MaxOverlaps = 0
    MaxTroubles = 1

INVARIANTS
    SentOnce

SYMMETRY Symmetry

\* A campaign that is over, or paused, leaves nothing to do.
CHECK_DEADLOCK FALSE

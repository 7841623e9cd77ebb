SPECIFICATION FairSpec

CONSTANTS
    NumRecipients = 3
    BatchSize = 2
    Workers = {w1, w2}
    Requests = {q1}
    Scanners = {s1}
    AttemptCaps = {0, 2}
    Rejecting = TRUE
    ScannerRuns = TRUE
    FaultKinds = {}
    MaxMessages = 3
    MaxBatches = 2
    MaxFaults = 0
    MaxPauses = 0
    MaxCancels = 0
    MaxReruns = 0
    MaxOverlaps = 0
    MaxTroubles = 0

INVARIANTS
    MessagesBelong
    NobodyStranded
    CompletedOwesNobody

PROPERTIES
    OutcomeIsFinal
    StartedEnds

\* A campaign that is over, or paused, leaves nothing to do.
CHECK_DEADLOCK FALSE

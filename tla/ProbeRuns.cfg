SPECIFICATION FairSpec
CONSTANTS
    Streamed = {aapl, msft}
    Probed = probed
    Attempts = 3
    MayInterrupt = TRUE
    Limits = {2, 3}
    Delays = {2}
    MaxFailures = 1
    MaxDrops = 1
    MaxUpdates = 2
INVARIANTS TypeOK LeavesNothing DisplacementSound VerdictRight
PROPERTY EndsUnlessDeaf
\* A stream that was closed while it dialled keeps the run waiting for ever.
CHECK_DEADLOCK FALSE

SPECIFICATION Spec
CONSTANTS
    Streamed = {aapl, msft}
    Probed = probed
    Attempts = 2
    MayInterrupt = TRUE
    Limits = {3}
    Delays = {1}
    MaxFailures = 0
    MaxDrops = 0
    MaxUpdates = 1
INVARIANT AlwaysReleases

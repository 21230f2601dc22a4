SPECIFICATION Spec
CONSTANTS
    alice = alice
    bob = bob
    aapl = aapl
    msft = msft
    NoFields = NoFields
    Owns <- Separate
    Conids = {aapl, msft}
    FieldSets = {last_bid, all}
    Callers = {alice, bob}
    MaxConns = 3
    MaxCalls = 3
    MaxCloses = 0
    MayCancel = TRUE
    MaxFrames = 0
    UpdatesCap = 1
INVARIANTS
    TypeOK
    NoLostSubscription

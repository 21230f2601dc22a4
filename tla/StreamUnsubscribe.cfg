SPECIFICATION Spec
CONSTANTS
    alice = alice
    bob = bob
    aapl = aapl
    msft = msft
    NoFields = NoFields
    Owns <- Alone
    Conids = {aapl}
    FieldSets = {all}
    Callers = {alice}
    MaxConns = 1
    MaxCalls = 2
    MaxCloses = 0
    MayCancel = FALSE
    MaxFrames = 0
    UpdatesCap = 1
INVARIANT UnsubscribeStops

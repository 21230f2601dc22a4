SPECIFICATION ReceiveSpec
CONSTANTS
    alice = alice
    bob = bob
    aapl = aapl
    msft = msft
    NoFields = NoFields
    Owns <- Alone
    Conids = {aapl}
    FieldSets = {all}
    Callers = {alice}
    MaxConns = 1
    MaxCalls = 0
    MaxCloses = 0
    MayCancel = TRUE
    MaxFrames = 0
    UpdatesCap = 1
PROPERTY CancelEnds

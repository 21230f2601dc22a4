SPECIFICATION ConvergeSpec
CONSTANTS
    alice = alice
    bob = bob
    aapl = aapl
    msft = msft
    NoFields = NoFields
    Owns <- Shared
    Conids = {aapl}
    FieldSets = {last_bid, all}
    Callers = {alice, bob}
    MaxConns = 2
    MaxCalls = 2
    MaxCloses = 0
    MayCancel = FALSE
    MaxFrames = 0
    UpdatesCap = 1
PROPERTY Converges

SPECIFICATION ReceiveSpec
CONSTANTS
    alice = alice
    bob = bob
    aapl = aapl
    msft = msft
    NoFields = NoFields
    Owns <- Alone
    Conids = {aapl}
    FieldSets = {all}
    Callers = {alice}
    MaxConns = 2
    MaxCalls = 0
    MaxCloses = 1
    MayCancel = FALSE
    MaxFrames = 0
    UpdatesCap = 1
PROPERTY CloseWhileConnectingEnds

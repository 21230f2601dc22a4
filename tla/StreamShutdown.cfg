SPECIFICATION ShutdownSpec
CONSTANTS
    alice = alice
    bob = bob
    aapl = aapl
    msft = msft
    NoFields = NoFields
    Owns <- Alone
    Conids = {aapl}
    FieldSets = {all}
    Callers = {alice}
    MaxConns = 2
    MaxCalls = 1
    MaxCloses = 2
    MayCancel = TRUE
    MaxFrames = 2
    UpdatesCap = 2
INVARIANT NoOrphanConnection
PROPERTIES ImplementsService LivesAsPromised EndedStops CancelSeenBetweenConnections LoopsEnd

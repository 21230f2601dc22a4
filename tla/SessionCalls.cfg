SPECIFICATION Spec
CONSTANTS
    Goroutines = {alice, bob}
    Accounts = {joint, ira}
    Unknown = Unknown
    MaxCalls = 3
    MaxLost = 2
INVARIANTS TypeOK SelectedIsActive OrdersOfAccount TradesWithoutCookies

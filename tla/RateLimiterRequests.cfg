SPECIFICATION FairSpec
CONSTANTS
  o1 = o1 o2 = o2 o3 = o3 h1 = h1 h2 = h2 n1 = n1 n2 = n2
  Requests = {o1, o2, o3, h1, h2, n1, n2}
  MaxRequests = 3
  Given <- GivenRules
  Call <- Calls
  Rules <- ListedRules
  NoRule = 0
  RuleOf <- Matched
  Accounts = {a1}
  NoAccount = NoAccount
  MinInterval <- Intervals
  MaxConcurrent <- Concurrent
  PerAccount <- AccountRules
  Global = 2
  MaxLimiters = 1
  MaxTime = 0
INVARIANTS TypeOK RuleSpacing UndelayedSpacing SlotsMatchFlights EndpointLimits DelaysHaveCause
PROPERTIES Settles

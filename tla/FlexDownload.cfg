SPECIFICATION FairSpec
CONSTANTS
    MaxTries = 3
    RetryDelay = 2
    ThrottleDelay = 3
    MaxTime = 3
INVARIANTS TypeOK PollsSpaced GaveUpLate TransientsExhausted
PROPERTIES Ends

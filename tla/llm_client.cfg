SPECIFICATION FairSpec
CONSTANTS
    Caller = {c1, c2}
    Interval = 2
    MaxRetries = 2
    Backoff = 1
    Nobody = Nobody
CHECK_DEADLOCK FALSE
INVARIANT AttemptsAreBounded
PROPERTIES PacedApart CallsEnd

SPECIFICATION FairSpec
CONSTANTS
    Viewer = {v1}
    End = 3
    Capacity = 1
    MaxWire = 1
    MaxAsked = 2
    MaxFaults = 2
    Unread = Unread
    Nothing = Nothing
CHECK_DEADLOCK FALSE
INVARIANTS  QuietIsCurrent
PROPERTIES GreetedIsForgotten LostSocketCatchesUp

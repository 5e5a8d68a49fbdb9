SPECIFICATION FairSpec
CONSTANTS
    Addr = {a}
    Value = {v1, v2}
    MaxWatch = 1
    Caller = {}
    Adder = {d}
    AutoStart = TRUE
    MaxChanges = 1
    MaxDeletes = 0
    MaxCrashes = 0
    MaxFaults = 1
PROPERTY UpgradeIsAnswered

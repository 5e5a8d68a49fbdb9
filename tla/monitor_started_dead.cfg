SPECIFICATION Spec
CONSTANTS
    Addr = {a}
    Value = {v1, v2}
    MaxWatch = 1
    Caller = {}
    Adder = {d}
    AutoStart = TRUE
    MaxChanges = 1
    MaxDeletes = 0
    MaxCrashes = 0
    MaxFaults = 0
INVARIANT RunningHasLoop

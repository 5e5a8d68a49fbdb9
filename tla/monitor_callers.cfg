SPECIFICATION Spec
CONSTANTS
    Addr = {a}
    Value = {v1, v2}
    MaxWatch = 1
    Caller = {c}
    Adder = {d}
    AutoStart = FALSE
    MaxChanges = 1
    MaxDeletes = 1
    MaxCrashes = 1
    MaxFaults = 0
SYMMETRY Symmetry
INVARIANTS  RescansAreFew
PROPERTY BaselineIsReported

CONSTANTS
    Scan = {s1, s2}
    Addr = {a1, a2, a3}
    Proc = {srv, cli}
    Server = srv
    Request = {r1}
    MaxParallelScans = 1
    MaxParallelTargets = 1
    CompanionCap = 1
    MaxCrashes = 0
    MaxFaults = 0
SPECIFICATION Spec
SYMMETRY Symmetry
CHECK_DEADLOCK FALSE
INVARIANTS CompanionsAreBounded  WorkIsBounded

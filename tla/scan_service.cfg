CONSTANTS
    Scan = {s1, s2}
    Addr = {a1, a2}
    Proc = {srv}
    Server = srv
    Request = {r1, r2}
    MaxParallelScans = 1
    MaxParallelTargets = 1
    CompanionCap = 0
    MaxCrashes = 1
    MaxFaults = 1
SPECIFICATION Spec
SYMMETRY Symmetry
CHECK_DEADLOCK FALSE
INVARIANTS QueuedIsHeard CompletedIsCovered
    RunningIsRun FailedIsIdle StrayWorkMeansFailure
PROPERTIES  ImplementsContract

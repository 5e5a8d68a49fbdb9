CONSTANTS
    Scan = {s1, s2}
    Addr = {a1}
    Proc = {srv}
    Server = srv
    Request = {r1}
    MaxParallelScans = 1
    MaxParallelTargets = 1
    CompanionCap = 0
    MaxCrashes = 1
    MaxFaults = 1
SPECIFICATION FairSpec
CHECK_DEADLOCK FALSE
PROPERTIES EveryScanEnds 

SPECIFICATION FairSpec
CONSTANTS
    Contract = {c1, c2, c3}
    Factory = {}
    MaxBlock = 3
    Checker = {k1}
    Cap = 1
    MaxOutages = 1
    MaxCrashes = 1
    MaxFaults = 1
INVARIANTS NoneSkipped 
PROPERTY EveryDeploymentIsHandled

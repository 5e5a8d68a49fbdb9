SPECIFICATION Spec
CONSTANTS
    Targets <- AllTargets
    Profiles = {"deep", "ultra-deep", "ultra-deep-v2"}
    Switches <- DefaultSwitches
    Values = {"none", "inert"}
    MaxFailures = 1
    Hypotheses <- Guess
CHECK_DEADLOCK FALSE
INVARIANTS EveryFlagSurvives CorroborationIsIndependent

SPECIFICATION Spec
CONSTANTS
    Target = {t1, t2}
    Fingerprint = {f1}
    Stages <- ToolsAround
    User = {u1}
    MaxCandidates <- OneEach
    MaxSims = 1
    MaxPocs = 1
    MaxRequests = 1
    MaxAccidents = 1
    Replies = {"error", "needs", "confirmed"}
    Everywhere = Everywhere
SYMMETRY Symmetry
CHECK_DEADLOCK FALSE
INVARIANTS ToolRunsAreClosed CountsMatchFindings CancelStopsLoop
    LearntIsApplied MarkedIsLearnt FinishedIsReviewed CriticalIsPaged

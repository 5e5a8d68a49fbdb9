SPECIFICATION Spec
CONSTANTS
    Settings <- AllSettings
    Signals = {"lead_only", "confirmable", "reasoner", "poc_detector", "oracle",
        "tool_agreement", "governance_controlled", "open_roles", "unguarded",
        "has_access_control", "value_at_risk", "binding_claimed", "rare_lead"}
    MaxSignals = 2
    Impacts = {15, 18}
    Confidences = {12}
CHECK_DEADLOCK FALSE
INVARIANTS SuppressedIsHidden LeadIsKept
    RefutedScoreIsNotCritical ScoreIsCurrent
PROPERTY PassingNeverLowers

------------------------------- MODULE Verdict -------------------------------
(***************************************************************************)
(* How one candidate of a target becomes a verdict: the deterministic      *)
(* gates of candidate_sanity, corroboration, the learned false positives,  *)
(* the refuter, the score, the fork checks that raise it, and the AI       *)
(* review with its guardrails.  Each of them only sees the evidence its    *)
(* predecessors left, several floors and caps pull against one another,    *)
(* and any of the calls to the model may fail.                             *)
(*                                                                         *)
(* Impact and confidence are counted in half points: 0..20 for 0.0..10.0.  *)
(***************************************************************************)
EXTENDS Naturals, FiniteSets

CONSTANTS
    Settings,    \* the sets of switches a scan may run under
    Signals,     \* what detectors may put into the evidence
    MaxSignals,  \* bound: signals of one candidate
    Impacts, Confidences

Switch == {"ultra", "soft", "value_gate", "binding_gate", "chain_gate",
           "liveness", "refutation", "deepseek", "foundry"}

\* "lead_only" stands for the flag and the tier of that name; "rare_lead" for
\* the five markers of a rare lead; "value_at_risk" for the three of a value
\* that moves; "structural" for a detector of _STRUCTURAL_DETECTORS.
Signal == {"lead_only", "confirmable", "structural", "reasoner", "poc_detector",
           "oracle", "tool_agreement", "governance_controlled",
           "documented_centralization", "open_roles", "dead_role", "unguarded",
           "user_controlled", "has_access_control", "no_access_control",
           "value_at_risk", "attacker_destination", "binding_claimed",
           "rare_lead", "informational", "storage_layout"}

\* What the chain of checks adds to it.
Learned == {"never_initialized", "corroborated", "suppressed", "refuted",
            "refuted_concrete", "concrete_mitigation", "survived", "poc_passed",
            "graph_sim"}

\* value_context: not probed, unknown, worthless without dependents or flow
\* ("inert"), worthless without known dependents, worthless, or worth something.
ValueContext == {"none", "unknown", "inert", "unreferenced", "no_value", "has_value"}
NoValue == {"inert", "unreferenced", "no_value"}

\* What the code of the target says about the candidate's function.
Fact == {"none", "wrong_chain", "absent", "internal", "settlement_internal",
         "not_exposed", "admin_gated", "one_shot", "user_method", "pure_helper",
         "uninitialized", "safe_in_function", "safe_in_slice"}

Critical == {"CONFIRMED_CRITICAL", "LIKELY_CRITICAL_NEEDS_POC"}
Hidden   == {"LOW_OR_INFO", "FALSE_POSITIVE"}
Class    == Critical \cup Hidden \cup {"NEEDS_MORE_INVESTIGATION"}

ASSUME VerdictAssumption ==
    /\ Settings \subseteq SUBSET Switch
    /\ Signals \subseteq Signal
    /\ MaxSignals \in Nat
    /\ Impacts \subseteq 0..20 /\ Confidences \subseteq 0..20

VARIABLES
    on,      \* the switches of this scan
    fact,    \* what holds of the candidate's function
    value,   \* evidence["value_context"]
    base,    \* the detector's impact and confidence
    ev,      \* the rest of the evidence
    score,   \* the last ScoreResult
    class,   \* finding.classification
    reply,   \* what the AI review did: "none", "binding_refuted", "verdict"
    at       \* the step the candidate is at

vars == <<on, fact, value, base, ev, score, class, reply, at>>

NoScore == [impact |-> 0, conf |-> 0, class |-> "LOW_OR_INFO"]
Unscored == {"sanity", "corroborate", "learn", "refute", "score"}
Scored   == {"poc", "sim", "graph_sim", "review", "persist", "done"}

Min2(a, b) == IF a < b THEN a ELSE b
Max2(a, b) == IF a > b THEN a ELSE b
Minus(a, b) == IF a > b THEN a - b ELSE 0

Init ==
    /\ on \in Settings
    /\ fact \in Fact
    /\ value \in ValueContext
    /\ base \in [impact : Impacts, conf : Confidences]
    /\ ev \in {E \in SUBSET Signals : Cardinality(E) <= MaxSignals}
    /\ score = NoScore /\ class = "LOW_OR_INFO" /\ reply = "none"
    /\ at = "sanity"

----------------------------------------------------------------------------
(* candidate_sanity.py.                                                   *)

Suppression == {"suppressed", "refuted"}
Concrete    == {"refuted_concrete", "concrete_mitigation"}

IsLead == "lead_only" \in ev

\* deterministic_attacker_binding_refutation: it needs a claimed variable, and
\* code that binds it to a safe value.
BindingIsSafe(facts) == "binding_gate" \in on /\ "binding_claimed" \in ev /\ fact \in facts

\* _target_attribution_reason: the chain of the scan has no code there.
WrongChain == "chain_gate" \in on /\ fact = "wrong_chain"

\* _attach_liveness_evidence.
Liveness == IF "liveness" \in on /\ fact = "uninitialized" THEN {"never_initialized"} ELSE {}

\* _keep_internal_helper_lead: a lead on a settlement helper outlives the
\* helper's visibility.
KeepInternalHelperLead == fact = "settlement_internal" /\ IsLead

\* _looks_like_normal_user_asset_method, _looks_like_pure_verifier_helper, of
\* the detectors each is meant for.
LooksHarmless == fact \in {"user_method", "pure_helper"}

\* _suppression_reason; "not_exposed" holds of strict detectors only.
SuppressionReason ==
    \/ fact \in {"absent", "internal", "not_exposed", "admin_gated", "one_shot"}
    \/ fact = "settlement_internal" /\ ~KeepInternalHelperLead
    \/ LooksHarmless

\* apply_candidate_sanity.
ApplyCandidateSanity ==
    /\ at = "sanity"
    /\ at' = "corroborate"
    /\ ev' = ev \cup (CASE WrongChain                         -> Suppression \cup Concrete
                       [] BindingIsSafe({"safe_in_function"}) -> Liveness \cup Suppression \cup Concrete
                       [] SuppressionReason                   -> Liveness \cup Suppression
                       [] OTHER                               -> Liveness)
    /\ UNCHANGED <<on, fact, value, base, score, class, reply>>

\* mark_corroboration: another detector flags the same function, or not.
MarkCorroboration ==
    /\ at = "corroborate"
    /\ at' = "learn"
    /\ \/ UNCHANGED ev
       \/ "suppressed" \notin ev /\ ev' = ev \cup {"corroborated"}
    /\ UNCHANGED <<on, fact, value, base, score, class, reply>>

\* dedup.apply_suppression: the table knows the fingerprint, or not.
ApplySuppression ==
    /\ at = "learn"
    /\ at' = "refute"
    /\ \/ UNCHANGED ev
       \/ ev' = ev \cup {"suppressed"}
    /\ UNCHANGED <<on, fact, value, base, score, class, reply>>

----------------------------------------------------------------------------
(* refuter.py.                                                            *)

\* Faulty variant: any candidate is killed by an opinion.
NotProtected == FALSE

\* Refuted by a cited control only, never by an opinion.
Protected == ev \cap {"lead_only", "confirmable", "corroborated"} # {}

\* What one answer of the model adds: real says is_real, trivial that it is
\* out of scope or of no severity, concrete that a control was cited.
Refutation(real, trivial, concrete) ==
    (IF concrete THEN {"concrete_mitigation"} ELSE {})
    \cup (IF real THEN {"survived"} ELSE {})
    \cup (IF Protected
          THEN IF concrete THEN {"refuted", "refuted_concrete"} ELSE {}
          ELSE IF ~real \/ trivial THEN {"refuted"} ELSE {})

WorthRefuting ==
    /\ "refutation" \in on
    /\ ev \cap {"suppressed", "informational"} = {}
    /\ base.impact >= 10

\* The model is only asked when the code does not settle it; without an
\* answer the evidence stays as it is.  A binding the answer claims is checked
\* against the same code.
Refute ==
    /\ at = "refute"
    /\ at' = "score"
    /\ \/ ~WorthRefuting /\ UNCHANGED ev
       \/ /\ WorthRefuting /\ BindingIsSafe({"safe_in_function", "safe_in_slice"})
          /\ ev' = ev \cup {"refuted"} \cup Concrete
       \/ /\ WorthRefuting /\ ~BindingIsSafe({"safe_in_function", "safe_in_slice"})
          /\ \/ UNCHANGED ev
             \/ /\ "binding_gate" \in on /\ fact \in {"safe_in_function", "safe_in_slice"}
                /\ ev' = ev \cup {"refuted"} \cup Concrete
             \/ \E real, trivial, concrete \in BOOLEAN :
                  ev' = ev \cup Refutation(real, trivial, concrete)
    /\ UNCHANGED <<on, fact, value, base, score, class, reply>>

----------------------------------------------------------------------------
(* scoring.py, for evidence e.                                            *)

\* _classify.
Classify(impact, conf) ==
    IF impact >= 18 /\ conf >= 16 THEN "CONFIRMED_CRITICAL"
    ELSE IF impact >= 18 /\ conf >= 10 THEN "LIKELY_CRITICAL_NEEDS_POC"
    ELSE IF impact >= 14 /\ conf >= 6 THEN "NEEDS_MORE_INVESTIGATION"
    ELSE "LOW_OR_INFO"

\* _has_critical_value_path.
HasCriticalValuePath(e) ==
    \/ "poc_passed" \in e
    \/ /\ "value_at_risk" \in e \/ value = "has_value"
       /\ "attacker_destination" \in e
       /\ e \cap {"binding_claimed", "user_controlled", "open_roles", "unguarded"} # {}

Inert(e) == "value_gate" \in on /\ value = "inert"
Unborn(e) == "value_gate" \in on /\ value = "unreferenced" /\ "never_initialized" \in e

CappedImpact(e) == IF Inert(e) THEN Min2(base.impact, 8)
                   ELSE IF Unborn(e) THEN Min2(base.impact, 10) ELSE base.impact
CappedConf(e)   == IF Inert(e) THEN Min2(base.conf, 4)
                   ELSE IF Unborn(e) THEN Min2(base.conf, 6) ELSE base.conf

If(b, n) == IF b THEN n ELSE 0
Survived(e) == "survived" \in e /\ e \cap {"refuted", "poc_passed"} = {}

\* Faulty variant: a fork check that passed adds nothing.
BonusUnproven(e) ==
    If(Survived(e), 2) + If("tool_agreement" \in e, 4) + If(e \cap {"open_roles", "dead_role"} # {}, 2)
    + If("corroborated" \in e, 4) + If("storage_layout" \in e, 1) + If("graph_sim" \in e, 1)

Bonus(e) ==
    If(Survived(e), 2) + If("tool_agreement" \in e, 4) + If(e \cap {"open_roles", "dead_role"} # {}, 2)
    + If("poc_passed" \in e, 4) + If("corroborated" \in e, 4)
    + If("storage_layout" \in e, 1) + If("graph_sim" \in e, 1)
Malus(e) == If("governance_controlled" \in e, 6) + If("documented_centralization" \in e, 6)

\* Faulty variant: under ultra-deep such a finding keeps its confidence.
RefutedLeniently(e, k) ==
    IF "refuted" \notin e \/ ("ultra" \in on /\ e \cap {"structural", "confirmable"} # {})
    THEN k ELSE Min2(k, 4)

\* A structural finding the model rejects is kept in sight under ultra-deep.
Refuted(e, k) ==
    IF "refuted" \in e
    THEN IF "ultra" \in on /\ e \cap {"structural", "confirmable"} # {} THEN 8 ELSE Min2(k, 4)
    ELSE k

HasUnauthorizedPath(e) ==
    "has_access_control" \notin e \/ e \cap {"open_roles", "unguarded", "poc_passed"} # {}

Unproven(e, impact, k) ==
    IF ~HasUnauthorizedPath(e) /\ impact >= 14 THEN Min2(k, 8) ELSE k

Lead(e)  == "lead_only" \in e /\ "refuted" \notin e
Rare(e)  == "soft" \in on /\ "rare_lead" \in e /\ "refuted_concrete" \notin e

\* The confidence before the class.  The code clamps the sum at the end; no cap
\* or floor on the way tells a negative sum from zero.
Confidence(e, impact) ==
    LET sum    == Minus(CappedConf(e) + Bonus(e), Malus(e))
        capped == Unproven(e, impact, Refuted(e, sum))
    IN  Min2(20, IF Lead(e) /\ impact >= 14 THEN Max2(capped, 6) ELSE capped)

\* The critical-value gate, the soft floor, and the floor and ceiling of a lead.
GatedClass(e, c) ==
    IF "value_gate" \in on /\ c \in Critical /\ value \in NoValue /\ ~HasCriticalValuePath(e)
    THEN "NEEDS_MORE_INVESTIGATION" ELSE c
RareClass(e, impact, c) ==
    IF Rare(e) /\ impact >= 14 /\ c \in Hidden THEN "NEEDS_MORE_INVESTIGATION" ELSE c
LeadClass(e, impact, c) ==
    IF Lead(e) /\ ((impact >= 14 /\ c \in Hidden) \/ ("poc_passed" \notin e /\ c \in Critical))
    THEN "NEEDS_MORE_INVESTIGATION" ELSE c

\* score_finding.
ScoreFinding(e) ==
    LET impact == CappedImpact(e)
        conf   == Confidence(e, impact)
        first  == Classify(impact, conf)
        gated  == GatedClass(e, first)
        kept   == IF gated # first THEN Min2(conf, 12) ELSE conf
    IN  IF "suppressed" \in e
        THEN [impact |-> impact, conf |-> 0, class |-> "FALSE_POSITIVE"]
        ELSE [impact |-> impact,
              conf   |-> IF Rare(e) /\ impact >= 14 THEN Max2(kept, 7) ELSE kept,
              class  |-> LeadClass(e, impact, RareClass(e, impact, gated))]

Score ==
    /\ at = "score"
    /\ at' = "poc"
    /\ score' = ScoreFinding(ev)
    /\ UNCHANGED <<on, fact, value, base, ev, class, reply>>

----------------------------------------------------------------------------
(* The fork checks of process_target's loop.  A budget that is spent, a    *)
(* generator that gives up and a test that fails come to the same.         *)

\* is_poc_eligible.
IsPocEligible ==
    /\ "poc_detector" \in ev
    /\ ev \cap {"governance_controlled", "has_access_control"} = {}
    /\ score.impact >= 14 /\ score.conf >= 8

\* Faulty variant: the score of before the fork check is kept.
PassedUnscored ==
    /\ ev' = ev \cup {"poc_passed"}
    /\ UNCHANGED score

\* A check that passes is scored at once.
Passed ==
    /\ ev' = ev \cup {"poc_passed"}
    /\ score' = ScoreFinding(ev')

\* Faulty variant: a suppressed candidate is checked too.
CheckAnyOnFork(here, next, eligible) ==
    /\ at = here
    /\ at' = next
    /\ \/ UNCHANGED <<ev, score>>
       \/ eligible /\ "foundry" \in on /\ Passed
    /\ UNCHANGED <<on, fact, value, base, class, reply>>

CheckOnFork(here, next, eligible) ==
    /\ at = here
    /\ at' = next
    /\ \/ UNCHANGED <<ev, score>>
       \/ eligible /\ "foundry" \in on /\ "suppressed" \notin ev /\ Passed
    /\ UNCHANGED <<on, fact, value, base, class, reply>>

Poc == CheckOnFork("poc", "sim", IsPocEligible)

\* flashloan_sim.generate_and_run.
Sim == CheckOnFork("sim", "graph_sim", "oracle" \in ev)

\* generate_graph_aware_simulation leaves its components in the evidence, and
\* nothing scores the candidate again.
GraphSim ==
    /\ at = "graph_sim"
    /\ at' = "review"
    /\ \/ UNCHANGED ev
       \/ /\ "foundry" \in on /\ "suppressed" \notin ev
          /\ ev' = ev \cup {"graph_sim"}
    /\ UNCHANGED <<on, fact, value, base, score, class, reply>>

----------------------------------------------------------------------------
(* ai_reviewer.py.                                                        *)

\* evidence_has_unauthorized_path.
HasEvidenceOfPath ==
    \/ ev \cap {"poc_passed", "open_roles", "dead_role", "unguarded"} # {}
    \/ {"user_controlled", "no_access_control"} \subseteq ev

\* _critical_path_complete: the answer names what moves, where to and who
\* controls it, or a fork check passed.
CriticalPathComplete(triad) == triad \/ ("poc_passed" \in ev /\ HasEvidenceOfPath)

\* _is_high_signal_packet.
IsHighSignal ==
    \/ Protected
    \/ score.impact >= 16 /\ score.conf >= 8 /\ score.class \notin Hidden

\* _has_concrete_defusing_control.
IsDefused == ev \cap ({"suppressed"} \cup Concrete) # {}

\* The hard gate, the critical-value gate and the guardrails, in this order.
GateReview(c, triad) ==
    IF "value_gate" \in on /\ c \in Critical /\ ~CriticalPathComplete(triad)
    THEN "NEEDS_MORE_INVESTIGATION" ELSE c
CapReview(c) ==
    IF c = "CONFIRMED_CRITICAL" /\ ~HasEvidenceOfPath THEN "LIKELY_CRITICAL_NEEDS_POC" ELSE c
FloorReview(c) ==
    IF c \in Hidden /\ IsHighSignal /\ ~IsDefused THEN "NEEDS_MORE_INVESTIGATION" ELSE c

\* review_finding: no answer, a binding the code refutes, or a classification.
\* A triad needs a binding that the hard gate lets pass.
ReviewFinding ==
    /\ at = "review"
    /\ at' = "persist"
    /\ \/ UNCHANGED <<class, reply>>
       \/ /\ "deepseek" \in on /\ "suppressed" \notin ev
          /\ \/ /\ "binding_gate" \in on /\ fact \in {"safe_in_function", "safe_in_slice"}
                /\ class' = "FALSE_POSITIVE" /\ reply' = "binding_refuted"
             \/ \E c \in Class, triad \in BOOLEAN :
                  /\ class' = FloorReview(CapReview(GateReview(c, triad)))
                  /\ reply' = "verdict"
    /\ UNCHANGED <<on, fact, value, base, ev, score>>

\* _persist_finding: the verdict of the review, if there is one, supersedes.
PersistFinding ==
    /\ at = "persist"
    /\ at' = "done"
    /\ class' = IF reply = "none" THEN score.class ELSE class
    /\ UNCHANGED <<on, fact, value, base, ev, score, reply>>

Next ==
    \/ ApplyCandidateSanity \/ MarkCorroboration \/ ApplySuppression
    \/ Refute \/ Score \/ Poc \/ Sim \/ GraphSim
    \/ ReviewFinding \/ PersistFinding

Spec == Init /\ [][Next]_vars

----------------------------------------------------------------------------
\* Every variable has its type.
TypeOK ==
    /\ on \in SUBSET Switch
    /\ fact \in Fact /\ value \in ValueContext
    /\ base \in [impact : 0..20, conf : 0..20]
    /\ ev \in SUBSET (Signal \cup Learned)
    /\ score \in [impact : 0..20, conf : 0..20, class : Class]
    /\ class \in Class /\ reply \in {"none", "binding_refuted", "verdict"}
    /\ at \in Unscored \cup Scored

\* A candidate that a deterministic gate or the user's table suppressed ends
\* as a false positive, whatever floors apply to it, and no fork check and no
\* review is spent on it.
SuppressedIsHidden ==
    "suppressed" \in ev /\ at \in Scored =>
        /\ score.class = "FALSE_POSITIVE"
        /\ ev \cap {"poc_passed", "graph_sim"} = {}
        /\ reply = "none"
        /\ at = "done" => class = "FALSE_POSITIVE"

\* A lead of high impact stays in sight to the end: only a control that
\* someone could cite, or the user's table, takes it away.
LeadIsKept ==
    at = "done" /\ IsLead /\ score.impact >= 14 /\ class \in Hidden =>
        ev \cap ({"suppressed"} \cup Concrete) # {} \/ reply = "binding_refuted"

\* What the skeptic refuted gets no critical score, with a floor or without,
\* fork checks passed or not.
RefutedScoreIsNotCritical ==
    "refuted" \in ev /\ at \in Scored => score.class \notin Critical

\* What is persisted was scored on the evidence that is persisted with it, but
\* for the graph simulation that comes after the last score.
ScoreIsCurrent == at \in Scored => score = ScoreFinding(ev \ {"graph_sim"})

Rank(c) == CASE c = "FALSE_POSITIVE" -> 0 [] c = "LOW_OR_INFO" -> 1
             [] c = "NEEDS_MORE_INVESTIGATION" -> 2
             [] c = "LIKELY_CRITICAL_NEEDS_POC" -> 3 [] c = "CONFIRMED_CRITICAL" -> 4

\* A fork check that passes never lowers the class a candidate had.
PassingNeverLowers ==
    [][(at \in Scored) => Rank(score'.class) >= Rank(score.class)]_vars
=============================================================================

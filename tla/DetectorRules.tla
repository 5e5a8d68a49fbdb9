---------------------------- MODULE DetectorRules ----------------------------
(***************************************************************************)
(* What a detector is: a set of rules.  A rule fires where the code has    *)
(* all of some features and none of some others; a feature stands for one  *)
(* condition of the detector's code, mostly one regular expression over    *)
(* the function, its header or its file.  What fires is a candidate with a *)
(* base impact and confidence, in half points (14 is 7.0), and those tags  *)
(* of its evidence that a later step reads, under the names of Verdict.    *)
(***************************************************************************)
EXTENDS Naturals, FiniteSets

Rule(all, none, impact, conf, tags) ==
    [all |-> all, none |-> none, impact |-> impact, conf |-> conf, tags |-> tags]

Fires(rule, code) == rule.all \subseteq code /\ rule.none \cap code = {}

\* The alternatives of one condition, each a rule of its own.
AnyOf(features, all, none, impact, conf, tags) ==
    {Rule(all \cup {f}, none, impact, conf, tags) : f \in features}

\* _finding of the later detector files: what the tier says of the candidate.
Confirmable(all, none, impact, conf) == Rule(all, none, impact, conf, {"confirmable"})
Lead(all, none, impact, conf)        == Rule(all, none, impact, conf, {"lead_only"})

\* is_ultra_profile is a feature too: some rules are only applied, or relaxed,
\* under the two ultra profiles.
UltraProfiles == {"ultra-deep", "ultra-deep-v2"}
ProfileFeatures(profile) == IF profile \in UltraProfiles THEN {"ultra_profile"} ELSE {}

\* header_has_access_control is the feature "access_control"; what
\* is_externally_callable lets pass has "callable".
=============================================================================

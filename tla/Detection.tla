------------------------------ MODULE Detection ------------------------------
(***************************************************************************)
(* From the code of a target to its list of candidates: every detector of  *)
(* the profile runs on its own, the reasoner adds its hypotheses, the      *)
(* sanity gates suppress, agreement between detectors is marked, and the   *)
(* copies of one finding are collapsed.  Each step only reads what the one *)
(* before left in a candidate, and tells candidates apart by other keys.   *)
(*                                                                         *)
(* A target is a list of units: the functions called f or _f, in the order *)
(* its source files have them.                                             *)
(***************************************************************************)
EXTENDS DetectorRegistry, FiniteSetsExt

CONSTANTS
    Targets,     \* the sequences of units that are scanned
    Profiles,    \* profile names, known to the registry or not
    Switches,    \* the settings of the verdict, but for "ultra"
    Values,      \* what the value probe may say of the target
    MaxFailures, \* bound: detectors that raise in one target
    Hypotheses   \* scores the reasoner may give, as [impact, conf]

ASSUME DetectionAssumption ==
    /\ \A t \in Targets : /\ DOMAIN t \subseteq Nat
                           /\ \A i \in DOMAIN t : t[i].name \in {"f", "_f"}
    /\ \A h \in Hypotheses : h.impact \in 0..20 /\ h.conf \in 0..20
    /\ MaxFailures \in Nat

VARIABLES
    units,       \* ctx.source_files, by function
    profile,     \* ctx.profile
    analyzers,   \* the analyzer_findings toggle
    value,       \* the meta of the value probe
    failed,      \* the detectors that raised
    cands,       \* candidates
    at           \* the step process_target is at

vars == <<units, profile, analyzers, value, failed, cands, at>>

Init ==
    /\ units \in Targets
    /\ profile \in Profiles
    /\ analyzers \in BOOLEAN
    /\ value \in Values
    /\ failed = {} /\ cands = {} /\ at = "detect"

----------------------------------------------------------------------------
\* The detectors of the loop: analyzer_findings is skipped when it is off.
Detectors == GetDetectors(profile)
Running   == DOMAIN Detectors \ IF analyzers THEN {} ELSE {"analyzer_findings"}

Features(u) == u.header \cup u.body \cup ProfileFeatures(profile)
                 \cup IF profile = "ultra-deep-v2" THEN {"ultra_deep_v2"} ELSE {}

\* candidate.detector: the finding of a tool is named for the tool's check.
DetectorName(d, r) == IF d = "analyzer_findings" THEN {d} \cup r.all ELSE {d}

Candidate(d, r, i) ==
    [by |-> DetectorName(d, r), detector |-> d, rule |-> r, unit |-> i,
     impact |-> r.impact, conf |-> r.conf, value |-> "none",
     ev |-> r.tags \cup (IF d \in STRUCTURAL_DETECTORS THEN {"structural"} ELSE {})
                   \cup (IF d \in POC_DETECTORS THEN {"poc_detector"} ELSE {})]

\* det.run(ctx).
Run(d) == UNION {{Candidate(d, r, i) : i \in {j \in DOMAIN units : Fires(r, Features(units[j]))}}
                 : r \in Detectors[d]}

\* The loop over get_detectors: what raises is logged, and the next one runs.
RunDetectors ==
    /\ at = "detect"
    /\ at' = "reason"
    /\ LET flags == [d \in Running |-> Run(d)]
       IN  \E F \in SUBSET {d \in Running : flags[d] # {}} :
             /\ Cardinality(F) <= MaxFailures
             /\ failed' = F
             /\ cands' = UNION {flags[d] : d \in Running \ F}
    /\ UNCHANGED <<units, profile, analyzers, value>>

\* run_invariant_reasoner: off, skipped or failed, or a hypothesis on some
\* function; one about what a proof binds is a lead.
RunReasoner ==
    /\ at = "reason"
    /\ at' = "context"
    /\ \/ UNCHANGED cands
       \/ \E i \in DOMAIN units, h \in Hypotheses, lead \in BOOLEAN :
            cands' = cands \cup
              { [Candidate("invariant_reasoner", Rule({}, {}, h.impact, h.conf, {"reasoner"}), i)
                   EXCEPT !.ev = @ \cup IF lead THEN {"lead_only"} ELSE {}] }
    /\ UNCHANGED <<units, profile, analyzers, value, failed>>

\* setdefault("value_context", ...): a detector's own entry of that name stays.
AttachContext ==
    /\ at = "context"
    /\ at' = "sanity"
    /\ cands' = {[c EXCEPT !.value = IF "own_value_context" \in c.ev THEN "unknown" ELSE value]
                 : c \in cands}
    /\ UNCHANGED <<units, profile, analyzers, value, failed>>

----------------------------------------------------------------------------
\* The gates of candidate_sanity that go by a function's name: they look at
\* every function of that name in the target, not at the candidate's file.
\* The others are modelled in Verdict.
Name(c) == units[c.unit].name
SameName(c) == {i \in DOMAIN units : units[i].name = Name(c)}

IsLead(c) == "lead_only" \in c.ev
KeepInternalHelperLead(c) ==
    /\ IsLead(c)
    /\ \/ c.detector \in {"zk_verifier", "invariant_reasoner"}
       \/ "settlement_words" \in units[c.unit].body

\* The two detectors whose finding is about the initializer itself are exempt.
IsSuppressed(c) ==
    /\ c.detector \notin {"uninitialized_implementation", "constructor_state_in_proxy_impl"}
    /\ \/ /\ \A i \in SameName(c) : "internal" \in units[i].header
          /\ ~KeepInternalHelperLead(c)
       \/ \E i \in SameName(c) : "proxy_admin_gate" \in units[i].body

ApplyCandidateSanity ==
    /\ at = "sanity"
    /\ at' = "corroborate"
    /\ cands' = {[c EXCEPT !.ev = @ \cup IF IsSuppressed(c) THEN {"suppressed", "refuted"} ELSE {}]
                 : c \in cands}
    /\ UNCHANGED <<units, profile, analyzers, value, failed>>

\* Two names of detectors on one function, suppressed candidates aside.
Live == {c \in cands : "suppressed" \notin c.ev}

\* Faulty variant: a second candidate of the same detector counts.
CorroboratesItself(c) == \E other \in Live : other # c /\ Name(other) = Name(c)

IsCorroborated(c) == \E other \in Live : Name(other) = Name(c) /\ other.by # c.by

MarkCorroboration ==
    /\ at = "corroborate"
    /\ at' = "collapse"
    /\ cands' = {[c EXCEPT !.ev = @ \cup IF c \in Live /\ IsCorroborated(c)
                                         THEN {"corroborated"} ELSE {}] : c \in cands}
    /\ UNCHANGED <<units, profile, analyzers, value, failed>>

----------------------------------------------------------------------------
\* What _content_key hashes of the function: leading underscores of the name
\* are stripped, so f and _f are one.
BodyHash(c) ==
    LET u == units[c.unit]
    IN  CASE c.detector \in KeepsHeader  -> u.header \cup u.body
          [] c.detector \in KeepsSnippet -> u.body
          [] OTHER                       -> {}

Title(c) == IF c.detector \in OneTitle THEN {} ELSE {c.rule}

ContentKey(c) == <<c.by, Title(c), BodyHash(c)>>

\* Faulty variant: the first copy keeps its own scores.
FirstOf(copies) == CHOOSE c \in copies : \A d \in copies : c.unit <= d.unit

\* The representative is the first copy, with the strongest scores of all.
Representative(copies) ==
    LET first == CHOOSE c \in copies : \A d \in copies : c.unit <= d.unit
    IN  [first EXCEPT !.impact = Max({c.impact : c \in copies}),
                      !.conf   = Max({c.conf : c \in copies})]

CollapseDuplicates ==
    /\ at = "collapse"
    /\ at' = "done"
    /\ cands' = {Representative({d \in cands : ContentKey(d) = ContentKey(c)}) : c \in cands}
    /\ UNCHANGED <<units, profile, analyzers, value, failed>>

Next ==
    \/ RunDetectors \/ RunReasoner \/ AttachContext
    \/ ApplyCandidateSanity \/ MarkCorroboration \/ CollapseDuplicates

Spec == Init /\ [][Next]_vars

----------------------------------------------------------------------------
\* The class of a candidate before any fork check or review.
Judge(c) == INSTANCE Verdict WITH
    Settings <- {Switches}, Signals <- {}, MaxSignals <- 0, Impacts <- {}, Confidences <- {},
    on <- Switches \cup IF profile \in UltraProfiles THEN {"ultra"} ELSE {},
    fact <- "none", value <- c.value, base <- [impact |-> c.impact, conf |-> c.conf],
    ev <- c.ev, score <- 0, class <- "LOW_OR_INFO", reply <- "none", at <- "score"

ClassOf(c) == Judge(c)!ScoreFinding(c.ev).class

\* What the detectors that did not raise flag.
Flags == UNION {Run(d) : d \in Running \ failed}

\* A candidate of the same detectors speaks for a flag, no weaker than it was.
Kept(f) == \E c \in cands : c.by = f.by /\ c.impact >= f.impact /\ c.conf >= f.conf

\* Whatever raises, is suppressed or is collapsed, what another detector flags
\* is still in the list at the end, with at least the scores it was given.
EveryFlagSurvives == at = "done" => \A f \in Flags : Kept(f)

\* The confidence of agreement needs another detector to agree, and no copy of
\* the same finding in another file counts.
CorroborationIsIndependent ==
    at = "done" => \A c \in cands :
        "corroborated" \in c.ev => \E other \in cands : other.by # c.by

\* A flag that no gate suppressed is not lost to one that was: collapsing
\* records the other copies and never drops them silently (dedup.py:91).
LiveFlagSurvives ==
    at = "done" => \A f \in Flags : ~IsSuppressed(f) =>
        \E c \in cands : c.by = f.by /\ "suppressed" \notin c.ev

\* What only an analyzer found is no confirmed critical before a fork check or
\* a look at the chain (analyzer_findings.py:15, :37).
AnalyzerAloneIsNotConfirmed ==
    at = "done" => \A c \in cands :
        c.detector = "analyzer_findings" /\ ClassOf(c) = "CONFIRMED_CRITICAL" =>
            \E other \in cands : other.detector # "analyzer_findings"

----------------------------------------------------------------------------
(* The inductive invariant of the two properties that hold.                *)

\* The scores of FindingCandidate, 0-10, in half points.
Scores == 0..20

IsCandidate(c) ==
    /\ c = [by |-> c.by, detector |-> c.detector, rule |-> c.rule, unit |-> c.unit,
            impact |-> c.impact, conf |-> c.conf, value |-> c.value, ev |-> c.ev]
    /\ c.unit \in DOMAIN units
    /\ c.impact \in Scores /\ c.conf \in Scores

CandidatesInv == units \in Targets /\ \A c \in cands : IsCandidate(c)

\* From the detectors on, no step loses a flag.
FlagsInv == at # "detect" => \A f \in Flags : Kept(f)

\* Only mark_corroboration marks, and what it marks has another beside it.
MarksInv ==
    \A c \in cands : "corroborated" \in c.ev =>
        /\ at \in {"collapse", "done"}
        /\ \E other \in cands : other.by # c.by

DetectionInv == CandidatesInv /\ FlagsInv /\ MarksInv
=============================================================================

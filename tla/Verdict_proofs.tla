---------------------------- MODULE Verdict_proofs ----------------------------
(* Proofs about Verdict, for every set of settings and signals, every bound *)
(* and every score a detector may give.                                     *)
EXTENDS Verdict, TLAPS

Score3 == [impact : 0..20, conf : 0..20, class : Class]
Evidence == SUBSET (Signal \cup Learned)

----------------------------------------------------------------------------
(* The score.                                                             *)

LEMMA CappedType ==
    ASSUME base \in [impact : 0..20, conf : 0..20], NEW e
    PROVE  CappedImpact(e) \in 0..20 /\ CappedConf(e) \in 0..20
BY DEF CappedImpact, CappedConf, Min2

LEMMA BonusType == \A e : Bonus(e) \in Nat /\ Malus(e) \in Nat
<1> TAKE e
<1>1. /\ If(Survived(e), 2) \in Nat /\ If("tool_agreement" \in e, 4) \in Nat
      /\ If(e \cap {"open_roles", "dead_role"} # {}, 2) \in Nat
      /\ If("poc_passed" \in e, 4) \in Nat /\ If("corroborated" \in e, 4) \in Nat
      /\ If("storage_layout" \in e, 1) \in Nat /\ If("graph_sim" \in e, 1) \in Nat
      /\ If("governance_controlled" \in e, 6) \in Nat
      /\ If("documented_centralization" \in e, 6) \in Nat
  BY DEF If
<1>2. QED
  BY <1>1 DEF Bonus, Malus

\* The confidence before the class; what was refuted keeps at most 4.0 under
\* ultra-deep, 2.0 otherwise, and 3.0 only where a lead's floor applies.
LEMMA ConfidenceType ==
    ASSUME base \in [impact : 0..20, conf : 0..20], NEW e, NEW impact \in 0..20
    PROVE  /\ Confidence(e, impact) \in 0..20
           /\ "refuted" \in e => Confidence(e, impact) <= 8
<1> DEFINE sum    == Minus(CappedConf(e) + Bonus(e), Malus(e))
           ref    == Refuted(e, sum)
           capped == Unproven(e, impact, ref)
<1>1. sum \in Nat
  <2>1. CappedConf(e) \in Nat /\ Bonus(e) \in Nat /\ Malus(e) \in Nat
    BY CappedType, BonusType
  <2>2. QED
    BY <2>1 DEF Minus
<1> HIDE DEF sum
<1>2. ref \in Nat /\ ("refuted" \in e => ref <= 8)
  BY <1>1 DEF Refuted, Min2
<1> HIDE DEF ref
<1>3. capped \in Nat /\ ("refuted" \in e => capped <= 8)
  BY <1>2 DEF Unproven, Min2
<1> HIDE DEF capped
<1>4. Confidence(e, impact) = Min2(20, IF Lead(e) /\ impact >= 14 THEN Max2(capped, 6) ELSE capped)
  BY DEF Confidence, capped, ref, sum
<1>5. "refuted" \in e => ~Lead(e)
  BY DEF Lead
<1>6. QED
  BY <1>3, <1>4, <1>5 DEF Min2, Max2

LEMMA ClassifyType ==
    ASSUME NEW i \in 0..20, NEW k \in 0..20
    PROVE  /\ Classify(i, k) \in Class
           /\ k <= 8 => Classify(i, k) \notin Critical
BY DEF Classify, Class, Critical, Hidden

\* score_finding: its result, and what a refutation and a suppression do to it.
LEMMA ScoreType ==
    ASSUME base \in [impact : 0..20, conf : 0..20], NEW e
    PROVE  /\ ScoreFinding(e) \in Score3
           /\ "suppressed" \in e => ScoreFinding(e).class = "FALSE_POSITIVE"
           /\ "refuted" \in e => ScoreFinding(e).class \notin Critical
<1> DEFINE impact == CappedImpact(e)
           conf   == Confidence(e, impact)
           first  == Classify(impact, conf)
           gated  == GatedClass(e, first)
           kept   == IF gated # first THEN Min2(conf, 12) ELSE conf
           final  == IF Rare(e) /\ impact >= 14 THEN Max2(kept, 7) ELSE kept
           class3 == LeadClass(e, impact, RareClass(e, impact, gated))
<1>1. impact \in 0..20
  BY CappedType
<1> HIDE DEF impact
<1>2. conf \in 0..20 /\ ("refuted" \in e => conf <= 8)
  BY <1>1, ConfidenceType
<1> HIDE DEF conf
<1>3. first \in Class /\ ("refuted" \in e => first \notin Critical)
  BY <1>1, <1>2, ClassifyType
<1> HIDE DEF first
<1>4. gated \in Class /\ ("refuted" \in e => gated \notin Critical)
  BY <1>3 DEF GatedClass, Class, Critical
<1>5. final \in 0..20
  BY <1>2 DEF Min2, Max2
<1> HIDE DEF gated, final
<1>6. RareClass(e, impact, gated) \in Class
      /\ ("refuted" \in e => RareClass(e, impact, gated) \notin Critical)
  BY <1>4 DEF RareClass, Class, Critical
<1>7. class3 \in Class /\ ("refuted" \in e => class3 \notin Critical)
  BY <1>6 DEF LeadClass, Class, Critical
<1> HIDE DEF class3
<1>8. ScoreFinding(e) = IF "suppressed" \in e
        THEN [impact |-> impact, conf |-> 0, class |-> "FALSE_POSITIVE"]
        ELSE [impact |-> impact, conf |-> final, class |-> class3]
  BY DEF ScoreFinding, final, gated, first, conf, impact, class3
<1>9. "FALSE_POSITIVE" \in Class \ Critical
  BY DEF Class, Hidden, Critical
<1>10. QED
  BY <1>1, <1>5, <1>7, <1>8, <1>9 DEF Score3

----------------------------------------------------------------------------
(* The invariant behind the properties of the chain.                      *)

\* No fork check has passed and no verdict has come before its step.
StageInv ==
    /\ at \in Unscored => "poc_passed" \notin ev
    /\ at \in Unscored \cup {"poc", "sim", "graph_sim"} => "graph_sim" \notin ev
    /\ at \in Unscored \cup {"poc", "sim", "graph_sim", "review"} => reply = "none"

\* A suppressed candidate is passed over by everything that costs something.
HiddenInv ==
    "suppressed" \in ev =>
        /\ ev \cap {"poc_passed", "graph_sim"} = {}
        /\ reply = "none"
        /\ at = "done" => class = "FALSE_POSITIVE"

\* A lead that was refuted was so by a gate or by a control that was cited.
LeadInv ==
    IsLead /\ "refuted" \in ev => ev \cap ({"suppressed"} \cup Concrete) # {}

\* What a review says of a lead, and what is persisted without one.
ReplyInv ==
    /\ reply = "verdict" /\ at \in {"persist", "done"} =>
         (IsLead /\ class \in Hidden => ev \cap ({"suppressed"} \cup Concrete) # {})
    /\ reply = "none" /\ at = "done" => class = score.class

IInv == TypeOK /\ StageInv /\ ScoreIsCurrent /\ HiddenInv /\ LeadInv /\ ReplyInv

\* A lead of high impact that no gate or cited control took away is in sight.
LEMMA LeadScore ==
    ASSUME base \in [impact : 0..20, conf : 0..20], NEW e,
           "lead_only" \in e, "refuted" \notin e, "suppressed" \notin e,
           ScoreFinding(e).impact >= 14
    PROVE  ScoreFinding(e).class \notin Hidden
<1> DEFINE impact == CappedImpact(e)
           conf   == Confidence(e, impact)
           first  == Classify(impact, conf)
           gated  == GatedClass(e, first)
           kept   == IF gated # first THEN Min2(conf, 12) ELSE conf
           final  == IF Rare(e) /\ impact >= 14 THEN Max2(kept, 7) ELSE kept
           class2 == RareClass(e, impact, gated)
<1>1. ScoreFinding(e) = [impact |-> impact, conf |-> final, class |-> LeadClass(e, impact, class2)]
  BY DEF ScoreFinding, class2, final, kept, gated, first, conf, impact
<1> HIDE DEF impact, final, class2
<1>2. impact >= 14 /\ ScoreFinding(e).class = LeadClass(e, impact, class2)
  BY <1>1
<1>3. QED
  BY <1>2 DEF LeadClass, Lead, Hidden

THEOREM InitInv == Init => IInv
<1> SUFFICES ASSUME Init PROVE IInv
  OBVIOUS
<1>1. TypeOK
  <2>1. on \in SUBSET Switch /\ ev \in SUBSET (Signal \cup Learned)
    BY VerdictAssumption DEF Init
  <2>2. base \in [impact : 0..20, conf : 0..20]
    BY VerdictAssumption DEF Init
  <2>3. score \in Score3 /\ class \in Class
    BY DEF Init, NoScore, Score3, Class, Hidden
  <2>4. QED
    BY <2>1, <2>2, <2>3 DEF Init, TypeOK, Score3, Unscored
<1>2. StageInv /\ HiddenInv /\ LeadInv
  <2>1. ev \in SUBSET Signal
    BY VerdictAssumption DEF Init
  <2>2. ev \cap {"poc_passed", "graph_sim", "suppressed", "refuted"} = {}
    BY <2>1 DEF Signal
  <2>3. QED
    BY <2>2 DEF Init, StageInv, HiddenInv, LeadInv
<1>3. ScoreIsCurrent /\ ReplyInv
  BY DEF Init, ScoreIsCurrent, ReplyInv, Scored
<1>4. QED
  BY <1>1, <1>2, <1>3 DEF IInv

----------------------------------------------------------------------------
(* One lemma for each step.                                               *)

\* The score of some evidence depends on no other variable.
LEMMA ScoreFrame ==
    ASSUME UNCHANGED <<on, value, base>>
    PROVE  \A e : ScoreFinding(e)' = ScoreFinding(e)
<1> TAKE e
<1>1. UNCHANGED CappedImpact(e) /\ UNCHANGED CappedConf(e)
  BY DEF CappedImpact, CappedConf, Inert, Unborn
<1>2. \A i : UNCHANGED Confidence(e, i)
  BY <1>1 DEF Confidence, Refuted, Unproven
<1>3. \A c : UNCHANGED GatedClass(e, c)
  BY DEF GatedClass, HasCriticalValuePath
<1>4. UNCHANGED Rare(e) /\ \A i, c : UNCHANGED RareClass(e, i, c)
  BY DEF RareClass, Rare
<1>5. QED
  BY <1>1, <1>2, <1>3, <1>4 DEF ScoreFinding

\* What the steps before the score may add to the evidence.
Early == {"never_initialized", "corroborated", "suppressed", "refuted",
          "refuted_concrete", "concrete_mitigation", "survived"}

LEMMA EarlyStep ==
    ASSUME IInv, UNCHANGED <<on, fact, value, base, score, class, reply>>,
           at \in Unscored, at' \in Unscored,
           NEW X, X \subseteq Early, ev' = ev \cup X, LeadInv'
    PROVE  IInv'
<1>1. "poc_passed" \notin X /\ "graph_sim" \notin X /\ X \subseteq Learned
  BY DEF Early, Learned
<1>2. TypeOK'
  BY <1>1 DEF IInv, TypeOK
<1>3. at' \notin Scored /\ at' \notin {"persist", "done", "review", "poc", "sim", "graph_sim"}
  BY DEF Unscored, Scored
<1>4. reply = "none" /\ "poc_passed" \notin ev /\ "graph_sim" \notin ev
  BY DEF IInv, StageInv
<1>5. StageInv' /\ ScoreIsCurrent' /\ HiddenInv' /\ ReplyInv'
  BY <1>1, <1>3, <1>4 DEF StageInv, ScoreIsCurrent, HiddenInv, ReplyInv
<1>6. QED
  BY <1>2, <1>5 DEF IInv

LEMMA SanityStep ==
    ASSUME IInv, ApplyCandidateSanity
    PROVE  IInv'
<1> DEFINE X == CASE WrongChain                         -> Suppression \cup Concrete
                  [] BindingIsSafe({"safe_in_function"}) -> Liveness \cup Suppression \cup Concrete
                  [] SuppressionReason                   -> Liveness \cup Suppression
                  [] OTHER                               -> Liveness
<1>1. Liveness \subseteq {"never_initialized"}
  BY DEF Liveness
<1>2. X \in {Suppression \cup Concrete, Liveness \cup Suppression \cup Concrete,
            Liveness \cup Suppression, Liveness}
  OBVIOUS
<1>3. ev' = ev \cup X /\ at = "sanity" /\ at' = "corroborate"
      /\ UNCHANGED <<on, fact, value, base, score, class, reply>>
  BY DEF ApplyCandidateSanity
<1> HIDE DEF X
<1>4. X \subseteq Early /\ ("refuted" \in X => "suppressed" \in X)
  BY <1>1, <1>2 DEF Suppression, Concrete, Early
<1>5. LeadInv'
  <2>1. LeadInv
    BY DEF IInv
  <2>2. "lead_only" \in ev' => "lead_only" \in ev
    BY <1>3, <1>4 DEF Early
  <2>3. QED
    BY <1>3, <1>4, <2>1, <2>2 DEF LeadInv, IsLead
<1>6. QED
  BY <1>3, <1>4, <1>5, EarlyStep DEF Unscored

LEMMA CorroborateStep ==
    ASSUME IInv, MarkCorroboration
    PROVE  IInv'
<1>1. PICK X \in {{}, {"corroborated"}} : ev' = ev \cup X
  BY DEF MarkCorroboration
<1>2. X \subseteq Early
  BY DEF Early
<1>3. LeadInv'
  BY <1>1 DEF IInv, LeadInv, IsLead
<1>4. QED
  BY <1>1, <1>2, <1>3, EarlyStep DEF MarkCorroboration, Unscored

LEMMA LearnStep ==
    ASSUME IInv, ApplySuppression
    PROVE  IInv'
<1>1. PICK X \in {{}, {"suppressed"}} : ev' = ev \cup X
  BY DEF ApplySuppression
<1>2. X \subseteq Early
  BY DEF Early
<1>3. LeadInv'
  BY <1>1 DEF IInv, LeadInv, IsLead
<1>4. QED
  BY <1>1, <1>2, <1>3, EarlyStep DEF ApplySuppression, Unscored

\* A lead is refuted by a control that is cited, whatever the model answers.
LEMMA RefuteStep ==
    ASSUME IInv, Refute
    PROVE  IInv'
<1>1. PICK X \in SUBSET Early : /\ ev' = ev \cup X
                                /\ IsLead /\ "refuted" \in X => "concrete_mitigation" \in X
  <2>1. \/ ev' = ev
        \/ ev' = ev \cup {"refuted"} \cup Concrete
        \/ \E real, trivial, concrete \in BOOLEAN : ev' = ev \cup Refutation(real, trivial, concrete)
    BY DEF Refute
  <2>2. CASE ev' = ev
    <3> DEFINE X == {}
    <3>1. /\ X \in SUBSET Early
          /\ ev' = ev \cup X
          /\ "refuted" \notin X
      BY <2>2
    <3> HIDE DEF X
    <3>2. QED
      BY <3>1
  <2>3. CASE ev' = ev \cup {"refuted"} \cup Concrete
    <3> DEFINE X == {"refuted"} \cup Concrete
    <3>1. /\ X \in SUBSET Early
          /\ ev' = ev \cup X
          /\ "concrete_mitigation" \in X
      BY <2>3 DEF Early, Concrete
    <3> HIDE DEF X
    <3>2. QED
      BY <3>1
  <2>4. CASE \E real, trivial, concrete \in BOOLEAN : ev' = ev \cup Refutation(real, trivial, concrete)
    <3>1. PICK real \in BOOLEAN, trivial \in BOOLEAN, concrete \in BOOLEAN :
            ev' = ev \cup Refutation(real, trivial, concrete)
      BY <2>4
    <3> DEFINE X == Refutation(real, trivial, concrete)
    <3>2. X \in SUBSET Early
      BY DEF Refutation, Early
    <3>3. IsLead => Protected
      BY DEF IsLead, Protected
    <3>4. IsLead /\ "refuted" \in X => "concrete_mitigation" \in X
      BY <3>3 DEF Refutation
    <3> HIDE DEF X
    <3>5. QED
      BY <3>1, <3>2, <3>4 DEF X
  <2>5. QED
    BY <2>1, <2>2, <2>3, <2>4
<1>2. X \subseteq Early
  BY <1>1
<1>3. LeadInv'
  <2>1. LeadInv
    BY DEF IInv
  <2>2. "lead_only" \in ev' => "lead_only" \in ev
    BY <1>1, <1>2 DEF Early
  <2>3. QED
    BY <1>1, <1>2, <2>1, <2>2 DEF LeadInv, IsLead, Concrete
<1>4. at = "refute" /\ at' = "score" /\ UNCHANGED <<on, fact, value, base, score, class, reply>>
  BY DEF Refute
<1>5. QED
  BY <1>1, <1>2, <1>3, <1>4, EarlyStep DEF Unscored

LEMMA ScoreStep ==
    ASSUME IInv, Score
    PROVE  IInv'
<1>1. ScoreFinding(ev) \in Score3
  BY ScoreType DEF IInv, TypeOK
<1>2. TypeOK'
  BY <1>1 DEF IInv, TypeOK, Score, Score3, Scored
<1>3. ScoreIsCurrent'
  <2>1. (ev \ {"graph_sim"})' = ev
    BY DEF Score, IInv, StageInv, Unscored
  <2>2. score' = ScoreFinding(ev)
    BY DEF Score
  <2>3. ScoreFinding(ev \ {"graph_sim"})' = ScoreFinding(ev)
    BY <2>1, ScoreFrame DEF Score
  <2>4. QED
    BY <2>2, <2>3 DEF ScoreIsCurrent
<1>4. StageInv' /\ HiddenInv' /\ LeadInv' /\ ReplyInv'
  BY DEF IInv, Score, StageInv, HiddenInv, LeadInv, ReplyInv, IsLead, Unscored
<1>5. QED
  BY <1>2, <1>3, <1>4 DEF IInv

LEMMA ForkStep ==
    ASSUME IInv, NEW here, NEW next, NEW eligible,
           <<here, next>> \in {<<"poc", "sim">>, <<"sim", "graph_sim">>},
           CheckOnFork(here, next, eligible)
    PROVE  IInv'
<1>1. /\ at = here /\ at' = next /\ at \in {"poc", "sim"} /\ at' \in {"sim", "graph_sim"}
      /\ UNCHANGED <<on, fact, value, base, class, reply>>
  BY DEF CheckOnFork
<1>2. CASE UNCHANGED <<ev, score>>
  <2>1. ScoreIsCurrent'
    <3>1. ScoreFinding(ev \ {"graph_sim"})' = ScoreFinding(ev \ {"graph_sim"})
      BY <1>1, <1>2, ScoreFrame
    <3>2. QED
      BY <1>1, <1>2, <3>1 DEF IInv, ScoreIsCurrent, Scored
  <2>2. TypeOK'
    BY <1>1, <1>2 DEF IInv, TypeOK, Scored
  <2>3. QED
    BY <1>1, <1>2, <2>1, <2>2 DEF IInv, StageInv, HiddenInv, LeadInv, ReplyInv, IsLead, Unscored
<1>3. CASE "suppressed" \notin ev /\ Passed
  <2>1. ev' = ev \cup {"poc_passed"} /\ score' = ScoreFinding(ev')
    BY <1>3 DEF Passed
  <2>2. TypeOK'
    <3>1. score' \in Score3
      BY <2>1, ScoreType DEF IInv, TypeOK
    <3>2. QED
      BY <1>1, <2>1, <3>1 DEF IInv, TypeOK, Scored, Score3, Learned
  <2>3. ScoreIsCurrent'
    <3>1. (ev \ {"graph_sim"})' = ev'
      BY <1>1, <2>1 DEF IInv, StageInv
    <3>2. ScoreFinding(ev \ {"graph_sim"})' = ScoreFinding(ev')
      BY <1>1, <3>1, ScoreFrame
    <3>3. QED
      BY <2>1, <3>2 DEF ScoreIsCurrent
  <2>4. StageInv' /\ HiddenInv' /\ LeadInv' /\ ReplyInv'
    BY <1>1, <1>3, <2>1 DEF IInv, StageInv, HiddenInv, LeadInv, ReplyInv, IsLead, Unscored, Concrete
  <2>5. QED
    BY <2>2, <2>3, <2>4 DEF IInv
<1>4. QED
  BY <1>2, <1>3 DEF CheckOnFork

LEMMA GraphSimStep ==
    ASSUME IInv, GraphSim
    PROVE  IInv'
<1>1. TypeOK'
  BY DEF IInv, TypeOK, GraphSim, Scored, Learned
<1>2. ScoreIsCurrent'
  <2>1. (ev \ {"graph_sim"})' = ev \ {"graph_sim"}
    BY DEF GraphSim
  <2>2. ScoreFinding(ev \ {"graph_sim"})' = ScoreFinding(ev \ {"graph_sim"})
    BY <2>1, ScoreFrame DEF GraphSim
  <2>3. QED
    BY <2>2 DEF GraphSim, IInv, ScoreIsCurrent, Scored
<1>3. StageInv' /\ HiddenInv' /\ LeadInv' /\ ReplyInv'
  BY DEF IInv, GraphSim, StageInv, HiddenInv, LeadInv, ReplyInv, IsLead, Unscored, Concrete
<1>4. QED
  BY <1>1, <1>2, <1>3 DEF IInv

\* The guardrails keep a lead in sight, whatever the model says of it.
LEMMA ReviewStep ==
    ASSUME IInv, ReviewFinding
    PROVE  IInv'
<1>1. /\ at = "review" /\ at' = "persist"
      /\ UNCHANGED <<on, fact, value, base, ev, score>>
  BY DEF ReviewFinding
<1>2. ScoreIsCurrent'
  <2>1. ScoreFinding(ev \ {"graph_sim"})' = ScoreFinding(ev \ {"graph_sim"})
    BY <1>1, ScoreFrame
  <2>2. QED
    BY <1>1, <2>1 DEF IInv, ScoreIsCurrent, Scored
<1>3. class' \in Class /\ reply' \in {"none", "binding_refuted", "verdict"}
  BY DEF ReviewFinding, IInv, TypeOK, FloorReview, CapReview, GateReview, Class, Critical, Hidden
<1>4. TypeOK'
  BY <1>1, <1>3 DEF IInv, TypeOK, Scored
<1>5. ReplyInv'
  <2>1. CASE reply' = "verdict" /\ IsLead
    <3>1. PICK c \in Class, triad \in BOOLEAN :
            class' = FloorReview(CapReview(GateReview(c, triad)))
      BY <2>1 DEF ReviewFinding, IInv, StageInv
    <3>2. IsHighSignal
      BY <2>1 DEF IsHighSignal, Protected, IsLead
    <3>3. class' \in Hidden => IsDefused
      BY <3>1, <3>2 DEF FloorReview, Hidden
    <3>4. QED
      BY <1>1, <3>3 DEF ReplyInv, IsDefused
  <2>2. QED
    BY <1>1, <2>1 DEF ReplyInv, IsLead
<1>6. StageInv' /\ HiddenInv' /\ LeadInv'
  <2>1. "suppressed" \in ev => reply' = "none"
    BY DEF ReviewFinding, IInv, StageInv
  <2>2. QED
    BY <1>1, <2>1 DEF IInv, StageInv, HiddenInv, LeadInv, IsLead, Unscored
<1>7. QED
  BY <1>2, <1>4, <1>5, <1>6 DEF IInv

LEMMA PersistStep ==
    ASSUME IInv, PersistFinding
    PROVE  IInv'
<1>1. /\ at = "persist" /\ at' = "done"
      /\ UNCHANGED <<on, fact, value, base, ev, score, reply>>
      /\ class' = IF reply = "none" THEN score.class ELSE class
  BY DEF PersistFinding
<1>2. ScoreIsCurrent'
  <2>1. ScoreFinding(ev \ {"graph_sim"})' = ScoreFinding(ev \ {"graph_sim"})
    BY <1>1, ScoreFrame
  <2>2. QED
    BY <1>1, <2>1 DEF IInv, ScoreIsCurrent, Scored
<1>3. TypeOK'
  BY <1>1 DEF IInv, TypeOK, Scored
<1>4. "suppressed" \in ev => class' = "FALSE_POSITIVE"
  <2>1. "suppressed" \in ev => ScoreFinding(ev \ {"graph_sim"}).class = "FALSE_POSITIVE"
    BY ScoreType DEF IInv, TypeOK
  <2>2. QED
    BY <1>1, <2>1 DEF IInv, HiddenInv, ScoreIsCurrent, Scored
<1>5. StageInv' /\ HiddenInv' /\ LeadInv' /\ ReplyInv'
  BY <1>1, <1>4 DEF IInv, StageInv, HiddenInv, LeadInv, ReplyInv, IsLead, Unscored
<1>6. QED
  BY <1>2, <1>3, <1>5 DEF IInv

LEMMA StutterStep ==
    ASSUME IInv, UNCHANGED vars
    PROVE  IInv'
<1>1. ScoreFinding(ev \ {"graph_sim"})' = ScoreFinding(ev \ {"graph_sim"})
  BY ScoreFrame DEF vars
<1>2. QED
  BY <1>1 DEF vars, IInv, TypeOK, StageInv, ScoreIsCurrent, HiddenInv, LeadInv, ReplyInv, IsLead

LEMMA StepInv ==
    ASSUME IInv, [Next]_vars
    PROVE  IInv'
<1>1. CASE Poc
  BY <1>1, ForkStep DEF Poc
<1>2. CASE Sim
  BY <1>2, ForkStep DEF Sim
<1>3. QED
  BY <1>1, <1>2, SanityStep, CorroborateStep, LearnStep, RefuteStep, ScoreStep, GraphSimStep,
     ReviewStep, PersistStep, StutterStep DEF Next
----------------------------------------------------------------------------
(* The theorems.                                                          *)

\* In every reachable state each variable has its type, no check has passed
\* before its step, the score is the score of the evidence, and what is
\* suppressed or refuted was so by a gate, the table or a cited control.
THEOREM Invariance == Spec => []IInv
<1>1. Init => IInv
  BY InitInv
<1>2. IInv /\ [Next]_vars => IInv'
  BY StepInv
<1>3. QED
  BY <1>1, <1>2, PTL DEF Spec

\* Every variable keeps its type: impact and confidence stay within 0.0 and
\* 10.0 whatever bonuses, caps and floors score_finding applies.
THEOREM TypeCorrect == Spec => []TypeOK
<1>1. IInv => TypeOK
  BY DEF IInv
<1>2. QED
  BY <1>1, Invariance, PTL

\* What is persisted was scored on the evidence that is persisted with it: no
\* fork check of process_target leaves a stale score behind.
THEOREM CurrentCorrect == Spec => []ScoreIsCurrent
<1>1. IInv => ScoreIsCurrent
  BY DEF IInv
<1>2. QED
  BY <1>1, Invariance, PTL

\* A suppressed candidate ends as a false positive, and no fork check and no
\* review is spent on it, whatever floors apply to it.
THEOREM SuppressedCorrect == Spec => []SuppressedIsHidden
<1>1. IInv => SuppressedIsHidden
  <2> SUFFICES ASSUME IInv, "suppressed" \in ev, at \in Scored
               PROVE  score.class = "FALSE_POSITIVE"
    BY DEF SuppressedIsHidden, IInv, HiddenInv
  <2>1. score = ScoreFinding(ev \ {"graph_sim"})
    BY DEF IInv, ScoreIsCurrent
  <2>2. QED
    BY <2>1, ScoreType DEF IInv, TypeOK
<1>2. QED
  BY <1>1, Invariance, PTL

\* What the skeptic refuted gets no critical score from score_finding, with
\* the floors of ultra-deep and of a lead, fork checks passed or not.
THEOREM RefutedCorrect == Spec => []RefutedScoreIsNotCritical
<1>1. IInv => RefutedScoreIsNotCritical
  <2> SUFFICES ASSUME IInv, "refuted" \in ev, at \in Scored
               PROVE  score.class \notin Critical
    BY DEF RefutedScoreIsNotCritical
  <2>1. score = ScoreFinding(ev \ {"graph_sim"})
    BY DEF IInv, ScoreIsCurrent
  <2>2. QED
    BY <2>1, ScoreType DEF IInv, TypeOK
<1>2. QED
  BY <1>1, Invariance, PTL

\* A lead of high impact stays in sight through score and review: only a
\* control someone cited, a gate or the user's table takes it away.
THEOREM LeadCorrect == Spec => []LeadIsKept
<1>1. IInv => LeadIsKept
  <2> SUFFICES ASSUME IInv, at = "done", IsLead, score.impact >= 14, class \in Hidden,
                      ev \cap ({"suppressed"} \cup Concrete) = {},
                      reply # "binding_refuted"
               PROVE  FALSE
    BY DEF LeadIsKept
  <2> DEFINE e == ev \ {"graph_sim"}
  <2>1. /\ "lead_only" \in e /\ "refuted" \notin e /\ "suppressed" \notin e
    BY DEF IInv, LeadInv, IsLead
  <2>2. score = ScoreFinding(e)
    BY DEF IInv, ScoreIsCurrent, Scored
  <2>3. reply \in {"none", "verdict"}
    BY DEF IInv, TypeOK
  <2>4. CASE reply = "verdict"
    BY <2>4 DEF IInv, ReplyInv
  <2>5. CASE reply = "none"
    <3>1. class = ScoreFinding(e).class
      BY <2>2, <2>5 DEF IInv, ReplyInv
    <3>2. base \in [impact : 0..20, conf : 0..20] /\ ScoreFinding(e).impact >= 14
      BY <2>2 DEF IInv, TypeOK
    <3> HIDE DEF e
    <3>3. QED
      BY <2>1, <3>1, <3>2, LeadScore
  <2>6. QED
    BY <2>3, <2>4, <2>5
<1>2. QED
  BY <1>1, Invariance, PTL
\* What a fork check that passes adds to the confidence outweighs the bonus of
\* a survived refutation, which it takes away.
LEMMA PassingBonus ==
    ASSUME NEW e, "poc_passed" \notin e
    PROVE  /\ Bonus(e \cup {"poc_passed"}) >= Bonus(e)
           /\ Malus(e \cup {"poc_passed"}) = Malus(e)
<1> DEFINE p == e \cup {"poc_passed"}
           rest(x) == If("tool_agreement" \in x, 4) + If(x \cap {"open_roles", "dead_role"} # {}, 2)
           late(x) == If("corroborated" \in x, 4) + If("storage_layout" \in x, 1)
                      + If("graph_sim" \in x, 1)
<1>1. /\ "tool_agreement" \in p <=> "tool_agreement" \in e
      /\ p \cap {"open_roles", "dead_role"} = e \cap {"open_roles", "dead_role"}
      /\ "corroborated" \in p <=> "corroborated" \in e
      /\ "storage_layout" \in p <=> "storage_layout" \in e
      /\ "graph_sim" \in p <=> "graph_sim" \in e
      /\ "governance_controlled" \in p <=> "governance_controlled" \in e
      /\ "documented_centralization" \in p <=> "documented_centralization" \in e
      /\ "poc_passed" \in p
  OBVIOUS
<1>2. If(Survived(e), 2) \in {0, 2} /\ If(Survived(p), 2) \in {0, 2}
  BY DEF If
<1>3. /\ rest(p) = rest(e) /\ late(p) = late(e) /\ Malus(p) = Malus(e)
      /\ If("poc_passed" \in p, 4) = 4 /\ If("poc_passed" \in e, 4) = 0
  BY <1>1 DEF If, Malus
<1>4. rest(e) \in Nat /\ late(e) \in Nat
  BY DEF If
<1>5. /\ Bonus(e) = If(Survived(e), 2) + rest(e) + late(e)
      /\ Bonus(p) = If(Survived(p), 2) + rest(e) + 4 + late(e)
  <2>1. /\ If("tool_agreement" \in e, 4) \in Nat
        /\ If(e \cap {"open_roles", "dead_role"} # {}, 2) \in Nat
        /\ If("corroborated" \in e, 4) \in Nat /\ If("storage_layout" \in e, 1) \in Nat
        /\ If("graph_sim" \in e, 1) \in Nat
    BY DEF If
  <2>2. /\ If("tool_agreement" \in p, 4) = If("tool_agreement" \in e, 4)
        /\ If(p \cap {"open_roles", "dead_role"} # {}, 2)
             = If(e \cap {"open_roles", "dead_role"} # {}, 2)
        /\ If("corroborated" \in p, 4) = If("corroborated" \in e, 4)
        /\ If("storage_layout" \in p, 1) = If("storage_layout" \in e, 1)
        /\ If("graph_sim" \in p, 1) = If("graph_sim" \in e, 1)
    BY <1>1
  <2> HIDE DEF p
  <2>3. QED
    BY <1>2, <1>3, <2>1, <2>2 DEF Bonus
<1> HIDE DEF rest, late
<1>6. Bonus(p) >= Bonus(e)
  BY <1>2, <1>4, <1>5
<1>7. QED
  BY <1>3, <1>6

\* The confidence only rises with a check that passes.
LEMMA PassingConfidence ==
    ASSUME base \in [impact : 0..20, conf : 0..20], NEW e, NEW i \in 0..20,
           "poc_passed" \notin e
    PROVE  Confidence(e \cup {"poc_passed"}, i) >= Confidence(e, i)
<1> DEFINE p == e \cup {"poc_passed"}
           sum(x)    == Minus(CappedConf(x) + Bonus(x), Malus(x))
           ref(x)    == Refuted(x, sum(x))
           capped(x) == Unproven(x, i, ref(x))
<1>1. /\ CappedConf(p) = CappedConf(e) /\ CappedConf(e) \in Nat
      /\ Bonus(p) \in Nat /\ Bonus(e) \in Nat /\ Malus(e) \in Nat
      /\ Bonus(p) >= Bonus(e) /\ Malus(p) = Malus(e)
  <2>1. CappedConf(p) = CappedConf(e)
    BY DEF CappedConf, Inert, Unborn
  <2>2. QED
    BY <2>1, CappedType, BonusType, PassingBonus
<1>2. sum(p) \in Nat /\ sum(e) \in Nat /\ sum(p) >= sum(e)
  BY <1>1 DEF Minus
<1> HIDE DEF sum
<1>3. ref(p) \in Nat /\ ref(e) \in Nat /\ ref(p) >= ref(e)
  <2>1. /\ "refuted" \in p <=> "refuted" \in e
        /\ p \cap {"structural", "confirmable"} = e \cap {"structural", "confirmable"}
    OBVIOUS
  <2> HIDE DEF p
  <2>2. QED
    BY <1>2, <2>1 DEF Refuted, Min2
<1> HIDE DEF ref
<1>4. capped(p) \in Nat /\ capped(e) \in Nat /\ capped(p) >= capped(e)
  <2>1. HasUnauthorizedPath(p)
    BY DEF HasUnauthorizedPath
  <2> HIDE DEF p
  <2>2. capped(p) = ref(p)
    BY <2>1 DEF Unproven
  <2>3. capped(e) \in Nat /\ capped(e) <= ref(e)
    BY <1>3 DEF Unproven, Min2
  <2> HIDE DEF capped
  <2>4. QED
    BY <1>3, <2>2, <2>3
<1> HIDE DEF capped
<1>5. Lead(p) <=> Lead(e)
  BY DEF Lead
<1> HIDE DEF p
<1>6. /\ Confidence(p, i) = Min2(20, IF Lead(p) /\ i >= 14 THEN Max2(capped(p), 6) ELSE capped(p))
      /\ Confidence(e, i) = Min2(20, IF Lead(e) /\ i >= 14 THEN Max2(capped(e), 6) ELSE capped(e))
  BY DEF Confidence, capped, ref, sum
<1>7. Confidence(p, i) >= Confidence(e, i)
  BY <1>4, <1>5, <1>6 DEF Min2, Max2
<1>8. QED
  BY <1>7 DEF p

LEMMA RankIs ==
    /\ Rank("FALSE_POSITIVE") = 0 /\ Rank("LOW_OR_INFO") = 1
    /\ Rank("NEEDS_MORE_INVESTIGATION") = 2
    /\ Rank("LIKELY_CRITICAL_NEEDS_POC") = 3 /\ Rank("CONFIRMED_CRITICAL") = 4
BY DEF Rank

\* A better confidence never makes a lower class.
LEMMA ClassifyRises ==
    ASSUME NEW i \in 0..20, NEW k \in 0..20, NEW m \in 0..20, m >= k
    PROVE  Rank(Classify(i, m)) >= Rank(Classify(i, k))
BY RankIs DEF Classify

\* A check that passes opens the gates of score_finding and closes none.
LEMMA PassingScore ==
    ASSUME base \in [impact : 0..20, conf : 0..20], NEW e, "suppressed" \notin e
    PROVE  Rank(ScoreFinding(e \cup {"poc_passed"}).class) >= Rank(ScoreFinding(e).class)
<1> DEFINE p == e \cup {"poc_passed"}
           i == CappedImpact(e)
           first(x) == Classify(i, Confidence(x, i))
           gated(x) == GatedClass(x, first(x))
           rare(x)  == RareClass(x, i, gated(x))
<1>1. CASE "poc_passed" \in e
  <2>1. p = e /\ ScoreFinding(e).class \in Class
    BY <1>1, ScoreType DEF Score3
  <2>2. Rank(ScoreFinding(e).class) \in Nat
    BY <2>1, RankIs DEF Class, Critical, Hidden
  <2>3. QED
    BY <2>1, <2>2
<1>2. CASE "poc_passed" \notin e
  <2>1. CappedImpact(p) = i /\ i \in 0..20
    BY CappedType DEF CappedImpact, Inert, Unborn
  <2> HIDE DEF i
  <2>2. /\ Confidence(p, i) \in 0..20 /\ Confidence(e, i) \in 0..20
        /\ Confidence(p, i) >= Confidence(e, i)
    BY <1>2, <2>1, ConfidenceType, PassingConfidence
  <2>3. /\ first(p) \in Class /\ first(e) \in Class
        /\ Rank(first(p)) >= Rank(first(e))
    BY <2>1, <2>2, ClassifyType, ClassifyRises
  <2>4. "poc_passed" \in p
    OBVIOUS
  <2>5. (Rare(p) <=> Rare(e)) /\ (Lead(p) <=> Lead(e))
    BY DEF Rare, Lead
  <2>6. /\ ScoreFinding(p).class = LeadClass(p, i, rare(p))
        /\ ScoreFinding(e).class = LeadClass(e, i, rare(e))
    <3>1. "suppressed" \notin p
      OBVIOUS
    <3> HIDE DEF p
    <3>2. QED
      BY <2>1, <3>1 DEF ScoreFinding, i
  <2> HIDE DEF p, first
  <2>7. /\ gated(p) \in Class /\ gated(e) \in Class
        /\ Rank(gated(p)) >= Rank(gated(e))
    <3>1. gated(p) = first(p)
      BY <2>4 DEF GatedClass, HasCriticalValuePath
    <3>2. gated(e) \in Class /\ Rank(first(e)) >= Rank(gated(e))
      BY <2>3, RankIs DEF GatedClass, Class, Critical, Hidden
    <3>3. Rank(first(p)) \in Nat /\ Rank(first(e)) \in Nat /\ Rank(gated(e)) \in Nat
      BY <2>3, <3>2, RankIs DEF Class, Critical, Hidden
    <3>4. QED
      BY <2>3, <3>1, <3>2, <3>3
  <2> HIDE DEF gated
  <2>8. /\ rare(p) \in Class /\ rare(e) \in Class
        /\ Rank(rare(p)) >= Rank(rare(e))
    BY <2>5, <2>7, RankIs DEF RareClass, Class, Critical, Hidden
  <2> HIDE DEF rare
  <2>9. Rank(LeadClass(p, i, rare(p))) >= Rank(LeadClass(e, i, rare(e)))
    BY <2>4, <2>5, <2>8, RankIs DEF LeadClass, Class, Critical, Hidden
  <2>10. QED
    BY <2>6, <2>9 DEF p
<1>3. QED
  BY <1>1, <1>2

\* A fork check that passes never lowers the class a candidate had: no cap or
\* gate of score_finding is stricter with the proof than without.
THEOREM PassingCorrect == Spec => PassingNeverLowers
<1>1. IInv /\ [Next]_vars => [(at \in Scored) => Rank(score'.class) >= Rank(score.class)]_vars
  <2> SUFFICES ASSUME IInv, Next, at \in Scored
               PROVE  Rank(score'.class) >= Rank(score.class)
    OBVIOUS
  <2>1. Rank(score.class) \in Nat
    BY RankIs DEF IInv, TypeOK, Class, Critical, Hidden
  <2>2. CASE UNCHANGED score
    BY <2>1, <2>2
  <2>3. CASE Poc \/ Sim
    <3>1. at \in {"poc", "sim"} /\ UNCHANGED base
          /\ ((UNCHANGED score) \/ ("suppressed" \notin ev /\ Passed))
      BY <2>3 DEF Poc, Sim, CheckOnFork
    <3>2. CASE "suppressed" \notin ev /\ Passed
      <4>1. ev \ {"graph_sim"} = ev
        BY <3>1 DEF IInv, StageInv
      <4>2. score = ScoreFinding(ev)
        BY <4>1 DEF IInv, ScoreIsCurrent
      <4>3. score' = ScoreFinding(ev \cup {"poc_passed"})
        BY <3>2 DEF Passed
      <4>4. QED
        BY <3>2, <4>2, <4>3, PassingScore DEF IInv, TypeOK
    <3>3. QED
      BY <2>2, <3>1, <3>2
  <2>4. at \notin Unscored
    BY DEF Scored, Unscored
  <2>5. QED
    BY <2>2, <2>3, <2>4 DEF Next, ApplyCandidateSanity, MarkCorroboration, ApplySuppression,
       Refute, Score, GraphSim, ReviewFinding, PersistFinding, Unscored
<1>2. QED
  BY <1>1, Invariance, PTL DEF Spec, PassingNeverLowers
=============================================================================

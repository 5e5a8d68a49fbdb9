----------------------------- MODULE MCDetection -----------------------------
EXTENDS Detection

Unit(name, header, body) == [name |-> name, header |-> header, body |-> body]

\* What a function's header says; everything else is its body.
HeaderWords == {"access_control", "callable", "external", "internal", "view", "non_reentrant"}

\* The smallest code that a rule fires on.
Minimal(name, r) == Unit(name, r.all \cap HeaderWords, r.all \ HeaderWords)

\* It is found alone; before and after a guarded copy of it; beside another
\* function of its name; and after an internal helper.
Guard(u)  == [u EXCEPT !.header = @ \cup {"access_control"}]
Other(u)  == [u EXCEPT !.body = @ \cup {"other_statement"}]
Helper(r) == [Minimal("_f", r) EXCEPT !.header = (@ \cup {"internal"}) \ {"external", "callable"}]
Shapes(r) == LET u == Minimal("f", r)
             IN  { <<u, Guard(u)>>, <<Guard(u), u>>, <<u, Other(u)>>, <<Helper(r), u>> }

\* Every detector alone, some of each kind in all shapes.
Alone  == {<<Minimal("f", r)>> : r \in UNION {V2_DETECTORS[d] : d \in DOMAIN V2_DETECTORS \ {"analyzer_findings"}}}
Shaped == UNION {Shapes(r) : r \in UNION {V2_DETECTORS[d] : d \in
            {"arbitrary_call", "delegatecall", "access_control", "reentrancy", "proxy_upgrade",
             "divide_before_multiply", "single_verifier_bridge_config", "pausability_bypass",
             "unprotected_initializer", "component_share_accounting"}}}

\* Two findings of Slither on one function.
SlitherPair == { <<Unit("f", {"external"}, {"tool_finding", "impact_high", "confidence_high",
                                            "confidence_medium", "slither_critical"})>> }

\* Helpers before their callers, of a detector that keeps no snippet.
HelperTargets == {<<Helper(r), Minimal("f", r)>> : r \in ComponentShareAccounting \cup Erc404LedgerDesync}

AllTargets == Alone \cup Shaped \cup SlitherPair
DefaultSwitches == {"value_gate", "binding_gate", "chain_gate", "liveness", "refutation"}
Guess == {[impact |-> 18, conf |-> 12]}
=============================================================================

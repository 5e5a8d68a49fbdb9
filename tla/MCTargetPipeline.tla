--------------------------- MODULE MCTargetPipeline ---------------------------
EXTENDS TargetPipeline, TLC

\* A tool before the detectors and one after them, as "fuzzing" turns both on.
ToolsAround == <<"fuzzing", "detectors", "fuzz-invariants">>

\* Bounds on the candidates of a target.
OneEach == [t \in Target |-> 1]
\* A loop of two candidates: budgets and classes that outlive one of them.
TwoEach == [t \in Target |-> 2]

Symmetry == Permutations(Target)
=============================================================================

-------------------------- MODULE MCDeployerWatch --------------------------
(* Instances of DeployerWatch for TLC.  Contracts of one kind are           *)
(* interchangeable, and so are the threads.                                 *)
EXTENDS DeployerWatch, TLC

Symmetry == Permutations(Contract \ Factory) \cup Permutations(Factory) \cup Permutations(Checker)
=============================================================================

----------------------------- MODULE MCMonitor -----------------------------
(* Instances of Monitor for TLC.  Values are interchangeable, and so are    *)
(* addresses and callers; the runs that check liveness use no symmetry.     *)
EXTENDS Monitor, TLC

Symmetry == Permutations(Value) \cup Permutations(Addr) \cup Permutations(Caller) \cup Permutations(Adder)
=============================================================================

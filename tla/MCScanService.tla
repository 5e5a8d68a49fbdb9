--------------------------- MODULE MCScanService ---------------------------
(* ScanService on small instances.  Scans, addresses, threads and command- *)
(* line runs are interchangeable; the symmetry is used only by the runs    *)
(* without a liveness property.                                            *)
EXTENDS ScanService, TLC

Symmetry == Permutations(Scan) \cup Permutations(Addr) \cup Permutations(Request)
=============================================================================

--------------------------- MODULE ScanContract ---------------------------
(***************************************************************************)
(* What the service promises about a scan, without processes, threads or   *)
(* a database: it is submitted once, runs at most once, its contracts are  *)
(* worked off one by one, work done stays done, and it is reported as      *)
(* completed only when every contract it lists has been worked off.  A     *)
(* cancel that was late may still relabel a scan that is over.             *)
(***************************************************************************)
CONSTANTS Scan, Addr

VARIABLES
    phase,     \* where a scan stands
    listed,    \* the contracts of a scan
    finished   \* those worked off
vars == <<phase, listed, finished>>

Init ==
    /\ phase = [s \in Scan |-> "none"]
    /\ listed = [s \in Scan |-> {}]
    /\ finished = [s \in Scan |-> {}]

Move(s, from, to) ==
    /\ phase[s] \in from
    /\ phase' = [phase EXCEPT ![s] = to]
    /\ UNCHANGED <<listed, finished>>

Submit(s) == Move(s, {"none"}, "queued")

Begin(s)  == Move(s, {"queued"}, "running")

Stop(s)   == Move(s, {"queued", "running"}, "cancelled")

Fail(s)   == Move(s, {"queued", "running"}, "failed")

Relabel(s) == Move(s, {"completed", "failed"}, "cancelled")

Complete(s) == listed[s] \subseteq finished[s] /\ Move(s, {"running"}, "completed")

\* A restart of the service gives up, at once, every scan it was running.
Interrupt(S) ==
    /\ \A s \in S : phase[s] = "running"
    /\ phase' = [s \in Scan |-> IF s \in S THEN "failed" ELSE phase[s]]
    /\ UNCHANGED <<listed, finished>>

\* A dying service leaves a scan at what its row says: cancelled for some of
\* those that had not ended.
Abandon(S) ==
    /\ \A s \in S : phase[s] \in {"queued", "running"}
    /\ phase' = [s \in Scan |-> IF s \in S THEN "cancelled" ELSE phase[s]]
    /\ UNCHANGED <<listed, finished>>

Enlist(s, T) ==
    /\ phase[s] = "queued" /\ listed[s] = {}
    /\ listed' = [listed EXCEPT ![s] = T]
    /\ UNCHANGED <<phase, finished>>

Extend(s, T) ==
    /\ phase[s] = "running"
    /\ listed' = [listed EXCEPT ![s] = listed[s] \cup T]
    /\ UNCHANGED <<phase, finished>>

\* A failed scan may have work in flight.
Work(s, a) ==
    /\ phase[s] \in {"running", "failed", "cancelled"}
    /\ a \in listed[s]
    /\ finished' = [finished EXCEPT ![s] = finished[s] \cup {a}]
    /\ UNCHANGED <<phase, listed>>

Next ==
    \/ \E s \in Scan :
         \/ Submit(s) \/ Begin(s) \/ Stop(s) \/ Fail(s) \/ Relabel(s) \/ Complete(s)
         \/ \E T \in SUBSET Addr : Enlist(s, T) \/ Extend(s, T)
         \/ \E a \in Addr : Work(s, a)
    \/ \E S \in SUBSET Scan : Interrupt(S) \/ Abandon(S)

\* Most steps of a process change nothing here; to ask that first is cheaper.
Changed == phase' # phase \/ listed' # listed \/ finished' # finished

Spec == Init /\ [][Changed /\ Next]_vars
=============================================================================

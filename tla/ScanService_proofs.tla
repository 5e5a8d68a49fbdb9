------------------------- MODULE ScanService_proofs -------------------------
(* Proofs about ScanService, for every number of scans, addresses, threads  *)
(* and processes: its invariants, and that it implements ScanContract.     *)
EXTENDS ScanService, FiniteSetTheorems, FunctionTheorems, TLAPS

LEMMA Cardinalities ==
    ASSUME NEW T \in SUBSET Addr
    PROVE  /\ IsFiniteSet(T) /\ Cardinality(T) \in Nat
           /\ Cardinality(T) = 0 <=> T = {}
<1>1. IsFiniteSet(T)
  BY FS_Subset, ServiceAssumption
<1>2. QED
  BY <1>1, FS_CardinalityType, FS_EmptySet

LEMMA CountDoneType == ASSUME NEW ts PROVE CountDone(ts) \in Nat
BY Cardinalities DEF CountDone

----------------------------------------------------------------------------
(* Type correctness.                                                       *)

LEMMA TaskUpdate ==
    ASSUME NEW f \in Tasks, NEW p \in Proc, NEW s \in Scan, NEW v \in TaskState
    PROVE  [f EXCEPT ![p][s] = v] \in Tasks
BY DEF Tasks

LEMMA WorkerUpdate ==
    ASSUME NEW f \in Workers, NEW p \in Proc, NEW s \in Scan
    PROVE  /\ \A g \in [Addr -> {"none", "waiting", "active", "ended"}] :
                [f EXCEPT ![p][s] = g] \in Workers
           /\ \A a \in Addr, v \in {"none", "waiting", "active", "ended"} :
                [f EXCEPT ![p][s][a] = v] \in Workers
BY DEF Workers

LEMMA TargetUpdate ==
    ASSUME NEW f \in Targets, NEW s \in Scan
    PROVE  /\ \A g \in [Addr -> TargetStatus \cup {"none"}] : [f EXCEPT ![s] = g] \in Targets
           /\ \A a \in Addr, v \in TargetStatus \cup {"none"} : [f EXCEPT ![s][a] = v] \in Targets
BY DEF Targets

LEMMA TaskStates ==
    {"none", "ended", "created", "posted", "waiting", "round", "expand", "finalize"} = TaskState
BY DEF TaskState, Pending, Started

LEMMA EndProcessType ==
    ASSUME TypeOK, NEW p \in Proc, EndProcess(p)
    PROVE  up' \subseteq Proc /\ task' \in Tasks /\ worker' \in Workers
BY TaskStates DEF TypeOK, EndProcess, NoWorkers, Tasks, Workers

LEMMA TypeInit == Init => TypeOK
<1> SUFFICES ASSUME Init PROVE TypeOK
  OBVIOUS
<1>1. NoWorkers \in [Addr -> {"none", "waiting", "active", "ended"}]
  BY DEF NoWorkers
<1>2. QED
  BY <1>1, ServiceAssumption
  DEF Init, TypeOK, Requests, Idle, ScanStatus, Targets, TargetStatus, Tasks, TaskState, Workers

LEMMA TypeNext == TypeOK /\ [Next]_vars => TypeOK'
<1> SUFFICES ASSUME TypeOK, [Next]_vars PROVE TypeOK'
  OBVIOUS
<1> USE DEF rows, memory, bounds, Idle
<1>1. ASSUME NEW r \in Request, NEW s \in Scan, NEW T \in SUBSET Addr, CreateScan(r, s, T)
      PROVE  TypeOK'
  BY <1>1, Cardinalities DEF CreateScan, InsertScan, TypeOK, Requests, ScanStatus
<1>2. ASSUME NEW r \in Request, NEW s \in Scan, NEW old \in Scan, RescanScan(r, old, s)
      PROVE  TypeOK'
  <2>1. Rows(old) \in SUBSET Addr
    BY DEF Rows
  <2>2. QED
    BY <1>2, <2>1, Cardinalities DEF RescanScan, InsertScan, TypeOK, Requests, ScanStatus
<1>3. ASSUME NEW r \in Request, CommitTargets(r) PROVE TypeOK'
  <2>1. req[r] \in [op : {"insert"}, scan : Scan, targets : SUBSET Addr, auto : SUBSET Addr]
    BY <1>3 DEF CommitTargets, TypeOK, Requests
  <2>2. QED
    BY <1>3, <2>1 DEF CommitTargets, InsertTargets, TypeOK, Requests, Targets, TargetStatus
<1>4. ASSUME NEW r \in Request, StartScan(r) PROVE TypeOK'
  <2>1. req[r] \in [op : {"start", "write"}, scan : Scan]
    BY <1>4 DEF StartScan, TypeOK, Requests
  <2>2. task' \in Tasks /\ cancelled' \subseteq Scan
    <3>1. CASE UNCHANGED <<cancelled, task>>
      BY <3>1 DEF TypeOK
    <3>2. CASE /\ cancelled' = cancelled \ {req[r].scan}
               /\ task' = [task EXCEPT ![Server][req[r].scan] = "posted"]
      <4>1. req[r].scan \in Scan
        BY <2>1
      <4>2. task' \in Tasks
        BY <3>2, <4>1, ServiceAssumption, TaskUpdate, TaskStates DEF TypeOK
      <4>3. QED
        BY <3>2, <4>1, <4>2 DEF TypeOK
    <3>3. QED
      BY <1>4, <3>1, <3>2 DEF StartScan
  <2>3. QED
    BY <1>4, <2>2 DEF StartScan, TypeOK, Requests
<1>5. ASSUME NEW r \in Request, NEW s \in Scan, CancelRead(r, s) PROVE TypeOK'
  BY <1>5 DEF CancelRead, TypeOK, Requests
<1>6. ASSUME NEW r \in Request, CancelFlag(r) PROVE TypeOK'
  <2>1. req[r] \in [op : {"flag"}, scan : Scan, seen : ScanStatus]
    BY <1>6 DEF CancelFlag, TypeOK, Requests
  <2>2. QED
    BY <1>6, <2>1 DEF CancelFlag, TypeOK, Requests
<1>7. ASSUME NEW r \in Request, CancelWrite(r) PROVE TypeOK'
  <2>1. req[r] \in [op : {"start", "write"}, scan : Scan]
    BY <1>7 DEF CancelWrite, TypeOK, Requests
  <2>2. QED
    BY <1>7, <2>1 DEF CancelWrite, TypeOK, Requests, ScanStatus
<1>8. ASSUME NEW s \in Scan, SpawnTask(s) PROVE TypeOK'
  BY <1>8, ServiceAssumption, TaskUpdate, TaskStates DEF SpawnTask, TypeOK
<1>9. ASSUME NEW p \in Proc, NEW s \in Scan, BeginPipeline(p, s) PROVE TypeOK'
  <2>1. task' \in Tasks
    BY <1>9, TaskUpdate, TaskStates DEF BeginPipeline, TypeOK
  <2>2. worker' \in Workers
    BY <1>9, WorkerUpdate DEF BeginPipeline, TypeOK
  <2>3. QED
    BY <1>9, <2>1, <2>2 DEF BeginPipeline, TypeOK, ScanStatus
<1>10. ASSUME NEW p \in Proc, NEW s \in Scan, NEW a \in Addr, StartTarget(p, s, a) PROVE TypeOK'
  <2>1. target' = target \/ target' = [target EXCEPT ![s][a] = "working"]
    BY <1>10 DEF StartTarget
  <2>2. target' \in Targets
    <3>1. target \in Targets
      BY DEF TypeOK
    <3>2. CASE target' = [target EXCEPT ![s][a] = "working"]
      BY <3>1, <3>2, TargetUpdate DEF TargetStatus
    <3>3. QED
      BY <2>1, <3>1, <3>2
  <2>3. \/ worker' = [worker EXCEPT ![p][s][a] = "ended"]
        \/ worker' = [worker EXCEPT ![p][s][a] = "active"]
    BY <1>10 DEF StartTarget
  <2>4. worker' \in Workers
    <3>1. worker \in Workers
      BY DEF TypeOK
    <3>2. CASE worker' = [worker EXCEPT ![p][s][a] = "ended"]
      BY <3>1, <3>2, WorkerUpdate
    <3>3. CASE worker' = [worker EXCEPT ![p][s][a] = "active"]
      BY <3>1, <3>3, WorkerUpdate
    <3>4. QED
      BY <2>3, <3>2, <3>3
  <2>5. QED
    BY <1>10, <2>2, <2>4 DEF StartTarget, TypeOK
<1>11. ASSUME NEW p \in Proc, NEW s \in Scan, NEW a \in Addr, FinishTarget(p, s, a) PROVE TypeOK'
  <2>1. target' \in Targets
    BY <1>11, TargetUpdate DEF FinishTarget, TypeOK, TargetStatus, Done
  <2>2. worker' \in Workers
    BY <1>11, WorkerUpdate DEF FinishTarget, TypeOK
  <2>3. QED
    BY <1>11, <2>1, <2>2, CountDoneType DEF FinishTarget, TypeOK
<1>12. ASSUME NEW p \in Proc, NEW s \in Scan, NEW a \in Addr, FailTarget(p, s, a) PROVE TypeOK'
  <2>1. target' \in Targets
    BY <1>12, TargetUpdate DEF FailTarget, TypeOK, TargetStatus, Done
  <2>2. worker' \in Workers
    BY <1>12, WorkerUpdate DEF FailTarget, TypeOK
  <2>3. QED
    BY <1>12, <2>1, <2>2 DEF FailTarget, TypeOK
<1>13. ASSUME NEW p \in Proc, NEW s \in Scan, EndRound(p, s) PROVE TypeOK'
  BY <1>13, TaskUpdate, TaskStates DEF EndRound, TypeOK
<1>14. ASSUME NEW p \in Proc, NEW s \in Scan, ExpandScan(p, s) PROVE TypeOK'
  <2>1. task' \in Tasks
    <3>1. \/ task' = [task EXCEPT ![p][s] = "finalize"]
          \/ task' = [task EXCEPT ![p][s] = "round"]
      BY <1>14 DEF ExpandScan
    <3>2. task \in Tasks
      BY DEF TypeOK
    <3>3. CASE task' = [task EXCEPT ![p][s] = "finalize"]
      BY <3>2, <3>3, TaskUpdate, TaskStates
    <3>4. CASE task' = [task EXCEPT ![p][s] = "round"]
      BY <3>2, <3>4, TaskUpdate, TaskStates
    <3>5. QED
      BY <3>1, <3>3, <3>4
  <2>2. CASE UNCHANGED <<total, target, auto, worker>>
    BY <1>14, <2>1, <2>2 DEF ExpandScan, CompanionRoom, TypeOK
  <2>3. CASE \E New \in SUBSET (Addr \ Rows(s)) \ {{}} : ExpandScan(p, s)!2!2!(New)
    <3> PICK New \in SUBSET (Addr \ Rows(s)) \ {{}} : ExpandScan(p, s)!2!2!(New)
      BY <2>3
    <3>1. target' \in Targets
      <4>1. [a \in Addr |-> IF a \in New THEN "queued" ELSE target[s][a]]
              \in [Addr -> TargetStatus \cup {"none"}]
        BY DEF TypeOK, Targets, TargetStatus
      <4>2. QED
        BY <4>1, TargetUpdate DEF TypeOK
    <3>2. worker' \in Workers
      <4>1. [a \in Addr |-> IF a \in New THEN "waiting" ELSE worker[p][s][a]]
              \in [Addr -> {"none", "waiting", "active", "ended"}]
        BY DEF TypeOK, Workers
      <4>2. QED
        BY <4>1, WorkerUpdate DEF TypeOK
    <3>3. total' \in [Scan -> Nat]
      BY Cardinalities DEF TypeOK, Rows
    <3>4. QED
      BY <1>14, <2>1, <3>1, <3>2, <3>3 DEF ExpandScan, CompanionRoom, TypeOK
  <2>4. QED
    BY <1>14, <2>2, <2>3 DEF ExpandScan
<1>15. ASSUME NEW p \in Proc, NEW s \in Scan, FinalizeScan(p, s) PROVE TypeOK'
  <2>1. up' \subseteq Proc /\ task' \in Tasks /\ worker' \in Workers
    <3>1. CASE /\ task' = [task EXCEPT ![p][s] = "ended"]
               /\ UNCHANGED <<up, worker>>
      BY <3>1, TaskUpdate, TaskStates DEF TypeOK
    <3>2. QED
      BY <1>15, <3>1, EndProcessType DEF FinalizeScan
  <2>2. QED
    BY <1>15, <2>1, CountDoneType DEF FinalizeScan, TypeOK, ScanStatus
<1>16. ASSUME NEW p \in Proc, NEW s \in Scan, NEW w \in Workers, PipelineRaises(p, s, w),
              faults' \in Nat
       PROVE  TypeOK'
  <2>1. up' \subseteq Proc /\ task' \in Tasks /\ worker' \in Workers
    <3>1. CASE EndProcess(p)
      BY <3>1, EndProcessType
    <3>2. CASE /\ task' = [task EXCEPT ![p][s] = "ended"]
               /\ worker' = w /\ UNCHANGED up
      <4>1. task' \in Tasks
        BY <3>2, TaskUpdate, TaskStates DEF TypeOK
      <4>2. QED
        BY <1>16, <3>2, <4>1 DEF TypeOK
    <3>3. QED
      BY <1>16, <3>1, <3>2 DEF PipelineRaises
  <2>2. QED
    BY <1>16, <2>1 DEF PipelineRaises, TypeOK, ScanStatus
<1>17. ASSUME NEW p \in Proc, NEW s \in Scan, CrashPipeline(p, s) PROVE TypeOK'
  BY <1>16, <1>17 DEF CrashPipeline, TypeOK
<1>18. ASSUME NEW p \in Proc, NEW s \in Scan, NEW a \in Addr, CrashTarget(p, s, a) PROVE TypeOK'
  <2>1. [worker EXCEPT ![p][s][a] = "ended"] \in Workers
    BY WorkerUpdate DEF TypeOK
  <2>2. CASE task[p][s] = "round"
    BY <1>16, <1>18, <2>1, <2>2 DEF CrashTarget, TypeOK
  <2>3. CASE task[p][s] # "round"
    BY <1>18, <2>1, <2>3 DEF CrashTarget, TypeOK
  <2>4. QED
    BY <2>2, <2>3
<1>19. ASSUME NEW p \in Proc, Crash(p) PROVE TypeOK'
  <2>1. req' \in [Request -> Requests] /\ cancelled' \subseteq Scan
    BY <1>19 DEF Crash, TypeOK, Requests
  <2>2. QED
    BY <1>19, <2>1, EndProcessType DEF Crash, TypeOK
<1>20. ASSUME Restart PROVE TypeOK'
  <2>1. task' \in Tasks
    BY <1>20, ServiceAssumption, TaskStates DEF Restart, TypeOK, Tasks
  <2>2. QED
    BY <1>20, <2>1, ServiceAssumption DEF Restart, TypeOK, ScanStatus
<1>21. ASSUME NEW p \in Proc, NEW s \in Scan, NEW n \in 1..Cardinality(Addr), CliCreate(p, s, n)
       PROVE  TypeOK'
  <2>1. task' \in Tasks
    BY <1>21, TaskUpdate, TaskStates DEF CliCreate, TypeOK
  <2>2. n \in Nat
    BY Cardinalities
  <2>3. QED
    BY <1>21, <2>1, <2>2 DEF CliCreate, InsertScan, TypeOK, ScanStatus
<1>22. ASSUME NEW p \in Proc, NEW s \in Scan, NEW T \in SUBSET Addr, CliCommitTargets(p, s, T)
       PROVE  TypeOK'
  <2>1. task' \in Tasks
    BY <1>22, TaskUpdate, TaskStates DEF CliCommitTargets, TypeOK
  <2>2. target' \in Targets
    BY <1>22, TargetUpdate DEF CliCommitTargets, InsertTargets, TypeOK, TargetStatus
  <2>3. QED
    BY <1>22, <2>1, <2>2 DEF CliCommitTargets, InsertTargets, TypeOK
<1>23. CASE UNCHANGED vars
  BY <1>23 DEF vars, TypeOK
<1>24. QED
  BY <1>1, <1>2, <1>3, <1>4, <1>5, <1>6, <1>7, <1>8, <1>9, <1>10, <1>11, <1>12, <1>13,
     <1>14, <1>15, <1>16, <1>17, <1>18, <1>19, <1>20, <1>21, <1>22, <1>23
  DEF Next, User, Fault, Endpoint, Pipeline

\* Every variable keeps its type.
THEOREM TypeCorrect == Spec => []TypeOK
BY TypeInit, TypeNext, PTL DEF Spec

----------------------------------------------------------------------------
(* The inductive invariant, for a server that shares its database with no  *)
(* command-line run.  A step of a pipeline disturbs one scan: each lemma   *)
(* below says what the step does to that scan and then treats the five     *)
(* parts of ScanInv.                                                       *)

LEMMA CountDoneBound ==
    ASSUME NEW ts
    PROVE  /\ CountDone(ts) <= Cardinality({a \in Addr : ts[a] # "none"})
           /\ (\A a \in Addr : ts[a] \in Done \cup {"none"}) =>
                CountDone(ts) = Cardinality({a \in Addr : ts[a] # "none"})
<1> DEFINE R == {a \in Addr : ts[a] # "none"}
           D == {a \in Addr : ts[a] \in Done}
<1>1. D \subseteq R
  BY DEF Done
<1>2. IsFiniteSet(R)
  BY Cardinalities
<1>3. Cardinality(D) <= Cardinality(R)
  BY <1>1, <1>2, FS_Subset
<1>4. (\A a \in Addr : ts[a] \in Done \cup {"none"}) => D = R
  BY DEF Done
<1>5. QED
  BY <1>3, <1>4 DEF CountDone

\* What the parts of the invariant that speak of scan x depend on.
Untouched(x) ==
    /\ status'[x] = status[x] /\ total'[x] = total[x] /\ completed'[x] = completed[x]
    /\ target'[x] = target[x] /\ auto'[x] = auto[x]
    /\ task'[Server][x] = task[Server][x] /\ worker'[Server][x] = worker[Server][x]

LEMMA UntouchedScan ==
    ASSUME NEW x \in Scan, ScanInv(x), Untouched(x),
           Server \in up' => Server \in up,
           x \in cancelled => x \in cancelled' \/ task[Server][x] = "none",
           \A r \in Request : Creating(r, x) => \E q \in Request : Creating(q, x)'
    PROVE  ScanInv(x)'
<1>1. Rows(x)' = Rows(x) /\ Covered(x)' = Covered(x)
  BY DEF Untouched, Rows, Covered
<1>2. TaskInv(x)'
  BY <1>1 DEF ScanInv, TaskInv, Untouched
<1>3. WorkerInv(x)'
  BY DEF ScanInv, WorkerInv, Untouched
<1>4. RoundInv(x)'
  BY <1>1 DEF ScanInv, RoundInv, Untouched
<1>5. CompletedInv(x)'
  BY <1>1 DEF ScanInv, CompletedInv, Untouched
<1>6. CountInv(x)'
  BY <1>1 DEF ScanInv, CountInv, Untouched
<1>7. QED
  BY <1>2, <1>3, <1>4, <1>5, <1>6 DEF ScanInv

\* A step of the pipeline of scan s touches no other scan, so the invariant
\* has to be shown for s alone.
LEMMA PipelineStep ==
    ASSUME IInv, TypeOK', NEW s \in Scan, UNCHANGED <<up, cancelled, req>>,
           task[Server][s] # "none", task'[Server][s] # "none",
           \A x \in Scan \ {s} : Untouched(x),
           ScanInv(s)'
    PROVE  IInv'
<1>1. ASSUME NEW x \in Scan PROVE ScanInv(x)'
  <2>1. CASE x # s
    BY <2>1, UntouchedScan DEF IInv, Creating
  <2>2. QED
    BY <2>1
<1>2. CreationInv'
  <2> SUFFICES ASSUME NEW r \in Request, NEW x \in Scan, Creating(r, x)'
               PROVE  /\ task'[Server][x] = "none"
                      /\ status'[x] \in {"queued", "cancelled"}
                      /\ \A q \in Request : Creating(q, x)' => q = r
                      /\ req'[r].op = "insert" =>
                           /\ Rows(x)' = {}
                           /\ total'[x] = Cardinality(req'[r].targets)
                           /\ Cardinality(req'[r].auto) <= CompanionCap
    BY DEF CreationInv
  <2>1. Creating(r, x) /\ \A q \in Request : Creating(q, x)' => Creating(q, x)
    BY DEF Creating
  <2>2. x # s
    BY <2>1 DEF IInv, CreationInv
  <2>3. Untouched(x) /\ Rows(x)' = Rows(x)
    BY <2>2 DEF Untouched, Rows
  <2>4. QED
    BY <2>1, <2>3 DEF IInv, CreationInv, Untouched
<1>3. DownInv'
  BY DEF IInv, DownInv
<1>4. QED
  BY <1>1, <1>2, <1>3 DEF IInv

\* The loop takes up a posted task.
LEMMA SpawnTaskStep ==
    ASSUME IInv, TypeOK', NEW s \in Scan, SpawnTask(s)
    PROVE  IInv'
<1> USE DEF rows, memory, bounds
<1>1. UNCHANGED <<up, cancelled, req>>
  BY DEF SpawnTask
<1>2. \A x \in Scan \ {s} : Untouched(x)
  BY ServiceAssumption DEF SpawnTask, Untouched, IInv, TypeOK, Targets, Tasks, Workers
<1>3. /\ task[Server][s] = "posted"
      /\ status'[s] = status[s]
      /\ total'[s] = total[s]
      /\ completed'[s] = completed[s]
      /\ target'[s] = target[s]
      /\ auto'[s] = auto[s]
      /\ task'[Server][s] = "waiting"
      /\ worker'[Server][s] = worker[Server][s]
  BY ServiceAssumption DEF SpawnTask, IInv, TypeOK, Targets, Tasks, Workers
<1>4. Rows(s)' = Rows(s)
  BY <1>3 DEF Rows
<1>5. TaskInv(s)'
  BY <1>1, <1>3, <1>4 DEF IInv, ScanInv, TaskInv, Creating, Pending, Started
<1>6. WorkerInv(s)'
  BY <1>1, <1>3, <1>4 DEF IInv, ScanInv, WorkerInv, TaskInv, Pending, Started
<1>7. RoundInv(s)'
  BY <1>1, <1>3, <1>4 DEF IInv, ScanInv, RoundInv, WorkerInv, Rows, Covered, Done
<1>8. CompletedInv(s)'
  BY <1>1, <1>3, <1>4
  DEF IInv, ScanInv, CompletedInv, TaskInv, RoundInv, Covered, Rows, Done, Pending, Started
<1>9. CountInv(s)'
  BY <1>1, <1>3, <1>4 DEF IInv, ScanInv, CountInv
<1>10. QED
  BY <1>1, <1>2, <1>3, <1>4, <1>5, <1>6, <1>7, <1>8, <1>9, PipelineStep
  DEF ScanInv, Pending, Started

\* The pipeline marks its scan RUNNING and gathers its targets.
LEMMA BeginPipelineStep ==
    ASSUME IInv, TypeOK', NEW s \in Scan, BeginPipeline(Server, s)
    PROVE  IInv'
<1> USE DEF rows, memory, bounds
<1>1. UNCHANGED <<up, cancelled, req>>
  BY DEF BeginPipeline
<1>2. \A x \in Scan \ {s} : Untouched(x)
  BY ServiceAssumption DEF BeginPipeline, Untouched, IInv, TypeOK, Targets, Tasks, Workers
<1>3. /\ task[Server][s] = "waiting"
      /\ status'[s] = "running"
      /\ total'[s] = total[s]
      /\ completed'[s] = completed[s]
      /\ target'[s] = target[s]
      /\ auto'[s] = auto[s]
      /\ task'[Server][s] = IF Rows(s) = {} THEN "finalize" ELSE "round"
      /\ worker'[Server][s] = [x \in Addr |-> IF x \in Rows(s) THEN "waiting" ELSE "none"]
  BY ServiceAssumption DEF BeginPipeline, IInv, TypeOK, Targets, Tasks, Workers
<1>4. Rows(s)' = Rows(s)
  BY <1>3 DEF Rows
<1>5. TaskInv(s)'
  BY <1>1, <1>3, <1>4 DEF IInv, ScanInv, TaskInv, Creating, Pending, Started
<1>6. WorkerInv(s)'
  BY <1>1, <1>3, <1>4 DEF IInv, ScanInv, WorkerInv, TaskInv, Pending, Started, Rows
<1>7. RoundInv(s)'
  BY <1>1, <1>3, <1>4 DEF IInv, ScanInv, RoundInv, WorkerInv, Rows, Covered, Done
<1>8. CompletedInv(s)'
  BY <1>1, <1>3, <1>4
  DEF IInv, ScanInv, CompletedInv, TaskInv, RoundInv, Covered, Rows, Done, Pending, Started
<1>9. CountInv(s)'
  BY <1>1, <1>3, <1>4 DEF IInv, ScanInv, CountInv
<1>10. QED
  BY <1>1, <1>2, <1>3, <1>4, <1>5, <1>6, <1>7, <1>8, <1>9, PipelineStep
  DEF ScanInv, Pending, Started

\* A target whose scan was cancelled is not started.
LEMMA StartCancelledStep ==
    ASSUME IInv, TypeOK', NEW s \in Scan, NEW a \in Addr,
           StartTarget(Server, s, a), IsCancelled(Server, s)
    PROVE  IInv'
<1> USE DEF rows, memory, bounds
<1>0. /\ worker[Server][s][a] = "waiting"
      /\ worker' = [worker EXCEPT ![Server][s][a] = "ended"]
      /\ UNCHANGED <<status, total, completed, target, auto, task, up, cancelled, req>>
  BY DEF StartTarget, IsCancelled
<1>1. UNCHANGED <<up, cancelled, req>>
  BY <1>0
<1>2. \A x \in Scan \ {s} : Untouched(x)
  BY <1>0, ServiceAssumption DEF Untouched, IInv, TypeOK, Targets, Tasks, Workers
<1>3. /\ task[Server][s] = task[Server][s] /\ worker[Server][s][a] = "waiting" /\ s \in cancelled
      /\ status'[s] = status[s]
      /\ total'[s] = total[s]
      /\ completed'[s] = completed[s]
      /\ target'[s] = target[s]
      /\ auto'[s] = auto[s]
      /\ task'[Server][s] = task[Server][s]
      /\ worker'[Server][s] = [worker[Server][s] EXCEPT ![a] = "ended"]
  BY <1>0, ServiceAssumption DEF IInv, TypeOK, Targets, Tasks, Workers, IsCancelled
<1>4. /\ task[Server][s] \in {"round", "ended"}
      /\ status[s] \in {"running", "failed", "cancelled"}
      /\ target[s][a] # "none"
  BY <1>3 DEF IInv, ScanInv, TaskInv, WorkerInv, Pending, Started
<1>5. Rows(s)' = Rows(s)
  BY <1>3, <1>4 DEF Rows, IInv, TypeOK, Targets
<1>6. TaskInv(s)'
  BY <1>1, <1>3, <1>4, <1>5 DEF IInv, ScanInv, TaskInv, Creating, Pending, Started
<1>7. WorkerInv(s)'
  BY <1>1, <1>3, <1>4, <1>5
  DEF IInv, ScanInv, WorkerInv, TaskInv, Pending, Started, TypeOK, Targets, Workers
<1>8. RoundInv(s)'
  BY <1>1, <1>3, <1>4, <1>5
  DEF IInv, ScanInv, RoundInv, WorkerInv, Rows, Covered, Done, TypeOK, Targets, Workers
<1>9. CompletedInv(s)'
  BY <1>1, <1>3, <1>4, <1>5
  DEF IInv, ScanInv, CompletedInv, TaskInv, RoundInv, Covered, Rows, Done, Pending, Started
<1>10. CountInv(s)'
  BY <1>1, <1>3, <1>4, <1>5 DEF IInv, ScanInv, CountInv
<1>11. QED
  BY <1>1, <1>2, <1>3, <1>4, <1>6, <1>7, <1>8, <1>9, <1>10, PipelineStep
  DEF ScanInv, Pending, Started

\* A target is started.
LEMMA StartTargetStep ==
    ASSUME IInv, TypeOK', NEW s \in Scan, NEW a \in Addr,
           StartTarget(Server, s, a), ~IsCancelled(Server, s)
    PROVE  IInv'
<1> USE DEF rows, memory, bounds
<1>0. /\ worker[Server][s][a] = "waiting"
      /\ target' = [target EXCEPT ![s][a] = "working"]
      /\ worker' = [worker EXCEPT ![Server][s][a] = "active"]
      /\ UNCHANGED <<status, total, completed, auto, task, up, cancelled, req>>
  BY DEF StartTarget, IsCancelled
<1>1. UNCHANGED <<up, cancelled, req>>
  BY <1>0
<1>2. \A x \in Scan \ {s} : Untouched(x)
  BY <1>0, ServiceAssumption DEF Untouched, IInv, TypeOK, Targets, Tasks, Workers
<1>3. /\ task[Server][s] = task[Server][s] /\ worker[Server][s][a] = "waiting"
      /\ status'[s] = status[s]
      /\ total'[s] = total[s]
      /\ completed'[s] = completed[s]
      /\ target'[s] = [target[s] EXCEPT ![a] = "working"]
      /\ auto'[s] = auto[s]
      /\ task'[Server][s] = task[Server][s]
      /\ worker'[Server][s] = [worker[Server][s] EXCEPT ![a] = "active"]
  BY <1>0, ServiceAssumption DEF IInv, TypeOK, Targets, Tasks, Workers, IsCancelled
<1>4. /\ task[Server][s] \in {"round", "ended"}
      /\ status[s] \in {"running", "failed", "cancelled"}
      /\ target[s][a] # "none"
  BY <1>3 DEF IInv, ScanInv, TaskInv, WorkerInv, Pending, Started
<1>5. Rows(s)' = Rows(s)
  BY <1>3, <1>4 DEF Rows, IInv, TypeOK, Targets
<1>6. TaskInv(s)'
  BY <1>1, <1>3, <1>4, <1>5 DEF IInv, ScanInv, TaskInv, Creating, Pending, Started
<1>7. WorkerInv(s)'
  BY <1>1, <1>3, <1>4, <1>5
  DEF IInv, ScanInv, WorkerInv, TaskInv, Pending, Started, TypeOK, Targets, Workers
<1>8. RoundInv(s)'
  BY <1>1, <1>3, <1>4, <1>5
  DEF IInv, ScanInv, RoundInv, WorkerInv, Rows, Covered, Done, TypeOK, Targets, Workers
<1>9. CompletedInv(s)'
  BY <1>1, <1>3, <1>4, <1>5
  DEF IInv, ScanInv, CompletedInv, TaskInv, RoundInv, Covered, Rows, Done, Pending, Started
<1>10. CountInv(s)'
  BY <1>1, <1>3, <1>4, <1>5 DEF IInv, ScanInv, CountInv
<1>11. QED
  BY <1>1, <1>2, <1>3, <1>4, <1>6, <1>7, <1>8, <1>9, <1>10, PipelineStep
  DEF ScanInv, Pending, Started

\* A target is completed and counted.
LEMMA FinishTargetStep ==
    ASSUME IInv, TypeOK', NEW s \in Scan, NEW a \in Addr, FinishTarget(Server, s, a)
    PROVE  IInv'
<1> USE DEF rows, memory, bounds
<1>1. UNCHANGED <<up, cancelled, req>>
  BY DEF FinishTarget
<1>2. \A x \in Scan \ {s} : Untouched(x)
  BY ServiceAssumption DEF FinishTarget, Untouched, IInv, TypeOK, Targets, Tasks, Workers
<1>3. /\ task[Server][s] = task[Server][s] /\ worker[Server][s][a] = "active"
      /\ status'[s] = status[s]
      /\ total'[s] = total[s]
      /\ completed'[s] = CountDone(target'[s])
      /\ target'[s] = [target[s] EXCEPT ![a] = "completed"]
      /\ auto'[s] = auto[s]
      /\ task'[Server][s] = task[Server][s]
      /\ worker'[Server][s] = [worker[Server][s] EXCEPT ![a] = "ended"]
  BY ServiceAssumption DEF FinishTarget, IInv, TypeOK, Targets, Tasks, Workers
<1>4. /\ task[Server][s] \in {"round", "ended"}
      /\ status[s] \in {"running", "failed", "cancelled"}
      /\ target[s][a] # "none"
  BY <1>3 DEF IInv, ScanInv, TaskInv, WorkerInv, Pending, Started
<1>5. Rows(s)' = Rows(s)
  BY <1>3, <1>4 DEF Rows, IInv, TypeOK, Targets
<1>6. CountDone(target'[s]) \in Nat /\ CountDone(target'[s]) <= Cardinality(Rows(s)')
  BY CountDoneBound, CountDoneType DEF Rows
<1>7. Rows(s) = {} => Cardinality(Rows(s)) = 0
  BY FS_EmptySet
<1>8. total[s] \in Nat /\ completed[s] \in Nat /\ Cardinality(Rows(s)) \in Nat
  BY Cardinalities DEF IInv, TypeOK, Rows
<1>9. TaskInv(s)'
  BY <1>1, <1>3, <1>4, <1>5, <1>6, <1>7, <1>8
  DEF IInv, ScanInv, TaskInv, Creating, Pending, Started
<1>10. WorkerInv(s)'
  BY <1>1, <1>3, <1>4, <1>5, <1>6, <1>7, <1>8
  DEF IInv, ScanInv, WorkerInv, TaskInv, Pending, Started, TypeOK, Targets, Workers
<1>11. RoundInv(s)'
  BY <1>1, <1>3, <1>4, <1>5, <1>6, <1>7, <1>8
  DEF IInv, ScanInv, RoundInv, WorkerInv, Rows, Covered, Done, TypeOK, Targets, Workers
<1>12. CompletedInv(s)'
  BY <1>1, <1>3, <1>4, <1>5, <1>6, <1>7, <1>8
  DEF IInv, ScanInv, CompletedInv, TaskInv, RoundInv, Covered, Rows, Done, Pending, Started
<1>13. CountInv(s)'
  BY <1>1, <1>3, <1>4, <1>5, <1>6, <1>7, <1>8 DEF IInv, ScanInv, CountInv
<1>14. QED
  BY <1>1, <1>2, <1>3, <1>4, <1>9, <1>10, <1>11, <1>12, <1>13, PipelineStep
  DEF ScanInv, Pending, Started

\* A target fails.
LEMMA FailTargetStep ==
    ASSUME IInv, TypeOK', NEW s \in Scan, NEW a \in Addr, FailTarget(Server, s, a)
    PROVE  IInv'
<1> USE DEF rows, memory, bounds
<1>1. UNCHANGED <<up, cancelled, req>>
  BY DEF FailTarget
<1>2. \A x \in Scan \ {s} : Untouched(x)
  BY ServiceAssumption DEF FailTarget, Untouched, IInv, TypeOK, Targets, Tasks, Workers
<1>3. /\ task[Server][s] = task[Server][s] /\ worker[Server][s][a] = "active"
      /\ status'[s] = status[s]
      /\ total'[s] = total[s]
      /\ completed'[s] = completed[s]
      /\ target'[s] = [target[s] EXCEPT ![a] = "failed"]
      /\ auto'[s] = auto[s]
      /\ task'[Server][s] = task[Server][s]
      /\ worker'[Server][s] = [worker[Server][s] EXCEPT ![a] = "ended"]
  BY ServiceAssumption DEF FailTarget, IInv, TypeOK, Targets, Tasks, Workers
<1>4. /\ task[Server][s] \in {"round", "ended"}
      /\ status[s] \in {"running", "failed", "cancelled"}
      /\ target[s][a] # "none"
  BY <1>3 DEF IInv, ScanInv, TaskInv, WorkerInv, Pending, Started
<1>5. Rows(s)' = Rows(s)
  BY <1>3, <1>4 DEF Rows, IInv, TypeOK, Targets
<1>6. TaskInv(s)'
  BY <1>1, <1>3, <1>4, <1>5 DEF IInv, ScanInv, TaskInv, Creating, Pending, Started
<1>7. WorkerInv(s)'
  BY <1>1, <1>3, <1>4, <1>5
  DEF IInv, ScanInv, WorkerInv, TaskInv, Pending, Started, TypeOK, Targets, Workers
<1>8. RoundInv(s)'
  BY <1>1, <1>3, <1>4, <1>5
  DEF IInv, ScanInv, RoundInv, WorkerInv, Rows, Covered, Done, TypeOK, Targets, Workers
<1>9. CompletedInv(s)'
  BY <1>1, <1>3, <1>4, <1>5
  DEF IInv, ScanInv, CompletedInv, TaskInv, RoundInv, Covered, Rows, Done, Pending, Started
<1>10. CountInv(s)'
  BY <1>1, <1>3, <1>4, <1>5 DEF IInv, ScanInv, CountInv
<1>11. QED
  BY <1>1, <1>2, <1>3, <1>4, <1>6, <1>7, <1>8, <1>9, <1>10, PipelineStep
  DEF ScanInv, Pending, Started

\* Every coroutine of the round has ended.
LEMMA EndRoundStep ==
    ASSUME IInv, TypeOK', NEW s \in Scan, EndRound(Server, s)
    PROVE  IInv'
<1> USE DEF rows, memory, bounds
<1>1. UNCHANGED <<up, cancelled, req>>
  BY DEF EndRound, IsCancelled
<1>2. \A x \in Scan \ {s} : Untouched(x)
  BY ServiceAssumption
  DEF EndRound, IsCancelled, Untouched, IInv, TypeOK, Targets, Tasks, Workers
<1>3. /\ task[Server][s] = "round"
      /\ status'[s] = status[s]
      /\ total'[s] = total[s]
      /\ completed'[s] = completed[s]
      /\ target'[s] = target[s]
      /\ auto'[s] = auto[s]
      /\ task'[Server][s] = IF s \in cancelled THEN "finalize" ELSE "expand"
      /\ worker'[Server][s] = worker[Server][s]
      /\ \A a \in Addr : worker[Server][s][a] \in {"none", "ended"}
  BY ServiceAssumption DEF EndRound, IsCancelled, IInv, TypeOK, Targets, Tasks, Workers
<1>4. Rows(s)' = Rows(s)
  BY <1>3 DEF Rows
<1>5. TaskInv(s)'
  BY <1>1, <1>3, <1>4 DEF IInv, ScanInv, TaskInv, Creating, Pending, Started
<1>6. WorkerInv(s)'
  BY <1>1, <1>3, <1>4 DEF IInv, ScanInv, WorkerInv, TaskInv, Pending, Started
<1>7. RoundInv(s)'
  BY <1>1, <1>3, <1>4 DEF IInv, ScanInv, RoundInv, WorkerInv, Rows, Covered, Done
<1>8. CompletedInv(s)'
  BY <1>1, <1>3, <1>4
  DEF IInv, ScanInv, CompletedInv, TaskInv, RoundInv, Covered, Rows, Done, Pending, Started
<1>9. CountInv(s)'
  BY <1>1, <1>3, <1>4 DEF IInv, ScanInv, CountInv
<1>10. QED
  BY <1>1, <1>2, <1>3, <1>4, <1>5, <1>6, <1>7, <1>8, <1>9, PipelineStep
  DEF ScanInv, Pending, Started

\* Companion expansion adds nothing.
LEMMA ExpandNoneStep ==
    ASSUME IInv, TypeOK', NEW s \in Scan, ExpandScan(Server, s),
           UNCHANGED <<total, target, auto, worker>>,
           task' = [task EXCEPT ![Server][s] = "finalize"]
    PROVE  IInv'
<1> USE DEF rows, memory, bounds
<1>1. UNCHANGED <<up, cancelled, req>>
  BY DEF ExpandScan
<1>2. \A x \in Scan \ {s} : Untouched(x)
  BY ServiceAssumption DEF ExpandScan, CompanionRoom, Untouched, IInv, TypeOK, Targets, Tasks, Workers
<1>3. /\ task[Server][s] = "expand"
      /\ status'[s] = status[s]
      /\ total'[s] = total[s]
      /\ completed'[s] = completed[s]
      /\ target'[s] = target[s]
      /\ auto'[s] = auto[s]
      /\ task'[Server][s] = "finalize"
      /\ worker'[Server][s] = worker[Server][s]
  BY ServiceAssumption DEF ExpandScan, CompanionRoom, IInv, TypeOK, Targets, Tasks, Workers
<1>4. Rows(s)' = Rows(s)
  BY <1>3 DEF Rows
<1>5. TaskInv(s)'
  BY <1>1, <1>3, <1>4 DEF IInv, ScanInv, TaskInv, Creating, Pending, Started
<1>6. WorkerInv(s)'
  BY <1>1, <1>3, <1>4 DEF IInv, ScanInv, WorkerInv, TaskInv, Pending, Started
<1>7. RoundInv(s)'
  BY <1>1, <1>3, <1>4 DEF IInv, ScanInv, RoundInv, WorkerInv, Rows, Covered, Done
<1>8. CompletedInv(s)'
  BY <1>1, <1>3, <1>4
  DEF IInv, ScanInv, CompletedInv, TaskInv, RoundInv, Covered, Rows, Done, Pending, Started
<1>9. CountInv(s)'
  BY <1>1, <1>3, <1>4 DEF IInv, ScanInv, CountInv
<1>10. QED
  BY <1>1, <1>2, <1>3, <1>4, <1>5, <1>6, <1>7, <1>8, <1>9, PipelineStep
  DEF ScanInv, Pending, Started

\* Companion expansion adds targets and opens a round.
LEMMA ExpandSomeStep ==
    ASSUME IInv, TypeOK', NEW s \in Scan, ExpandScan(Server, s),
           NEW New \in SUBSET (Addr \ Rows(s)) \ {{}}, ExpandScan(Server, s)!2!2!(New)
    PROVE  IInv'
<1> USE DEF rows, memory, bounds
<1>1. UNCHANGED <<up, cancelled, req>>
  BY DEF ExpandScan
<1>2. \A x \in Scan \ {s} : Untouched(x)
  BY ServiceAssumption DEF ExpandScan, CompanionRoom, Untouched, IInv, TypeOK, Targets, Tasks, Workers
<1>3. /\ task[Server][s] = "expand" /\ Cardinality(auto[s] \cup New) <= CompanionCap
      /\ status'[s] = status[s]
      /\ total'[s] = Cardinality(Rows(s) \cup New)
      /\ completed'[s] = completed[s]
      /\ target'[s] = [x \in Addr |-> IF x \in New THEN "queued" ELSE target[s][x]]
      /\ auto'[s] = auto[s] \cup New
      /\ task'[Server][s] = "round"
      /\ worker'[Server][s] = [x \in Addr |-> IF x \in New THEN "waiting" ELSE worker[Server][s][x]]
  BY ServiceAssumption DEF ExpandScan, CompanionRoom, IInv, TypeOK, Targets, Tasks, Workers
<1>4. /\ Rows(s)' = Rows(s) \cup New
      /\ status[s] \in {"running", "cancelled"}
  <2>1. Rows(s)' = Rows(s) \cup New
    BY <1>3 DEF Rows
  <2>2. QED
    BY <1>3, <2>1 DEF IInv, ScanInv, TaskInv, Started
<1>5. completed[s] <= Cardinality(Rows(s) \cup New)
  <2>1. completed[s] \in Nat /\ Cardinality(Rows(s)) \in Nat /\ Cardinality(Rows(s) \cup New) \in Nat
    BY Cardinalities DEF IInv, TypeOK, Rows
  <2>2. completed[s] <= Cardinality(Rows(s))
    BY DEF IInv, ScanInv, CountInv
  <2>3. IsFiniteSet(Rows(s) \cup New) /\ Rows(s) \subseteq Rows(s) \cup New
    BY Cardinalities DEF Rows
  <2>4. Cardinality(Rows(s)) <= Cardinality(Rows(s) \cup New)
    BY <2>3, FS_Subset
  <2>5. QED
    BY <2>1, <2>2, <2>4
<1>6. TaskInv(s)'
  BY <1>1, <1>3, <1>4, <1>5 DEF IInv, ScanInv, TaskInv, Creating, Pending, Started
<1>7. WorkerInv(s)'
  BY <1>1, <1>3, <1>4, <1>5
  DEF IInv, ScanInv, WorkerInv, TaskInv, Pending, Started, TypeOK, Targets, Workers
<1>8. RoundInv(s)'
  BY <1>1, <1>3, <1>4, <1>5
  DEF IInv, ScanInv, RoundInv, WorkerInv, Rows, Covered, Done, TypeOK, Targets, Workers
<1>9. CompletedInv(s)'
  BY <1>1, <1>3, <1>4, <1>5
  DEF IInv, ScanInv, CompletedInv, TaskInv, RoundInv, Covered, Rows, Done, Pending, Started
<1>10. CountInv(s)'
  BY <1>1, <1>3, <1>4, <1>5 DEF IInv, ScanInv, CountInv
<1>11. QED
  BY <1>1, <1>2, <1>3, <1>4, <1>6, <1>7, <1>8, <1>9, <1>10, PipelineStep
  DEF ScanInv, Pending, Started

\* The last commit of the pipeline.
LEMMA FinalizeScanStep ==
    ASSUME IInv, TypeOK', NEW s \in Scan, FinalizeScan(Server, s)
    PROVE  IInv'
<1> USE DEF rows, memory, bounds
<1>1. UNCHANGED <<up, cancelled, req>>
  BY DEF FinalizeScan, IsCancelled
<1>2. \A x \in Scan \ {s} : Untouched(x)
  BY ServiceAssumption
  DEF FinalizeScan, IsCancelled, Untouched, IInv, TypeOK, Targets, Tasks, Workers
<1>3. /\ task[Server][s] = "finalize"
      /\ status'[s] = IF s \in cancelled THEN "cancelled" ELSE "completed"
      /\ total'[s] = total[s]
      /\ completed'[s] = CountDone(target[s])
      /\ target'[s] = target[s]
      /\ auto'[s] = auto[s]
      /\ task'[Server][s] = "ended"
      /\ worker'[Server][s] = worker[Server][s]
  BY ServiceAssumption DEF FinalizeScan, IsCancelled, IInv, TypeOK, Targets, Tasks, Workers
<1>4. Rows(s)' = Rows(s)
  BY <1>3 DEF Rows
<1>5. /\ CountDone(target[s]) \in Nat /\ CountDone(target[s]) <= Cardinality(Rows(s))
      /\ Covered(s) => CountDone(target[s]) = Cardinality(Rows(s))
  BY CountDoneBound, CountDoneType DEF Rows, Covered
<1>6. Rows(s) = {} => Cardinality(Rows(s)) = 0
  BY FS_EmptySet
<1>7. total[s] \in Nat /\ completed[s] \in Nat /\ Cardinality(Rows(s)) \in Nat
  BY Cardinalities DEF IInv, TypeOK, Rows
<1>8. TaskInv(s)'
  BY <1>1, <1>3, <1>4, <1>5, <1>6, <1>7 DEF IInv, ScanInv, TaskInv, Creating, Pending, Started
<1>9. WorkerInv(s)'
  BY <1>1, <1>3, <1>4, <1>5, <1>6, <1>7 DEF IInv, ScanInv, WorkerInv, TaskInv, Pending, Started
<1>10. RoundInv(s)'
  BY <1>1, <1>3, <1>4, <1>5, <1>6, <1>7
  DEF IInv, ScanInv, RoundInv, WorkerInv, Rows, Covered, Done
<1>11. CompletedInv(s)'
  BY <1>1, <1>3, <1>4, <1>5, <1>6, <1>7
  DEF IInv, ScanInv, CompletedInv, TaskInv, RoundInv, Covered, Rows, Done, Pending, Started
<1>12. CountInv(s)'
  BY <1>1, <1>3, <1>4, <1>5, <1>6, <1>7 DEF IInv, ScanInv, CountInv
<1>13. QED
  BY <1>1, <1>2, <1>3, <1>4, <1>8, <1>9, <1>10, <1>11, <1>12, PipelineStep
  DEF ScanInv, Pending, Started

\* The pipeline raises outside its gather.
LEMMA CrashPipelineStep ==
    ASSUME IInv, TypeOK', NEW s \in Scan, CrashPipeline(Server, s)
    PROVE  IInv'
<1> USE DEF rows, memory, bounds
<1>1. UNCHANGED <<up, cancelled, req>>
  BY DEF CrashPipeline, PipelineRaises
<1>2. \A x \in Scan \ {s} : Untouched(x)
  BY ServiceAssumption
  DEF CrashPipeline, PipelineRaises, Untouched, IInv, TypeOK, Targets, Tasks, Workers
<1>3. /\ task[Server][s] \in {"waiting", "expand", "finalize"}
      /\ status'[s] = "failed"
      /\ total'[s] = total[s]
      /\ completed'[s] = completed[s]
      /\ target'[s] = target[s]
      /\ auto'[s] = auto[s]
      /\ task'[Server][s] = "ended"
      /\ worker'[Server][s] = worker[Server][s]
  BY ServiceAssumption DEF CrashPipeline, PipelineRaises, IInv, TypeOK, Targets, Tasks, Workers
<1>4. Rows(s)' = Rows(s)
  BY <1>3 DEF Rows
<1>5. TaskInv(s)'
  BY <1>1, <1>3, <1>4 DEF IInv, ScanInv, TaskInv, Creating, Pending, Started
<1>6. WorkerInv(s)'
  BY <1>1, <1>3, <1>4 DEF IInv, ScanInv, WorkerInv, TaskInv, Pending, Started
<1>7. RoundInv(s)'
  BY <1>1, <1>3, <1>4 DEF IInv, ScanInv, RoundInv, WorkerInv, Rows, Covered, Done
<1>8. CompletedInv(s)'
  BY <1>1, <1>3, <1>4
  DEF IInv, ScanInv, CompletedInv, TaskInv, RoundInv, Covered, Rows, Done, Pending, Started
<1>9. CountInv(s)'
  BY <1>1, <1>3, <1>4 DEF IInv, ScanInv, CountInv
<1>10. QED
  BY <1>1, <1>2, <1>3, <1>4, <1>5, <1>6, <1>7, <1>8, <1>9, PipelineStep
  DEF ScanInv, Pending, Started

\* A coroutine raises and takes the pipeline with it.
LEMMA CrashTargetStep ==
    ASSUME IInv, TypeOK', NEW s \in Scan, NEW a \in Addr,
           CrashTarget(Server, s, a), task[Server][s] = "round"
    PROVE  IInv'
<1> USE DEF rows, memory, bounds
<1>0. /\ task[Server][s] = "round" /\ worker[Server][s][a] = "active"
      /\ status' = [status EXCEPT ![s] = "failed"]
      /\ task' = [task EXCEPT ![Server][s] = "ended"]
      /\ worker' = [worker EXCEPT ![Server][s][a] = "ended"]
      /\ UNCHANGED <<total, completed, target, auto, up, cancelled, req>>
  BY DEF CrashTarget, PipelineRaises
<1>1. UNCHANGED <<up, cancelled, req>>
  BY <1>0
<1>2. \A x \in Scan \ {s} : Untouched(x)
  BY <1>0, ServiceAssumption DEF Untouched, IInv, TypeOK, Targets, Tasks, Workers
<1>3. /\ task[Server][s] = "round" /\ worker[Server][s][a] = "active"
      /\ status'[s] = "failed"
      /\ total'[s] = total[s]
      /\ completed'[s] = completed[s]
      /\ target'[s] = target[s]
      /\ auto'[s] = auto[s]
      /\ task'[Server][s] = "ended"
      /\ worker'[Server][s] = [worker[Server][s] EXCEPT ![a] = "ended"]
  BY <1>0, ServiceAssumption DEF IInv, TypeOK, Targets, Tasks, Workers, IsCancelled
<1>4. /\ task[Server][s] \in {"round", "ended"}
      /\ status[s] \in {"running", "failed", "cancelled"}
      /\ target[s][a] # "none"
  BY <1>3 DEF IInv, ScanInv, TaskInv, WorkerInv, Pending, Started
<1>5. Rows(s)' = Rows(s)
  BY <1>3, <1>4 DEF Rows, IInv, TypeOK, Targets
<1>6. TaskInv(s)'
  BY <1>1, <1>3, <1>4, <1>5 DEF IInv, ScanInv, TaskInv, Creating, Pending, Started
<1>7. WorkerInv(s)'
  BY <1>1, <1>3, <1>4, <1>5
  DEF IInv, ScanInv, WorkerInv, TaskInv, Pending, Started, TypeOK, Targets, Workers
<1>8. RoundInv(s)'
  BY <1>1, <1>3, <1>4, <1>5
  DEF IInv, ScanInv, RoundInv, WorkerInv, Rows, Covered, Done, TypeOK, Targets, Workers
<1>9. CompletedInv(s)'
  BY <1>1, <1>3, <1>4, <1>5
  DEF IInv, ScanInv, CompletedInv, TaskInv, RoundInv, Covered, Rows, Done, Pending, Started
<1>10. CountInv(s)'
  BY <1>1, <1>3, <1>4, <1>5 DEF IInv, ScanInv, CountInv
<1>11. QED
  BY <1>1, <1>2, <1>3, <1>4, <1>6, <1>7, <1>8, <1>9, <1>10, PipelineStep
  DEF ScanInv, Pending, Started

\* A coroutine raises after its pipeline has failed.
LEMMA CrashStrayStep ==
    ASSUME IInv, TypeOK', NEW s \in Scan, NEW a \in Addr,
           CrashTarget(Server, s, a), task[Server][s] # "round"
    PROVE  IInv'
<1> USE DEF rows, memory, bounds
<1>0. /\ task[Server][s] # "round" /\ worker[Server][s][a] = "active"
      /\ worker' = [worker EXCEPT ![Server][s][a] = "ended"]
      /\ UNCHANGED <<status, total, completed, target, auto, task, up, cancelled, req>>
  BY DEF CrashTarget
<1>1. UNCHANGED <<up, cancelled, req>>
  BY <1>0
<1>2. \A x \in Scan \ {s} : Untouched(x)
  BY <1>0, ServiceAssumption DEF Untouched, IInv, TypeOK, Targets, Tasks, Workers
<1>3. /\ task[Server][s] # "round" /\ worker[Server][s][a] = "active"
      /\ status'[s] = status[s]
      /\ total'[s] = total[s]
      /\ completed'[s] = completed[s]
      /\ target'[s] = target[s]
      /\ auto'[s] = auto[s]
      /\ task'[Server][s] = task[Server][s]
      /\ worker'[Server][s] = [worker[Server][s] EXCEPT ![a] = "ended"]
  BY <1>0, ServiceAssumption DEF IInv, TypeOK, Targets, Tasks, Workers, IsCancelled
<1>4. /\ task[Server][s] \in {"round", "ended"}
      /\ status[s] \in {"running", "failed", "cancelled"}
      /\ target[s][a] # "none"
  BY <1>3 DEF IInv, ScanInv, TaskInv, WorkerInv, Pending, Started
<1>5. Rows(s)' = Rows(s)
  BY <1>3, <1>4 DEF Rows, IInv, TypeOK, Targets
<1>6. TaskInv(s)'
  BY <1>1, <1>3, <1>4, <1>5 DEF IInv, ScanInv, TaskInv, Creating, Pending, Started
<1>7. WorkerInv(s)'
  BY <1>1, <1>3, <1>4, <1>5
  DEF IInv, ScanInv, WorkerInv, TaskInv, Pending, Started, TypeOK, Targets, Workers
<1>8. RoundInv(s)'
  BY <1>1, <1>3, <1>4, <1>5
  DEF IInv, ScanInv, RoundInv, WorkerInv, Rows, Covered, Done, TypeOK, Targets, Workers
<1>9. CompletedInv(s)'
  BY <1>1, <1>3, <1>4, <1>5
  DEF IInv, ScanInv, CompletedInv, TaskInv, RoundInv, Covered, Rows, Done, Pending, Started
<1>10. CountInv(s)'
  BY <1>1, <1>3, <1>4, <1>5 DEF IInv, ScanInv, CountInv
<1>11. QED
  BY <1>1, <1>2, <1>3, <1>4, <1>6, <1>7, <1>8, <1>9, <1>10, PipelineStep
  DEF ScanInv, Pending, Started

\* Two moments at which the same endpoint calls are creating scans.
LEMMA CreationKept ==
    ASSUME IInv, \A q \in Request, x \in Scan : Creating(q, x)' => Creating(q, x) /\ req'[q] = req[q],
           \A q \in Request, x \in Scan : Creating(q, x)' =>
             /\ task'[Server][x] = task[Server][x] /\ status'[x] \in {status[x], "cancelled"}
             /\ total'[x] = total[x] /\ target'[x] = target[x]
    PROVE  CreationInv'
<1> SUFFICES ASSUME NEW r \in Request, NEW s \in Scan, Creating(r, s)'
             PROVE  /\ task'[Server][s] = "none"
                    /\ status'[s] \in {"queued", "cancelled"}
                    /\ \A q \in Request : Creating(q, s)' => q = r
                    /\ req'[r].op = "insert" =>
                         /\ Rows(s)' = {}
                         /\ total'[s] = Cardinality(req'[r].targets)
                         /\ Cardinality(req'[r].auto) <= CompanionCap
  BY DEF CreationInv
<1>1. Creating(r, s) /\ Rows(s)' = Rows(s)
  BY DEF Rows
<1>2. QED
  BY <1>1 DEF IInv, CreationInv

\* The first commit of _create_scan_record.
LEMMA InsertStep ==
    ASSUME IInv, TypeOK', NEW r \in Request, NEW s \in Scan, NEW T \in SUBSET Addr, NEW C \in SUBSET Addr,
           Cardinality(C) <= CompanionCap, req[r] = Idle, Server \in up,
           InsertScan(s, Cardinality(T)),
           req' = [req EXCEPT ![r] = [op |-> "insert", scan |-> s, targets |-> T, auto |-> C]],
           UNCHANGED <<completed, target, auto, memory>>
    PROVE  IInv'
<1> USE DEF memory
<1>1. /\ status[s] = "none" /\ task[Server][s] = "none" /\ Rows(s) = {} /\ completed[s] = 0
      /\ \A q \in Request : ~Creating(q, s)
  BY DEF InsertScan, IInv, ScanInv, TaskInv, CreationInv
<1>2. /\ req'[r] = [op |-> "insert", scan |-> s, targets |-> T, auto |-> C]
      /\ \A q \in Request \ {r} : req'[q] = req[q]
      /\ status'[s] = "queued" /\ total'[s] = Cardinality(T)
  BY DEF InsertScan, IInv, TypeOK
<1>3. \A x \in Scan \ {s} : Untouched(x)
  BY DEF InsertScan, IInv, TypeOK, Untouched
<1>4. /\ Creating(r, s)' /\ \A x \in Scan : Creating(r, x)' => x = s
      /\ \A x \in Scan : ~Creating(r, x)
      /\ \A q \in Request \ {r}, x \in Scan : Creating(q, x)' <=> Creating(q, x)
  BY <1>2 DEF Creating, Idle
<1>5. CreationInv'
  <2>1. ASSUME NEW q \in Request, NEW x \in Scan, Creating(q, x)', x # s
        PROVE  /\ task'[Server][x] = "none"
               /\ status'[x] \in {"queued", "cancelled"}
               /\ \A o \in Request : Creating(o, x)' => o = q
               /\ req'[q].op = "insert" =>
                    /\ Rows(x)' = {}
                    /\ total'[x] = Cardinality(req'[q].targets)
                    /\ Cardinality(req'[q].auto) <= CompanionCap
    <3>1. q # r /\ Creating(q, x) /\ req'[q] = req[q] /\ Untouched(x)
      BY <1>2, <1>3, <1>4, <2>1
    <3>2. Rows(x)' = Rows(x) /\ \A o \in Request : Creating(o, x)' => Creating(o, x)
      BY <1>4, <2>1 DEF Rows
    <3>3. QED
      BY <3>1, <3>2 DEF IInv, CreationInv, Untouched
  <2>2. ASSUME NEW q \in Request, Creating(q, s)' PROVE q = r
    BY <1>1, <1>4, <2>2
  <2>3. Rows(s)' = {} /\ task'[Server][s] = "none"
    BY <1>1 DEF Rows
  <2>4. QED
    BY <1>2, <2>1, <2>2, <2>3 DEF CreationInv
<1>6. DownInv'
  BY DEF DownInv
<1>7. ASSUME NEW x \in Scan, x # s PROVE ScanInv(x)'
  BY <1>3, <1>4, <1>7, UntouchedScan DEF IInv
<1>8. ScanInv(s)'
  <2>1. Rows(s)' = {} /\ Cardinality(Rows(s)') = 0
    BY <1>1, FS_EmptySet DEF Rows
  <2>2. TaskInv(s)'
    BY <1>1, <1>2, <1>4 DEF TaskInv, Pending, Started
  <2>3. WorkerInv(s)'
    BY <1>1, <1>2 DEF IInv, ScanInv, WorkerInv, Started
  <2>4. RoundInv(s)' /\ CompletedInv(s)'
    BY <1>1, <1>2 DEF RoundInv, CompletedInv
  <2>5. CountInv(s)'
    BY <1>1, <2>1 DEF IInv, ScanInv, CountInv
  <2>6. QED
    BY <2>2, <2>3, <2>4, <2>5 DEF ScanInv
<1>9. QED
  BY <1>5, <1>6, <1>7, <1>8 DEF IInv

\* POST /api/scans.
LEMMA CreateScanStep ==
    ASSUME IInv, TypeOK', NEW r \in Request, NEW s \in Scan, NEW T \in SUBSET Addr,
           CreateScan(r, s, T)
    PROVE  IInv'
<1>1. Cardinality({}) <= CompanionCap
  BY FS_EmptySet, ServiceAssumption
<1>2. QED
  BY <1>1, InsertStep DEF CreateScan, rows

\* POST /api/scans/{id}/rescan.
LEMMA RescanScanStep ==
    ASSUME IInv, TypeOK', NEW r \in Request, NEW s \in Scan, NEW old \in Scan, RescanScan(r, old, s)
    PROVE  IInv'
<1>1. Rows(old) \in SUBSET Addr /\ auto[old] \in SUBSET Addr
  BY DEF Rows, IInv, TypeOK
<1>2. Cardinality(auto[old]) <= CompanionCap
  BY DEF IInv, ScanInv, CountInv
<1>3. QED
  BY <1>1, <1>2, InsertStep DEF RescanScan

\* The second commit of _create_scan_record.
LEMMA CommitTargetsStep ==
    ASSUME IInv, TypeOK', NEW r \in Request, CommitTargets(r)
    PROVE  IInv'
<1> USE DEF rows, memory, bounds
<1>0. req[r] \in [op : {"insert"}, scan : Scan, targets : SUBSET Addr, auto : SUBSET Addr]
  BY DEF CommitTargets, IInv, TypeOK, Requests, Idle
<1> PICK s \in Scan, T \in SUBSET Addr, C \in SUBSET Addr :
           req[r].scan = s /\ req[r].targets = T /\ req[r].auto = C
  BY <1>0
<1>1. req[r].op = "insert" /\ Creating(r, s)
  BY <1>0 DEF Creating
<1>2. /\ task[Server][s] = "none" /\ status[s] \in {"queued", "cancelled"} /\ Rows(s) = {}
      /\ total[s] = Cardinality(T) /\ Cardinality(C) <= CompanionCap
      /\ \A q \in Request : Creating(q, s) => q = r
  BY <1>1 DEF IInv, CreationInv
<1>3. /\ req'[r] = [op |-> "start", scan |-> s]
      /\ \A q \in Request \ {r} : req'[q] = req[q]
  BY DEF CommitTargets, IInv, TypeOK
<1>4. /\ target'[s] = [a \in Addr |-> IF a \in T THEN "queued" ELSE "none"]
      /\ auto'[s] = C
      /\ UNCHANGED <<status, total, completed, task, worker, cancelled, up>>
  BY <1>1 DEF CommitTargets, InsertTargets, IInv, TypeOK, Targets
<1>5. \A x \in Scan \ {s} : Untouched(x)
  BY <1>1 DEF CommitTargets, InsertTargets, IInv, TypeOK, Targets, Untouched
<1>6. Rows(s)' = T
  BY <1>1, <1>4 DEF Rows
<1>7. \A q \in Request, x \in Scan : Creating(q, x)' <=> Creating(q, x)
  BY <1>1, <1>3 DEF Creating
<1>8. CreationInv'
  <2>1. ASSUME NEW q \in Request, NEW x \in Scan, Creating(q, x)', x # s
        PROVE  /\ task'[Server][x] = "none"
               /\ status'[x] \in {"queued", "cancelled"}
               /\ \A o \in Request : Creating(o, x)' => o = q
               /\ req'[q].op = "insert" =>
                    /\ Rows(x)' = {}
                    /\ total'[x] = Cardinality(req'[q].targets)
                    /\ Cardinality(req'[q].auto) <= CompanionCap
    <3>1. Creating(q, x) /\ Untouched(x) /\ Rows(x)' = Rows(x)
      BY <1>5, <1>7, <2>1 DEF Rows, Untouched
    <3>2. q # r
      BY <2>1, <3>1 DEF Creating
    <3>3. QED
      BY <1>3, <1>7, <3>1, <3>2 DEF IInv, CreationInv, Untouched
  <2>2. ASSUME NEW q \in Request, Creating(q, s)' PROVE q = r /\ req'[q].op # "insert"
    BY <1>1, <1>2, <1>3, <1>7, <2>2
  <2>3. QED
    BY <1>1, <1>2, <1>4, <2>1, <2>2 DEF CreationInv
<1>9. DownInv'
  BY <1>1, <1>4 DEF IInv, DownInv, Idle
<1>10. ASSUME NEW x \in Scan, x # s PROVE ScanInv(x)'
  BY <1>4, <1>5, <1>7, <1>10, UntouchedScan DEF IInv
<1>11. ScanInv(s)'
  <2>1. TaskInv(s)'
    BY <1>1, <1>2, <1>4, <1>7 DEF TaskInv, Pending, Started
  <2>2. WorkerInv(s)'
    BY <1>1, <1>2, <1>4 DEF IInv, ScanInv, WorkerInv, Started
  <2>3. RoundInv(s)' /\ CompletedInv(s)'
    BY <1>2, <1>4 DEF RoundInv, CompletedInv
  <2>4. completed[s] <= Cardinality(T)
    <3>1. completed[s] \in Nat /\ completed[s] <= 0 /\ Cardinality(T) \in Nat
      BY <1>1, <1>2, FS_EmptySet, Cardinalities DEF IInv, ScanInv, CountInv, TypeOK
    <3>2. QED
      BY <3>1
  <2>5. CountInv(s)'
    BY <1>2, <1>4, <1>6, <2>4 DEF CountInv
  <2>6. QED
    BY <2>1, <2>2, <2>3, <2>5 DEF ScanInv
<1>12. QED
  BY <1>1, <1>8, <1>9, <1>10, <1>11 DEF IInv

\* start_scan: the creation is over, a task is asked for.
LEMMA StartScanStep ==
    ASSUME IInv, TypeOK', NEW r \in Request, StartScan(r)
    PROVE  IInv'
<1> USE DEF rows, memory, bounds
<1>0. req[r] \in [op : {"start", "write"}, scan : Scan]
  BY DEF StartScan, IInv, TypeOK, Requests, Idle
<1> PICK s \in Scan : req[r].scan = s
  BY <1>0
<1>1. req[r].op = "start" /\ Creating(r, s)
  BY DEF StartScan, Creating
<1>2. /\ task[Server][s] = "none" /\ status[s] \in {"queued", "cancelled"}
      /\ \A q \in Request : Creating(q, s) => q = r
  BY <1>1 DEF IInv, CreationInv
<1>3. /\ cancelled' = cancelled \ {s}
      /\ task' = [task EXCEPT ![Server][s] = "posted"]
      /\ req' = [req EXCEPT ![r] = Idle]
      /\ UNCHANGED <<status, total, completed, target, auto, up, worker>>
  BY <1>2 DEF StartScan, Live, Pending, Started
<1>4. task'[Server][s] = "posted" /\ \A x \in Scan \ {s} : Untouched(x)
  BY <1>1, <1>3, ServiceAssumption DEF IInv, TypeOK, Tasks, Untouched
<1>5. /\ \A q \in Request, x \in Scan : Creating(q, x)' => Creating(q, x) /\ req'[q] = req[q] /\ x # s
      /\ \A q \in Request, x \in Scan : Creating(q, x) /\ x # s => Creating(q, x)'
  BY <1>1, <1>2, <1>3 DEF Creating, Idle, IInv, TypeOK
<1>6. CreationInv'
  BY <1>4, <1>5, CreationKept DEF Untouched
<1>7. DownInv'
  BY <1>1, <1>3 DEF IInv, DownInv, Idle
<1>8. ASSUME NEW x \in Scan, x # s PROVE ScanInv(x)'
  BY <1>3, <1>4, <1>5, <1>8, UntouchedScan DEF IInv
<1>9. ScanInv(s)'
  <2>1. TaskInv(s)'
    BY <1>1, <1>2, <1>3, <1>4 DEF TaskInv, Pending, Started
  <2>2. WorkerInv(s)'
    BY <1>1, <1>2, <1>3, <1>4 DEF IInv, ScanInv, WorkerInv, Started
  <2>3. RoundInv(s)' /\ CompletedInv(s)'
    BY <1>2, <1>3, <1>4 DEF RoundInv, CompletedInv
  <2>4. CountInv(s)'
    BY <1>1, <1>3 DEF IInv, ScanInv, CountInv, Rows
  <2>5. QED
    BY <2>1, <2>2, <2>3, <2>4 DEF ScanInv
<1>10. QED
  BY <1>1, <1>6, <1>7, <1>8, <1>9 DEF IInv

\* The steps of a cancel: they raise flags, write CANCELLED, and create nothing.
LEMMA CancelStep ==
    ASSUME IInv, TypeOK', NEW r \in Request,
           req[r].op \notin {"insert", "start"}, req[r] # Idle \/ Server \in up,
           \E v : v.op \notin {"insert", "start"} /\ req' = [req EXCEPT ![r] = v],
           cancelled \subseteq cancelled',
           \A s \in Scan : status'[s] \in {status[s], "cancelled"},
           UNCHANGED <<total, completed, target, auto, up, task, worker>>
    PROVE  IInv'
<1>1. /\ \A q \in Request, x \in Scan : Creating(q, x)' <=> Creating(q, x)
      /\ \A q \in Request, x \in Scan : Creating(q, x)' => req'[q] = req[q]
  BY DEF Creating, IInv, TypeOK
<1>2. CreationInv'
  BY <1>1, CreationKept
<1>3. DownInv'
  BY DEF IInv, DownInv
<1>4. ASSUME NEW s \in Scan PROVE ScanInv(s)'
  <2>1. CASE status'[s] = status[s]
    BY <1>1, <2>1, UntouchedScan DEF IInv, Untouched
  <2>2. CASE status'[s] = "cancelled"
    <3>1. Rows(s)' = Rows(s) /\ Covered(s)' = Covered(s)
      BY DEF Rows, Covered
    <3>2. TaskInv(s)'
      BY <2>2 DEF IInv, ScanInv, TaskInv
    <3>3. WorkerInv(s)'
      BY <2>2 DEF IInv, ScanInv, WorkerInv
    <3>4. RoundInv(s)'
      BY <3>1 DEF IInv, ScanInv, RoundInv
    <3>5. CompletedInv(s)' /\ CountInv(s)'
      BY <2>2, <3>1 DEF IInv, ScanInv, CompletedInv, CountInv
    <3>6. QED
      BY <3>2, <3>3, <3>4, <3>5 DEF ScanInv
  <2>3. QED
    BY <2>1, <2>2
<1>5. QED
  BY <1>2, <1>3, <1>4 DEF IInv

\* cancel_scan reads the row.
LEMMA CancelReadStep ==
    ASSUME IInv, TypeOK', NEW r \in Request, NEW s \in Scan, CancelRead(r, s)
    PROVE  IInv'
<1> DEFINE v == [op |-> "flag", scan |-> s, seen |-> status[s]]
<1>1. v.op \notin {"insert", "start"} /\ req' = [req EXCEPT ![r] = v]
  BY DEF CancelRead
<1>2. req[r].op \notin {"insert", "start"} /\ Server \in up
  BY DEF CancelRead, Idle
<1>3. /\ cancelled \subseteq cancelled' /\ \A x \in Scan : status'[x] \in {status[x], "cancelled"}
      /\ UNCHANGED <<total, completed, target, auto, up, task, worker>>
  BY DEF CancelRead, rows, memory
<1>4. QED
  BY <1>1, <1>2, <1>3, CancelStep

\* cancel_scan raises the flag.
LEMMA CancelFlagStep ==
    ASSUME IInv, TypeOK', NEW r \in Request, CancelFlag(r)
    PROVE  IInv'
<1> DEFINE v == IF req[r].seen = "queued" THEN [op |-> "write", scan |-> req[r].scan] ELSE Idle
<1>1. v.op \notin {"insert", "start"} /\ req' = [req EXCEPT ![r] = v]
  BY DEF CancelFlag, Idle
<1>2. QED
  <2>1. /\ req[r].op \notin {"insert", "start"} /\ req[r] # Idle
        /\ cancelled \subseteq cancelled' /\ \A x \in Scan : status'[x] \in {status[x], "cancelled"}
        /\ UNCHANGED <<total, completed, target, auto, up, task, worker>>
    BY DEF CancelFlag, rows, Idle
  <2>2. QED
    BY <1>1, <2>1, CancelStep

\* cancel_scan writes CANCELLED.
LEMMA CancelWriteStep ==
    ASSUME IInv, TypeOK', NEW r \in Request, CancelWrite(r)
    PROVE  IInv'
<1>1. Idle.op \notin {"insert", "start"} /\ req' = [req EXCEPT ![r] = Idle]
  BY DEF CancelWrite, Idle
<1>2. /\ req[r].op \notin {"insert", "start"} /\ req[r] # Idle
      /\ cancelled \subseteq cancelled' /\ \A x \in Scan : status'[x] \in {status[x], "cancelled"}
      /\ UNCHANGED <<total, completed, target, auto, up, task, worker>>
  BY DEF CancelWrite, memory, Idle, IInv, TypeOK
<1>3. QED
  BY <1>1, <1>2, CancelStep

\* The server ends.
LEMMA CrashStep ==
    ASSUME IInv, TypeOK', Crash(Server)
    PROVE  IInv'
<1> USE DEF rows, memory, bounds
<1>1. /\ Server \notin up' /\ UNCHANGED <<status, total, completed, target, auto>>
      /\ \A r \in Request : req'[r] = Idle
      /\ \A s \in Scan : task'[Server][s] = "none"
      /\ \A s \in Scan, a \in Addr : worker'[Server][s][a] = "none"
  BY ServiceAssumption DEF Crash, EndProcess, NoWorkers, IInv, TypeOK, Tasks, Workers
<1>2. \A r \in Request, s \in Scan : ~Creating(r, s)'
  BY <1>1 DEF Creating, Idle
<1>3. CreationInv' /\ DownInv'
  BY <1>1, <1>2 DEF CreationInv, DownInv
<1>4. ASSUME NEW s \in Scan PROVE ScanInv(s)'
  <2>1. Rows(s)' = Rows(s) /\ Covered(s)' = Covered(s)
    BY <1>1 DEF Rows, Covered
  <2>2. TaskInv(s)'
    BY <1>1, <2>1 DEF IInv, ScanInv, TaskInv, Pending, Started
  <2>3. WorkerInv(s)' /\ RoundInv(s)'
    BY <1>1 DEF WorkerInv, RoundInv
  <2>4. CompletedInv(s)' /\ CountInv(s)'
    BY <1>1, <2>1 DEF IInv, ScanInv, CompletedInv, CountInv
  <2>5. QED
    BY <2>2, <2>3, <2>4 DEF ScanInv
<1>5. QED
  BY <1>3, <1>4 DEF IInv

\* The server starts and recovers.
LEMMA RestartStep ==
    ASSUME IInv, TypeOK', Restart
    PROVE  IInv'
<1>1. /\ \A s \in Scan : task[Server][s] = "none"
      /\ \A r \in Request : req[r] = Idle
  BY DEF Restart, IInv, DownInv
<1>2. /\ Server \in up' /\ UNCHANGED <<total, completed, target, auto, worker, cancelled, req>>
      /\ \A s \in Scan : status'[s] = IF status[s] = "running" THEN "failed" ELSE status[s]
      /\ \A s \in Scan : task'[Server][s] = IF status[s] = "queued" THEN "waiting" ELSE "none"
  BY <1>1, ServiceAssumption DEF Restart, IInv, TypeOK, Tasks
<1>3. \A r \in Request, s \in Scan : ~Creating(r, s)'
  BY <1>1, <1>2 DEF Creating, Idle
<1>4. CreationInv' /\ DownInv'
  BY <1>2, <1>3 DEF CreationInv, DownInv
<1>5. ASSUME NEW s \in Scan PROVE ScanInv(s)'
  <2>1. Rows(s)' = Rows(s) /\ Covered(s)' = Covered(s)
    BY <1>2 DEF Rows, Covered
  <2>2. \A a \in Addr : worker[Server][s][a] = "none"
    BY <1>1 DEF IInv, ScanInv, WorkerInv, Started
  <2>3. TaskInv(s)'
    BY <1>2, <2>1 DEF IInv, ScanInv, TaskInv, Pending, Started
  <2>4. WorkerInv(s)'
    BY <1>2, <2>2 DEF WorkerInv
  <2>5. RoundInv(s)'
    BY <1>2 DEF RoundInv
  <2>6. CompletedInv(s)'
    BY <1>2, <2>1 DEF IInv, ScanInv, CompletedInv
  <2>7. CountInv(s)'
    BY <1>2, <2>1 DEF IInv, ScanInv, CountInv
  <2>8. QED
    BY <2>3, <2>4, <2>5, <2>6, <2>7 DEF ScanInv
<1>6. QED
  BY <1>4, <1>5 DEF IInv

----------------------------------------------------------------------------
(* The whole service.                                                      *)

LEMMA InvInit == Init => IInv
<1> SUFFICES ASSUME Init PROVE IInv
  OBVIOUS
<1>1. TypeOK
  BY TypeInit
<1>2. ASSUME NEW s \in Scan
      PROVE  /\ status[s] = "none" /\ completed[s] = 0 /\ total[s] = 0 /\ auto[s] = {} /\ Rows(s) = {}
             /\ task[Server][s] = "none" /\ \A a \in Addr : worker[Server][s][a] = "none"
  BY ServiceAssumption DEF Init, Rows, NoWorkers
<1>3. CreationInv /\ DownInv
  BY DEF Init, CreationInv, DownInv, Creating, Idle
<1>4. ASSUME NEW s \in Scan PROVE ScanInv(s)
  <2>1. CountInv(s)
    <3>1. Cardinality(Rows(s)) = 0 /\ Cardinality(auto[s]) = 0
      BY <1>2, FS_EmptySet
    <3>2. QED
      BY <1>2, <3>1, ServiceAssumption DEF CountInv
  <2>2. QED
    BY <1>2, <2>1 DEF ScanInv, TaskInv, WorkerInv, RoundInv, CompletedInv, Pending, Started
<1>5. QED
  BY <1>1, <1>3, <1>4 DEF IInv

LEMMA InvNext == Proc = {Server} /\ IInv /\ [Next]_vars => IInv'
<1> SUFFICES ASSUME Proc = {Server}, IInv, [Next]_vars PROVE IInv'
  OBVIOUS
<1> TypeOK'
  BY TypeNext DEF IInv
<1>1. CASE User
  BY <1>1, CreateScanStep, RescanScanStep, CancelReadStep DEF User, CliCreate
<1>2. CASE Fault
  <2>1. ASSUME NEW s \in Scan, NEW a \in Addr, CrashTarget(Server, s, a) PROVE IInv'
    BY <2>1, CrashTargetStep, CrashStrayStep
  <2>2. QED
    BY <1>2, <2>1, CrashPipelineStep, CrashStep DEF Fault
<1>3. CASE \E r \in Request : Endpoint(r)
  BY <1>3, CommitTargetsStep, StartScanStep, CancelFlagStep, CancelWriteStep DEF Endpoint
<1>4. CASE \E s \in Scan : SpawnTask(s)
  BY <1>4, SpawnTaskStep
<1>5. ASSUME NEW s \in Scan, Pipeline(Server, s) PROVE IInv'
  <2>1. ASSUME NEW a \in Addr, StartTarget(Server, s, a) PROVE IInv'
    BY <2>1, StartCancelledStep, StartTargetStep
  <2>2. ASSUME ExpandScan(Server, s) PROVE IInv'
    <3>1. CASE /\ task' = [task EXCEPT ![Server][s] = "finalize"]
               /\ UNCHANGED <<total, target, auto, worker>>
      BY <2>2, <3>1, ExpandNoneStep
    <3>2. CASE \E New \in SUBSET (Addr \ Rows(s)) \ {{}} : ExpandScan(Server, s)!2!2!(New)
      <4> PICK New \in SUBSET (Addr \ Rows(s)) \ {{}} : ExpandScan(Server, s)!2!2!(New)
        BY <3>2
      <4>1. QED
        BY <2>2, ExpandSomeStep
    <3>3. QED
      BY <2>2, <3>1, <3>2 DEF ExpandScan
  <2>3. QED
    BY <1>5, <2>1, <2>2, BeginPipelineStep, FinishTargetStep, FailTargetStep, EndRoundStep,
       FinalizeScanStep
    DEF Pipeline
<1>6. CASE Restart
  BY <1>6, RestartStep
<1>7. ASSUME NEW s \in Scan, NEW T \in SUBSET Addr, CliCommitTargets(Server, s, T) PROVE IInv'
  BY <1>7 DEF CliCommitTargets, IInv, ScanInv, TaskInv
<1>8. CASE UNCHANGED vars
  <2>1. UNCHANGED <<status, total, completed, target, auto, up, cancelled, task, worker, req>>
    BY <1>8 DEF vars, rows, memory
  <2>2. \A r \in Request, s \in Scan : Creating(r, s)' <=> Creating(r, s)
    BY <2>1 DEF Creating
  <2>3. CreationInv'
    BY <2>1, <2>2, CreationKept
  <2>4. DownInv'
    BY <2>1 DEF IInv, DownInv
  <2>5. ASSUME NEW s \in Scan PROVE ScanInv(s)'
    BY <2>1, <2>2, UntouchedScan DEF IInv, Untouched
  <2>6. QED
    BY <2>3, <2>4, <2>5 DEF IInv
<1>9. QED
  BY <1>1, <1>2, <1>3, <1>4, <1>5, <1>6, <1>7, <1>8 DEF Next

LEMMA InvImplies ==
    ASSUME Proc = {Server}, IInv
    PROVE  /\ CompletedIsCovered /\ RunningIsRun /\ QueuedIsHeard
           /\ FailedIsIdle /\ StrayWorkMeansFailure
<1>1. CompletedIsCovered
  <2> SUFFICES ASSUME NEW s \in Scan, status[s] = "completed"
               PROVE  /\ \A a \in Rows(s) : target[s][a] \in Done
                      /\ completed[s] = Cardinality(Rows(s))
                      /\ \A p \in Proc, a \in Addr : worker[p][s][a] \in {"none", "ended"}
    BY DEF CompletedIsCovered
  <2>1. /\ \A a \in Rows(s) : target[s][a] \in Done
        /\ completed[s] = Cardinality(Rows(s))
        /\ task[Server][s] # "round"
    BY DEF IInv, ScanInv, CompletedInv, Covered, Rows
  <2>2. ASSUME NEW a \in Addr PROVE worker[Server][s][a] \in {"none", "ended"}
    <3>1. worker[Server][s][a] \in {"none", "waiting", "active", "ended"}
      BY ServiceAssumption DEF IInv, TypeOK, Workers
    <3>2. QED
      BY <2>1, <3>1 DEF IInv, ScanInv, WorkerInv
  <2>3. QED
    BY <2>1, <2>2
<1>2. RunningIsRun
  BY DEF IInv, ScanInv, TaskInv, RunningIsRun
<1>3. QueuedIsHeard
  BY DEF IInv, ScanInv, TaskInv, QueuedIsHeard, Creating
<1>4. FailedIsIdle
  BY DEF IInv, ScanInv, TaskInv, FailedIsIdle, Live
<1>5. StrayWorkMeansFailure
  BY DEF IInv, ScanInv, WorkerInv, StrayWorkMeansFailure
<1>6. QED
  BY <1>1, <1>2, <1>3, <1>4, <1>5

\* The inductive invariant holds of a server that shares its database with no
\* command-line run.
THEOREM Invariance ==
    ASSUME Proc = {Server}
    PROVE  Spec => []IInv
<1>1. Init => IInv
  BY InvInit
<1>2. IInv /\ [Next]_vars => IInv'
  BY InvNext
<1>3. QED
  BY <1>1, <1>2, PTL DEF Spec

\* A scan the service reports as completed has every target done, counts all of
\* them, and has no coroutine at work.
THEOREM CoveredCorrect ==
    ASSUME Proc = {Server}
    PROVE  Spec => []CompletedIsCovered
<1>1. IInv => CompletedIsCovered
  BY InvImplies
<1>2. QED
  BY <1>1, Invariance, PTL

\* While the server is up, a RUNNING row has a pipeline.
THEOREM RunCorrect ==
    ASSUME Proc = {Server}
    PROVE  Spec => []RunningIsRun
<1>1. IInv => RunningIsRun
  BY InvImplies
<1>2. QED
  BY <1>1, Invariance, PTL

\* While the server is up, a QUEUED row has a task, or a call about to ask for one.
THEOREM HeardCorrect ==
    ASSUME Proc = {Server}
    PROVE  Spec => []QueuedIsHeard
<1>1. IInv => QueuedIsHeard
  BY InvImplies
<1>2. QED
  BY <1>1, Invariance, PTL

\* A failed scan has no task that will run or is running it.
THEOREM FailedCorrect ==
    ASSUME Proc = {Server}
    PROVE  Spec => []FailedIsIdle
<1>1. IInv => FailedIsIdle
  BY InvImplies
<1>2. QED
  BY <1>1, Invariance, PTL

\* Coroutines left behind by their pipeline belong to a scan that failed.
THEOREM StrayCorrect ==
    ASSUME Proc = {Server}
    PROVE  Spec => []StrayWorkMeansFailure
<1>1. IInv => StrayWorkMeansFailure
  BY InvImplies
<1>2. QED
  BY <1>1, Invariance, PTL

\* One step: the flag of a scan in hand is kept, and the step does not report
\* the scan completed.
LEMMA CancelStepwise ==
    ASSUME Proc = {Server}, IInv, [Next]_vars, NEW s \in Scan, s \in cancelled, Live(Server, s)
    PROVE  /\ status'[s] # "completed"
           /\ s \in cancelled' \/ Server \notin up'
<1> USE DEF rows, memory, bounds
<1>1. status[s] # "completed" /\ TypeOK
  BY DEF IInv, ScanInv, TaskInv, Live
<1>2. ASSUME UNCHANGED <<status, cancelled>>
      PROVE  status'[s] # "completed" /\ s \in cancelled'
  BY <1>1, <1>2
<1>3. ASSUME NEW x \in Scan, NEW v, v # "completed",
             status' = [status EXCEPT ![x] = v] \/ UNCHANGED status, UNCHANGED cancelled
      PROVE  status'[s] # "completed" /\ s \in cancelled'
  BY <1>1, <1>3 DEF TypeOK
<1>4. CASE User
  BY <1>2, <1>3, <1>4 DEF User, CreateScan, RescanScan, InsertScan, CancelRead, CliCreate
<1>5. CASE Fault
  <2>1. ASSUME NEW x \in Scan, CrashPipeline(Server, x)
        PROVE  status'[s] # "completed" /\ s \in cancelled'
    BY <1>3, <2>1 DEF CrashPipeline, PipelineRaises
  <2>2. ASSUME NEW x \in Scan, NEW a \in Addr, CrashTarget(Server, x, a)
        PROVE  status'[s] # "completed" /\ s \in cancelled'
    BY <1>2, <1>3, <2>2 DEF CrashTarget, PipelineRaises
  <2>3. CASE Crash(Server)
    BY <1>1, <2>3 DEF Crash, EndProcess
  <2>4. QED
    BY <1>5, <2>1, <2>2, <2>3 DEF Fault
<1>6. ASSUME NEW r \in Request, Endpoint(r)
      PROVE  status'[s] # "completed" /\ s \in cancelled'
  <2>1. CASE CommitTargets(r)
    BY <1>2, <2>1 DEF CommitTargets
  <2>2. CASE StartScan(r)
    BY <1>1, <2>2 DEF StartScan
  <2>3. CASE CancelFlag(r)
    BY <1>1, <2>3 DEF CancelFlag
  <2>4. CASE CancelWrite(r)
    BY <1>1, <2>4 DEF CancelWrite, TypeOK
  <2>5. QED
    BY <1>6, <2>1, <2>2, <2>3, <2>4 DEF Endpoint
<1>7. ASSUME NEW x \in Scan, SpawnTask(x)
      PROVE  status'[s] # "completed" /\ s \in cancelled'
  BY <1>2, <1>7 DEF SpawnTask
<1>8. ASSUME NEW x \in Scan, Pipeline(Server, x)
      PROVE  status'[s] # "completed" /\ s \in cancelled'
  <2>1. CASE BeginPipeline(Server, x)
    BY <1>3, <2>1 DEF BeginPipeline
  <2>2. ASSUME NEW a \in Addr, \/ StartTarget(Server, x, a)
                               \/ FinishTarget(Server, x, a)
                               \/ FailTarget(Server, x, a)
        PROVE  status'[s] # "completed" /\ s \in cancelled'
    BY <1>2, <2>2 DEF StartTarget, FinishTarget, FailTarget
  <2>3. CASE EndRound(Server, x) \/ ExpandScan(Server, x)
    BY <1>2, <2>3 DEF EndRound, ExpandScan
  <2>4. CASE FinalizeScan(Server, x)
    <3>1. /\ status' = [status EXCEPT ![x] = IF x \in cancelled THEN "cancelled" ELSE "completed"]
          /\ UNCHANGED cancelled
      BY <2>4 DEF FinalizeScan, IsCancelled
    <3>2. CASE x = s
      BY <1>1, <3>1, <3>2 DEF TypeOK
    <3>3. CASE x # s
      BY <1>1, <3>1, <3>3 DEF TypeOK
    <3>4. QED
      BY <3>2, <3>3
  <2>5. QED
    BY <1>8, <2>1, <2>2, <2>3, <2>4 DEF Pipeline
<1>9. CASE Restart
  BY <1>1, <1>9 DEF Restart, TypeOK
<1>10. ASSUME NEW x \in Scan, NEW T \in SUBSET Addr, CliCommitTargets(Server, x, T)
       PROVE  status'[s] # "completed" /\ s \in cancelled'
  BY <1>2, <1>10 DEF CliCommitTargets
<1>11. CASE UNCHANGED vars
  BY <1>2, <1>11 DEF vars
<1>12. QED
  BY <1>4, <1>5, <1>6, <1>7, <1>8, <1>9, <1>10, <1>11 DEF Next

\* A cancel flag raised while the scan is in the server's hands is kept until
\* the scan is over, and such a scan is never reported completed.
THEOREM CancelCorrect ==
    ASSUME Proc = {Server}
    PROVE  Spec => CancelSticks
<1>1. IInv /\ [Next]_vars =>
        [\A s \in Scan : s \in cancelled /\ Live(Server, s) =>
           /\ status'[s] # "completed"
           /\ s \in cancelled' \/ Server \notin up']_vars
  BY CancelStepwise
<1>2. QED
  BY <1>1, Invariance, PTL DEF Spec, CancelSticks

----------------------------------------------------------------------------
(* How much runs at once.  These need no IInv, and hold beside any number  *)
(* of command-line runs.                                                   *)

\* At most N * M pairs, if there are at most N first parts and at most M
\* second parts for each.
LEMMA PairsBound ==
    ASSUME NEW S, NEW T, IsFiniteSet(S), IsFiniteSet(T), NEW W \in SUBSET (S \X T),
           NEW N \in Nat, NEW M \in Nat \ {0},
           NEW R \in SUBSET S, Cardinality(R) <= N, \A w \in W : w[1] \in R,
           \A s \in S : Cardinality({t \in T : <<s, t>> \in W}) <= M
    PROVE  Cardinality(W) <= N * M
<1> DEFINE Of(s) == {t \in T : <<s, t>> \in W}
<1> DEFINE Number(s) == CHOOSE f \in [Of(s) -> 1..M] : \A t, u \in Of(s) : f[t] = f[u] => t = u
<1>1. ASSUME NEW s \in S
      PROVE  \E f \in [Of(s) -> 1..M] : \A t, u \in Of(s) : f[t] = f[u] => t = u
  <2>1. Of(s) \in SUBSET T /\ Cardinality(Of(s)) <= M
    OBVIOUS
  <2> HIDE DEF Of
  <2>2. IsFiniteSet(Of(s)) /\ Cardinality(Of(s)) \in Nat
    BY <2>1, FS_Subset, FS_CardinalityType
  <2> DEFINE I == 1..Cardinality(Of(s))
  <2>3. PICK h \in Bijection(I, Of(s)) : TRUE
    BY <2>2, FS_CardinalityType, Fun_ExistsBij
  <2> DEFINE f == Inverse(h, I, Of(s))
  <2>4. I \subseteq 1..M
    BY <2>1, <2>2
  <2> HIDE DEF I
  <2>5. f \in Bijection(Of(s), I)
    BY Fun_BijInverse
  <2> HIDE DEF f
  <2>6. f \in [Of(s) -> I]
    BY <2>5, Fun_BijectionProperties
  <2>7. \A t, u \in Of(s) : f[t] = f[u] => t = u
    BY <2>5, Fun_BijectionProperties
  <2>8. QED
    BY <2>4, <2>6, <2>7
<1> DEFINE g == [w \in W |-> <<w[1], Number(w[1])[w[2]]>>]
<1>2. ASSUME NEW w \in W
      PROVE  /\ w = <<w[1], w[2]>> /\ w[1] \in R /\ w[1] \in S /\ w[2] \in Of(w[1])
             /\ Number(w[1]) \in [Of(w[1]) -> 1..M]
             /\ \A t, u \in Of(w[1]) : Number(w[1])[t] = Number(w[1])[u] => t = u
  <2>1. w = <<w[1], w[2]>> /\ w[1] \in S /\ w[2] \in T /\ w[1] \in R
    OBVIOUS
  <2>2. w[2] \in Of(w[1])
    BY <2>1
  <2> HIDE DEF Of
  <2>3. QED
    BY <1>1, <2>1, <2>2
<1>3. g \in Injection(W, R \X (1..M))
  <2> HIDE DEF Of, Number
  <2>1. g \in [W -> R \X (1..M)]
    BY <1>2
  <2>2. ASSUME NEW v \in W, NEW w \in W, g[v] = g[w] PROVE v = w
    <3>1. v[1] = w[1] /\ Number(v[1])[v[2]] = Number(w[1])[w[2]]
      BY <2>2
    <3>2. v[2] = w[2]
      BY <1>2, <3>1
    <3>3. QED
      BY <1>2, <3>1, <3>2
  <2>3. QED
    BY <2>1, <2>2, Fun_IsInj
<1> HIDE DEF g
<1>4. IsFiniteSet(R) /\ Cardinality(R) \in Nat
  BY FS_Subset, FS_CardinalityType
<1>5. IsFiniteSet(1..M) /\ Cardinality(1..M) = M
  BY FS_Interval
<1>6. /\ IsFiniteSet(R \X (1..M)) /\ Cardinality(R \X (1..M)) = Cardinality(R) * M
  BY <1>4, <1>5, FS_Product
<1>7. Cardinality(W) <= Cardinality(R) * M
  BY <1>3, <1>6, FS_Injection
<1>8. IsFiniteSet(W) /\ Cardinality(W) \in Nat
  BY <1>3, <1>6, FS_Injection, FS_CardinalityType
<1>9. Cardinality(R) * M <= N * M
  BY <1>4
<1>10. Cardinality(R) * M \in Nat /\ N * M \in Nat
  BY <1>4
<1>11. QED
  BY <1>7, <1>8, <1>9, <1>10

\* What bounds the work of the server when no exception escapes: a running
\* scan has a slot, an active target has one of its scan, and what waits or
\* works belongs to a round.
BoundInv ==
    /\ DownInv
    /\ Cardinality(RunningScans) <= MaxParallelScans
    /\ \A s \in Scan :
         /\ Cardinality(ActiveTargets(Server, s)) <= MaxParallelTargets
         /\ \A a \in Addr :
              worker[Server][s][a] \in {"waiting", "active"} => task[Server][s] = "round"

LEMMA SetsOfWork ==
    /\ RunningScans \in SUBSET Scan /\ IsFiniteSet(RunningScans)
    /\ Cardinality(RunningScans) \in Nat
    /\ \A s \in Scan : /\ ActiveTargets(Server, s) \in SUBSET Addr
                       /\ IsFiniteSet(ActiveTargets(Server, s))
                       /\ Cardinality(ActiveTargets(Server, s)) \in Nat
<1>1. RunningScans \in SUBSET Scan /\ \A s \in Scan : ActiveTargets(Server, s) \in SUBSET Addr
  BY DEF RunningScans, ActiveTargets
<1>2. QED
  BY <1>1, ServiceAssumption, FS_Subset, FS_CardinalityType

\* A step that gives no scan a slot and starts no target, and leaves nothing
\* at work outside of a round.
LEMMA LessWork ==
    ASSUME BoundInv, DownInv',
           \A s \in Scan : task'[Server][s] \in Started => task[Server][s] \in Started,
           \A s \in Scan, a \in Addr : worker'[Server][s][a] = "active" =>
              worker[Server][s][a] = "active",
           \A s \in Scan, a \in Addr : worker'[Server][s][a] \in {"waiting", "active"} =>
              task'[Server][s] = "round"
    PROVE  BoundInv'
<1>1. RunningScans' \in SUBSET RunningScans
  BY DEF RunningScans
<1>2. Cardinality(RunningScans') <= Cardinality(RunningScans) /\ Cardinality(RunningScans') \in Nat
  BY <1>1, SetsOfWork, FS_Subset, FS_CardinalityType
<1>3. Cardinality(RunningScans') <= MaxParallelScans
  BY <1>2, SetsOfWork, ServiceAssumption DEF BoundInv
<1>4. ASSUME NEW s \in Scan PROVE Cardinality(ActiveTargets(Server, s)') <= MaxParallelTargets
  <2>1. ActiveTargets(Server, s)' \in SUBSET ActiveTargets(Server, s)
    BY DEF ActiveTargets
  <2>2. /\ Cardinality(ActiveTargets(Server, s)') <= Cardinality(ActiveTargets(Server, s))
        /\ Cardinality(ActiveTargets(Server, s)') \in Nat
    BY <2>1, SetsOfWork, FS_Subset, FS_CardinalityType
  <2>3. QED
    BY <2>2, SetsOfWork, ServiceAssumption DEF BoundInv
<1>5. QED
  BY <1>3, <1>4 DEF BoundInv

\* A process other than the server changes nothing of it.
LEMMA OtherProcess ==
    ASSUME BoundInv, Server \in up' <=> Server \in up, task'[Server] = task[Server],
           worker'[Server] = worker[Server],
           \A r \in Request : req[r] = Idle => req'[r] = Idle \/ Server \in up
    PROVE  BoundInv'
<1>1. DownInv'
  BY DEF BoundInv, DownInv
<1>2. QED
  BY <1>1, LessWork DEF BoundInv

\* A pipeline takes a slot.
LEMMA BeginBound ==
    ASSUME TypeOK, BoundInv, NEW s \in Scan, BeginPipeline(Server, s)
    PROVE  BoundInv'
<1>1. /\ task'[Server][s] \in Started /\ task[Server][s] = "waiting"
      /\ task'[Server][s] = IF Rows(s) = {} THEN "finalize" ELSE "round"
      /\ worker'[Server][s] = [x \in Addr |-> IF x \in Rows(s) THEN "waiting" ELSE "none"]
      /\ \A x \in Scan \ {s} : task'[Server][x] = task[Server][x] /\ worker'[Server][x] = worker[Server][x]
      /\ UNCHANGED <<up, req>>
  BY ServiceAssumption DEF BeginPipeline, TypeOK, Tasks, Workers, Started
<1>2. RunningScans' = RunningScans \cup {s} /\ s \notin RunningScans
  BY <1>1 DEF RunningScans, Started
<1>3. Cardinality(RunningScans') = Cardinality(RunningScans) + 1
  BY <1>2, SetsOfWork, FS_AddElement
<1>4. Cardinality(RunningScans') <= MaxParallelScans
  BY <1>3, SetsOfWork, ServiceAssumption DEF BeginPipeline, SlotFree
<1>5. ASSUME NEW x \in Scan
      PROVE  /\ Cardinality(ActiveTargets(Server, x)') <= MaxParallelTargets
             /\ \A a \in Addr :
                  worker'[Server][x][a] \in {"waiting", "active"} => task'[Server][x] = "round"
  <2>1. CASE x = s
    <3>1. ActiveTargets(Server, x)' = {}
      BY <1>1, <2>1 DEF ActiveTargets
    <3>2. Cardinality(ActiveTargets(Server, x)') = 0
      BY <3>1, FS_EmptySet
    <3>3. \A a \in Addr : worker'[Server][x][a] # "none" => Rows(s) # {}
      BY <1>1, <2>1
    <3>4. QED
      BY <1>1, <2>1, <3>2, <3>3, ServiceAssumption
  <2>2. CASE x # s
    <3>1. ActiveTargets(Server, x)' = ActiveTargets(Server, x)
      BY <1>1, <2>2 DEF ActiveTargets
    <3>2. QED
      BY <1>1, <2>2, <3>1 DEF BoundInv
  <2>3. QED
    BY <2>1, <2>2
<1>6. DownInv'
  BY <1>1 DEF BoundInv, DownInv
<1>7. QED
  BY <1>4, <1>5, <1>6 DEF BoundInv

\* A target takes a slot of its scan.
LEMMA StartBound ==
    ASSUME TypeOK, BoundInv, NEW s \in Scan, NEW a \in Addr, StartTarget(Server, s, a)
    PROVE  BoundInv'
<1>1. /\ worker[Server][s][a] = "waiting" /\ UNCHANGED <<up, task, req>>
      /\ \A x \in Scan, b \in Addr : x # s \/ b # a => worker'[Server][x][b] = worker[Server][x][b]
      /\ worker'[Server][s][a] \in {"active", "ended"}
  BY ServiceAssumption DEF StartTarget, TypeOK, Workers
<1>2. task[Server][s] = "round"
  BY <1>1 DEF BoundInv
<1>3. RunningScans' = RunningScans
  BY <1>1 DEF RunningScans
<1>4. ASSUME NEW x \in Scan PROVE Cardinality(ActiveTargets(Server, x)') <= MaxParallelTargets
  <2>1. CASE x # s \/ worker'[Server][s][a] = "ended"
    <3>1. ActiveTargets(Server, x)' = ActiveTargets(Server, x)
      BY <1>1, <2>1 DEF ActiveTargets
    <3>2. QED
      BY <3>1 DEF BoundInv
  <2>2. CASE x = s /\ worker'[Server][s][a] = "active"
    <3>1. ActiveTargets(Server, x)' = ActiveTargets(Server, x) \cup {a} /\ a \notin ActiveTargets(Server, x)
      BY <1>1, <2>2 DEF ActiveTargets
    <3>2. Cardinality(ActiveTargets(Server, x)') = Cardinality(ActiveTargets(Server, x)) + 1
      BY <3>1, SetsOfWork, FS_AddElement
    <3>3. QED
      BY <2>2, <3>2, SetsOfWork, ServiceAssumption DEF StartTarget
  <2>3. QED
    BY <1>1, <2>1, <2>2
<1>5. ASSUME NEW x \in Scan, NEW b \in Addr, worker'[Server][x][b] \in {"waiting", "active"}
      PROVE  task'[Server][x] = "round"
  <2>1. CASE x = s
    BY <1>1, <1>2, <2>1
  <2>2. CASE x # s
    BY <1>1, <1>5, <2>2 DEF BoundInv
  <2>3. QED
    BY <2>1, <2>2
<1>6. DownInv'
  BY <1>1 DEF BoundInv, DownInv
<1>7. QED
  BY <1>3, <1>4, <1>5, <1>6 DEF BoundInv

\* A round lists companions, when nothing of the one before waits or works.
LEMMA ExpandBound ==
    ASSUME TypeOK, BoundInv, NEW s \in Scan, ExpandScan(Server, s)
    PROVE  BoundInv'
<1>1. /\ task[Server][s] = "expand" /\ UNCHANGED <<up, req>>
      /\ \A a \in Addr : worker[Server][s][a] \notin {"waiting", "active"}
  BY DEF ExpandScan, BoundInv
<1>2. DownInv'
  BY <1>1 DEF ExpandScan, BoundInv, DownInv
<1>3. CASE task' = [task EXCEPT ![Server][s] = "finalize"] /\ worker' = worker
  <2>1. /\ task'[Server][s] = "finalize"
        /\ \A x \in Scan : x # s => task'[Server][x] = task[Server][x]
    BY <1>3, ServiceAssumption DEF TypeOK, Tasks
  <2>2. QED
    BY <1>1, <1>2, <1>3, <2>1, LessWork DEF BoundInv, Started
<1>4. CASE \E New \in SUBSET (Addr \ Rows(s)) \ {{}} : ExpandScan(Server, s)!2!2!(New)
  <2> PICK New \in SUBSET (Addr \ Rows(s)) \ {{}} : ExpandScan(Server, s)!2!2!(New)
    BY <1>4
  <2>1. /\ task'[Server][s] = "round"
        /\ \A x \in Scan : x # s =>
             task'[Server][x] = task[Server][x] /\ worker'[Server][x] = worker[Server][x]
        /\ worker'[Server][s] = [a \in Addr |-> IF a \in New THEN "waiting" ELSE worker[Server][s][a]]
    BY ServiceAssumption DEF TypeOK, Tasks, Workers
  <2>2. \A a \in Addr : worker'[Server][s][a] # "active"
    BY <1>1, <2>1
  <2>3. QED
    BY <1>1, <1>2, <2>1, <2>2, LessWork DEF BoundInv, Started
<1>5. QED
  BY <1>3, <1>4 DEF ExpandScan

LEMMA BoundInit == Init => BoundInv
<1> SUFFICES ASSUME Init PROVE BoundInv
  OBVIOUS
<1>1. \A s \in Scan : /\ task[Server][s] = "none" /\ Server \in up
                      /\ \A a \in Addr : worker[Server][s][a] = "none"
  BY ServiceAssumption DEF Init, NoWorkers
<1>2. RunningScans = {} /\ \A s \in Scan : ActiveTargets(Server, s) = {}
  BY <1>1 DEF RunningScans, ActiveTargets, Started
<1>3. Cardinality(RunningScans) = 0 /\ \A s \in Scan : Cardinality(ActiveTargets(Server, s)) = 0
  BY <1>2, FS_EmptySet
<1>4. DownInv
  BY DEF Init, DownInv
<1>5. QED
  BY <1>1, <1>3, <1>4, ServiceAssumption DEF BoundInv

LEMMA BoundNext ==
    MaxFaults = 0 /\ TypeOK /\ BoundInv /\ [Next]_vars => BoundInv'
<1> SUFFICES ASSUME MaxFaults = 0, TypeOK, BoundInv, [Next]_vars PROVE BoundInv'
  OBVIOUS
<1> USE DEF rows, memory, bounds
<1>1. CASE UNCHANGED <<up, task, worker>> /\ (UNCHANGED req \/ Server \in up)
  BY <1>1, OtherProcess
<1>2. ASSUME NEW r \in Request, req[r] # Idle PROVE Server \in up
  BY <1>2 DEF BoundInv, DownInv
<1>3. CASE User
  <2>1. ASSUME NEW r \in Request, NEW s \in Scan, NEW T \in SUBSET Addr, CreateScan(r, s, T)
        PROVE  BoundInv'
    BY <1>1, <2>1 DEF CreateScan
  <2>2. ASSUME NEW r \in Request, NEW s \in Scan, NEW old \in Scan, RescanScan(r, old, s)
        PROVE  BoundInv'
    BY <1>1, <2>2 DEF RescanScan
  <2>3. ASSUME NEW r \in Request, NEW s \in Scan, CancelRead(r, s) PROVE BoundInv'
    BY <1>1, <2>3 DEF CancelRead
  <2>4. ASSUME NEW p \in Proc, NEW s \in Scan, NEW n \in 1..Cardinality(Addr), CliCreate(p, s, n)
        PROVE  BoundInv'
    <3>1. /\ p # Server /\ up' = up \cup {p} /\ task'[Server] = task[Server]
          /\ UNCHANGED <<worker, req>>
      BY <2>4, ServiceAssumption DEF CliCreate, TypeOK, Tasks
    <3>2. QED
      BY <3>1, OtherProcess
  <2>5. QED
    BY <1>3, <2>1, <2>2, <2>3, <2>4 DEF User
<1>4. ASSUME NEW p \in Proc, Crash(p) PROVE BoundInv'
  <2>1. CASE p = Server
    <3>1. /\ \A s \in Scan : task'[Server][s] = "none"
          /\ \A s \in Scan, a \in Addr : worker'[Server][s][a] = "none"
          /\ \A r \in Request : req'[r] = Idle
      BY <1>4, <2>1, ServiceAssumption DEF Crash, EndProcess, NoWorkers, TypeOK, Tasks, Workers
    <3>2. DownInv'
      BY <3>1 DEF DownInv
    <3>3. QED
      BY <3>1, <3>2, LessWork DEF Started
  <2>2. CASE p # Server
    <3>1. /\ up' = up \ {p} /\ task'[Server] = task[Server] /\ worker'[Server] = worker[Server]
          /\ UNCHANGED req
      BY <1>4, <2>2, ServiceAssumption DEF Crash, EndProcess, TypeOK, Tasks, Workers
    <3>2. QED
      BY <2>2, <3>1, OtherProcess
  <2>3. QED
    BY <2>1, <2>2
<1>5. CASE Fault
  <2>1. ~(faults < MaxFaults)
    BY DEF TypeOK
  <2>2. QED
    BY <1>4, <1>5, <2>1 DEF Fault, CrashPipeline, CrashTarget
<1>6. ASSUME NEW r \in Request, StartScan(r) PROVE BoundInv'
  <2>1. req[r].scan \in Scan /\ Server \in up
    BY <1>2, <1>6 DEF StartScan, TypeOK, Requests, Idle
  <2>2. CASE UNCHANGED task
    BY <1>1, <1>6, <2>1, <2>2 DEF StartScan
  <2>3. CASE ~Live(Server, req[r].scan) /\ task' = [task EXCEPT ![Server][req[r].scan] = "posted"]
    <3>1. /\ UNCHANGED <<up, worker>> /\ task[Server][req[r].scan] \notin Started
          /\ task'[Server][req[r].scan] = "posted"
          /\ \A x \in Scan : x # req[r].scan => task'[Server][x] = task[Server][x]
      BY <1>6, <2>1, <2>3, ServiceAssumption DEF StartScan, Live, TypeOK, Tasks
    <3>2. DownInv'
      BY <2>1, <3>1 DEF DownInv
    <3>3. QED
      BY <3>1, <3>2, LessWork DEF BoundInv, Started
  <2>4. QED
    BY <1>6, <2>2, <2>3 DEF StartScan
<1>7. CASE \E r \in Request : Endpoint(r)
  <2>1. ASSUME NEW r \in Request, CommitTargets(r) \/ CancelFlag(r) \/ CancelWrite(r) PROVE BoundInv'
    <3>1. req[r] # Idle
      BY <2>1 DEF CommitTargets, CancelFlag, CancelWrite, Idle
    <3>2. UNCHANGED <<up, task, worker>>
      BY <2>1 DEF CommitTargets, CancelFlag, CancelWrite
    <3>3. QED
      BY <1>1, <1>2, <3>1, <3>2
  <2>2. QED
    BY <1>6, <1>7, <2>1 DEF Endpoint
<1>8. ASSUME NEW s \in Scan, SpawnTask(s) PROVE BoundInv'
  <2>1. /\ UNCHANGED <<up, worker, req>> /\ task[Server][s] = "posted" /\ task'[Server][s] = "waiting"
        /\ \A x \in Scan : x # s => task'[Server][x] = task[Server][x]
    BY <1>8, ServiceAssumption DEF SpawnTask, TypeOK, Tasks
  <2>2. DownInv'
    BY <2>1 DEF BoundInv, DownInv
  <2>3. QED
    BY <2>1, <2>2, LessWork DEF BoundInv, Started
<1>9. ASSUME NEW s \in Scan, NEW a \in Addr, FinishTarget(Server, s, a) \/ FailTarget(Server, s, a)
      PROVE  BoundInv'
  <2>1. /\ UNCHANGED <<up, task, req>> /\ worker'[Server][s][a] = "ended"
        /\ \A x \in Scan, b \in Addr : x # s \/ b # a => worker'[Server][x][b] = worker[Server][x][b]
    BY <1>9, ServiceAssumption DEF FinishTarget, FailTarget, TypeOK, Workers
  <2>2. DownInv'
    BY <2>1 DEF BoundInv, DownInv
  <2>3. QED
    BY <2>1, <2>2, LessWork DEF BoundInv
<1>10. ASSUME NEW s \in Scan, EndRound(Server, s) \/ FinalizeScan(Server, s) PROVE BoundInv'
  <2>1. /\ UNCHANGED <<up, worker, req>> /\ task[Server][s] \in Started
        /\ task'[Server][s] \in {"finalize", "expand", "ended"}
        /\ \A a \in Addr : worker[Server][s][a] \notin {"waiting", "active"}
        /\ \A x \in Scan : x # s => task'[Server][x] = task[Server][x]
    BY <1>10, ServiceAssumption DEF EndRound, FinalizeScan, BoundInv, TypeOK, Tasks, Started
  <2>2. DownInv'
    BY <2>1 DEF BoundInv, DownInv, Started
  <2>3. QED
    BY <2>1, <2>2, LessWork DEF BoundInv
<1>11. ASSUME NEW s \in Scan, Pipeline(Server, s) PROVE BoundInv'
  BY <1>9, <1>10, <1>11, BeginBound, StartBound, ExpandBound DEF Pipeline
<1>12. ASSUME NEW p \in Proc, NEW s \in Scan, p # Server,
              Pipeline(p, s) \/ \E T \in SUBSET Addr : CliCommitTargets(p, s, T)
       PROVE  BoundInv'
  <2>1. /\ task'[Server] = task[Server] /\ worker'[Server] = worker[Server]
        /\ Server \in up' <=> Server \in up
        /\ UNCHANGED req
    BY <1>12, ServiceAssumption DEF Pipeline, BeginPipeline, StartTarget, FinishTarget, FailTarget,
       EndRound, ExpandScan, FinalizeScan, EndProcess, CliCommitTargets, TypeOK, Tasks, Workers
  <2>2. QED
    BY <2>1, OtherProcess
<1>13. ASSUME NEW s \in Scan, NEW T \in SUBSET Addr, CliCommitTargets(Server, s, T) PROVE BoundInv'
  <2>1. /\ UNCHANGED <<up, worker, req>> /\ task[Server][s] = "created" /\ task'[Server][s] = "waiting"
        /\ \A x \in Scan : x # s => task'[Server][x] = task[Server][x]
    BY <1>13, ServiceAssumption DEF CliCommitTargets, TypeOK, Tasks
  <2>2. DownInv'
    BY <2>1 DEF BoundInv, DownInv
  <2>3. QED
    BY <2>1, <2>2, LessWork DEF BoundInv, Started
<1>14. CASE Restart
  <2>1. /\ \A x \in Scan : task[Server][x] = "none" /\ task'[Server][x] \in {"none", "waiting"}
        /\ Server \in up' /\ UNCHANGED worker
    BY <1>14, ServiceAssumption DEF Restart, BoundInv, DownInv, TypeOK, Tasks
  <2>2. DownInv'
    BY <2>1 DEF DownInv
  <2>3. QED
    BY <2>1, <2>2, LessWork DEF BoundInv, Started
<1>15. CASE UNCHANGED vars
  BY <1>1, <1>15 DEF vars
<1>16. QED
  BY <1>3, <1>5, <1>7, <1>8, <1>11, <1>12, <1>13, <1>14, <1>15 DEF Next

\* When no exception escapes a handler, the server works on no more targets at
\* a time than its two limits allow, with any number of command-line runs.
THEOREM BoundCorrect ==
    ASSUME MaxFaults = 0
    PROVE  Spec => []WorkIsBounded
<1>1. BoundInv => WorkIsBounded
  <2> SUFFICES ASSUME BoundInv PROVE WorkIsBounded
    OBVIOUS
  <2> DEFINE W == {sa \in Scan \X Addr : worker[Server][sa[1]][sa[2]] = "active"}
  <2>1. \A w \in W : w[1] \in RunningScans
    BY DEF BoundInv, RunningScans, Started
  <2>2. ASSUME NEW s \in Scan
        PROVE  Cardinality({a \in Addr : <<s, a>> \in W}) <= MaxParallelTargets
    <3>1. {a \in Addr : <<s, a>> \in W} = ActiveTargets(Server, s)
      BY DEF ActiveTargets
    <3>2. QED
      BY <3>1 DEF BoundInv
  <2>3. W \in SUBSET (Scan \X Addr)
    OBVIOUS
  <2> HIDE DEF W
  <2>4. /\ RunningScans \in SUBSET Scan /\ Cardinality(RunningScans) <= MaxParallelScans
        /\ IsFiniteSet(Scan) /\ IsFiniteSet(Addr)
        /\ MaxParallelScans \in Nat /\ MaxParallelTargets \in Nat \ {0}
    BY SetsOfWork, ServiceAssumption DEF BoundInv
  <2>5. Cardinality(W) <= MaxParallelScans * MaxParallelTargets
    BY <2>1, <2>2, <2>3, <2>4, PairsBound
  <2>6. QED
    BY <2>5 DEF WorkIsBounded, W
<1>2. Init => BoundInv
  BY BoundInit
<1>3. TypeOK /\ BoundInv /\ [Next]_vars => BoundInv'
  BY BoundNext
<1>4. Spec => []TypeOK
  BY TypeCorrect
<1>5. QED
  BY <1>1, <1>2, <1>3, <1>4, PTL DEF Spec

----------------------------------------------------------------------------
(* Who runs a scan, as long as no process dies: whoever created it.        *)

OneInv ==
    /\ Server \in up
    /\ \A s \in Scan :
         status[s] = "none" =>
            (\A p \in Proc : ~Live(p, s)) /\ \A r \in Request : ~Creating(r, s)
    /\ \A r \in Request, s \in Scan : Creating(r, s) =>
         (\A p \in Proc : ~Live(p, s)) /\ \A q \in Request : Creating(q, s) => q = r
    /\ OnePipelinePerScan

\* A step that gives no scan a task and begins no creation.
LEMMA NoNewTask ==
    ASSUME OneInv, Server \in up', \A s \in Scan : status[s] # "none" => status'[s] # "none",
           \A p \in Proc, s \in Scan : Live(p, s)' => Live(p, s),
           \A r \in Request, s \in Scan : Creating(r, s)' => Creating(r, s)
    PROVE  OneInv'
<1>1. OnePipelinePerScan'
  BY DEF OneInv, OnePipelinePerScan
<1>2. QED
  BY <1>1 DEF OneInv

\* The row of a scan is committed, by an endpoint or a command-line run.
LEMMA NewScan ==
    ASSUME TypeOK, OneInv, Server \in up', NEW s \in Scan, NEW n, InsertScan(s, n),
           \/ /\ UNCHANGED task
              /\ \E r \in Request : \A q \in Request, x \in Scan :
                   Creating(q, x)' => Creating(q, x) \/ (q = r /\ x = s)
           \/ /\ \E p \in Proc : \A o \in Proc, x \in Scan :
                   Live(o, x)' => Live(o, x) \/ (o = p /\ x = s)
              /\ UNCHANGED req
    PROVE  OneInv'
<1>1. /\ \A p \in Proc : ~Live(p, s)
      /\ \A r \in Request : ~Creating(r, s)
      /\ status'[s] # "none" /\ \A x \in Scan : x # s => status'[x] = status[x]
  BY DEF OneInv, InsertScan, TypeOK
<1>2. CASE /\ UNCHANGED task
           /\ \E r \in Request : \A q \in Request, x \in Scan :
                Creating(q, x)' => Creating(q, x) \/ (q = r /\ x = s)
  <2>1. \A p \in Proc, x \in Scan : Live(p, x)' <=> Live(p, x)
    BY <1>2 DEF Live
  <2>2. OnePipelinePerScan'
    BY <2>1 DEF OneInv, OnePipelinePerScan
  <2>3. QED
    BY <1>1, <1>2, <2>1, <2>2 DEF OneInv
<1>3. CASE /\ \E p \in Proc : \A o \in Proc, x \in Scan :
                Live(o, x)' => Live(o, x) \/ (o = p /\ x = s)
           /\ UNCHANGED req
  <2>1. \A r \in Request, x \in Scan : Creating(r, x)' <=> Creating(r, x)
    BY <1>3 DEF Creating
  <2>2. OnePipelinePerScan'
    BY <1>1, <1>3 DEF OneInv, OnePipelinePerScan
  <2>3. QED
    BY <1>1, <1>3, <2>1, <2>2 DEF OneInv
<1>4. QED
  BY <1>2, <1>3

\* The scan of a creating call gets its task.
LEMMA StartOne ==
    ASSUME TypeOK, OneInv, NEW r \in Request, StartScan(r)
    PROVE  OneInv'
<1> USE DEF rows
<1>0. req[r] \in [op : {"start", "write"}, scan : Scan]
  BY DEF StartScan, TypeOK, Requests, Idle
<1> PICK s \in Scan : req[r].scan = s
  BY <1>0
<1>1. Creating(r, s)
  BY DEF StartScan, Creating
<1>2. (\A p \in Proc : ~Live(p, s)) /\ \A q \in Request : Creating(q, s) => q = r
  BY <1>1 DEF OneInv
<1>3. /\ task' = [task EXCEPT ![Server][s] = "posted"] /\ req' = [req EXCEPT ![r] = Idle]
      /\ UNCHANGED <<status, up>>
  BY <1>2, ServiceAssumption DEF StartScan
<1>4. \A p \in Proc, x \in Scan : p # Server \/ x # s => (Live(p, x)' <=> Live(p, x))
  BY <1>3, ServiceAssumption DEF Live, TypeOK, Tasks
<1>5. \A q \in Request, x \in Scan : Creating(q, x)' => Creating(q, x) /\ x # s
  BY <1>1, <1>2, <1>3 DEF Creating, Idle, TypeOK
<1>6. OnePipelinePerScan'
  BY <1>2, <1>4 DEF OneInv, OnePipelinePerScan
<1>7. status[s] # "none"
  BY <1>1 DEF OneInv
<1>8. QED
  BY <1>2, <1>3, <1>4, <1>5, <1>6, <1>7 DEF OneInv

LEMMA OneNext == MaxCrashes = 0 /\ TypeOK /\ OneInv /\ [Next]_vars => OneInv'
<1> SUFFICES ASSUME MaxCrashes = 0, TypeOK, OneInv, [Next]_vars PROVE OneInv'
  OBVIOUS
<1> USE DEF rows, memory, bounds
<1>1. Server \in up /\ Server \in Proc
  BY ServiceAssumption DEF OneInv
<1>2. ASSUME NEW r \in Request, NEW s \in Scan, NEW n, NEW v, InsertScan(s, n), v.scan = s,
             req' = [req EXCEPT ![r] = v], UNCHANGED <<up, task>>
      PROVE  OneInv'
  <2>1. \A q \in Request, x \in Scan : Creating(q, x)' => Creating(q, x) \/ (q = r /\ x = s)
    BY <1>2 DEF Creating, TypeOK
  <2>2. QED
    BY <1>1, <1>2, <2>1, NewScan
<1>3. ASSUME NEW r \in Request, NEW s \in Scan, NEW T \in SUBSET Addr, CreateScan(r, s, T) PROVE OneInv'
  <2> DEFINE v == [op |-> "insert", scan |-> s, targets |-> T, auto |-> {}]
  <2>1. v.scan = s /\ req' = [req EXCEPT ![r] = v] /\ InsertScan(s, Cardinality(T)) /\ UNCHANGED <<up, task>>
    BY <1>3 DEF CreateScan
  <2> HIDE DEF v
  <2>2. QED
    BY <1>2, <2>1
<1>4. ASSUME NEW r \in Request, NEW s \in Scan, NEW old \in Scan, RescanScan(r, old, s) PROVE OneInv'
  <2> DEFINE v == [op |-> "insert", scan |-> s, targets |-> Rows(old), auto |-> auto[old]]
  <2>1. /\ v.scan = s /\ req' = [req EXCEPT ![r] = v] /\ InsertScan(s, Cardinality(Rows(old)))
        /\ UNCHANGED <<up, task>>
    BY <1>4 DEF RescanScan
  <2> HIDE DEF v
  <2>2. QED
    BY <1>2, <2>1
<1>5. ASSUME NEW p \in Proc, NEW s \in Scan, NEW n, CliCreate(p, s, n) PROVE OneInv'
  <2>1. \A o \in Proc, x \in Scan : Live(o, x)' => Live(o, x) \/ (o = p /\ x = s)
    BY <1>5 DEF CliCreate, Live, TypeOK, Tasks
  <2>2. /\ InsertScan(s, n) /\ UNCHANGED req /\ Server \in up'
    BY <1>1, <1>5 DEF CliCreate
  <2>3. QED
    BY <2>1, <2>2, NewScan
<1>6. ASSUME UNCHANGED req, \A s \in Scan : status[s] # "none" => status'[s] # "none",
             Server \in up', \A p \in Proc, s \in Scan : Live(p, s)' => Live(p, s)
      PROVE  OneInv'
  BY <1>6, NoNewTask DEF Creating
<1>7. ASSUME NEW r \in Request, NEW v, req' = [req EXCEPT ![r] = v],
             v.op \in {"insert", "start"} => req[r].op \in {"insert", "start"} /\ v.scan = req[r].scan,
             \A s \in Scan : status[s] # "none" => status'[s] # "none", UNCHANGED <<up, task>>
      PROVE  OneInv'
  <2>1. \A q \in Request, x \in Scan : Creating(q, x)' => Creating(q, x)
    BY <1>7 DEF Creating, TypeOK
  <2>2. QED
    BY <1>1, <1>7, <2>1, NoNewTask DEF Live
<1>8. CASE User
  <2>1. ASSUME NEW r \in Request, NEW s \in Scan, CancelRead(r, s) PROVE OneInv'
    <3> DEFINE v == [op |-> "flag", scan |-> s, seen |-> status[s]]
    <3>1. /\ v.op = "flag" /\ req' = [req EXCEPT ![r] = v] /\ UNCHANGED <<status, up, task>>
      BY <2>1 DEF CancelRead
    <3> HIDE DEF v
    <3>2. QED
      BY <1>7, <3>1
  <2>2. QED
    BY <1>3, <1>4, <1>5, <1>8, <2>1 DEF User
<1>9. CASE \E r \in Request : Endpoint(r)
  <2>1. ASSUME NEW r \in Request, CommitTargets(r) PROVE OneInv'
    <3> DEFINE v == [op |-> "start", scan |-> req[r].scan]
    <3>1. /\ v.scan = req[r].scan /\ req[r].op = "insert"
          /\ req' = [req EXCEPT ![r] = v] /\ UNCHANGED <<status, up, task>>
      BY <2>1 DEF CommitTargets
    <3> HIDE DEF v
    <3>2. QED
      BY <1>7, <3>1
  <2>2. ASSUME NEW r \in Request, CancelFlag(r) PROVE OneInv'
    <3> DEFINE v == IF req[r].seen = "queued" THEN [op |-> "write", scan |-> req[r].scan] ELSE Idle
    <3>1. /\ v.op \in {"write", "idle"} /\ req' = [req EXCEPT ![r] = v] /\ UNCHANGED <<status, up, task>>
      BY <2>2 DEF CancelFlag, Idle
    <3> HIDE DEF v
    <3>2. QED
      BY <1>7, <3>1
  <2>3. ASSUME NEW r \in Request, CancelWrite(r) PROVE OneInv'
    <3>1. /\ Idle.op = "idle" /\ req' = [req EXCEPT ![r] = Idle] /\ UNCHANGED <<up, task>>
          /\ \A s \in Scan : status[s] # "none" => status'[s] # "none"
      BY <2>3 DEF CancelWrite, Idle, TypeOK
    <3>2. QED
      BY <1>7, <3>1
  <2>4. QED
    BY <1>9, <2>1, <2>2, <2>3, StartOne DEF Endpoint
<1>10. ASSUME NEW p \in Proc, EndProcess(p), p # Server, UNCHANGED req,
              \A s \in Scan : status[s] # "none" => status'[s] # "none"
       PROVE  OneInv'
  <2>1. \A o \in Proc, s \in Scan : Live(o, s)' => Live(o, s)
    BY <1>10 DEF EndProcess, Live, TypeOK, Tasks, Pending, Started
  <2>2. Server \in up'
    BY <1>1, <1>10 DEF EndProcess
  <2>3. QED
    BY <1>6, <1>10, <2>1, <2>2
<1>11. ASSUME NEW p \in Proc, NEW s \in Scan, NEW k \in TaskState,
              task' = [task EXCEPT ![p][s] = k], k = "ended" \/ Live(p, s), UNCHANGED <<up, req>>,
              \A x \in Scan : status[x] # "none" => status'[x] # "none"
       PROVE  OneInv'
  <2>1. \A o \in Proc, x \in Scan : Live(o, x)' => Live(o, x)
    BY <1>11 DEF Live, TypeOK, Tasks, Pending, Started
  <2>2. QED
    BY <1>1, <1>6, <1>11, <2>1
<1>12. CASE Fault
  <2>1. ASSUME NEW p \in Proc, NEW s \in Scan, NEW w, PipelineRaises(p, s, w) PROVE OneInv'
    <3>1. /\ \A x \in Scan : status[x] # "none" => status'[x] # "none"
          /\ UNCHANGED req
      BY <2>1 DEF PipelineRaises, TypeOK
    <3>2. CASE p = Server /\ task' = [task EXCEPT ![p][s] = "ended"] /\ UNCHANGED up
      BY <1>11, <3>1, <3>2, TaskStates
    <3>3. CASE p # Server /\ EndProcess(p)
      BY <1>10, <3>1, <3>3
    <3>4. QED
      BY <2>1, <3>2, <3>3 DEF PipelineRaises
  <2>2. ASSUME NEW p \in Proc, NEW s \in Scan, NEW a \in Addr, CrashTarget(p, s, a) PROVE OneInv'
    <3>1. CASE task[p][s] = "round"
      BY <2>1, <2>2, <3>1 DEF CrashTarget
    <3>2. CASE task[p][s] # "round"
      BY <1>1, <1>6, <2>2, <3>2 DEF CrashTarget, Live
    <3>3. QED
      BY <3>1, <3>2
  <2>3. ASSUME NEW p \in Proc, Crash(p) PROVE FALSE
    BY <2>3 DEF Crash, TypeOK
  <2>4. QED
    BY <1>12, <2>1, <2>2, <2>3 DEF Fault, CrashPipeline
<1>13. ASSUME NEW p \in Proc, NEW s \in Scan, Pipeline(p, s) PROVE OneInv'
  <2>1. ASSUME BeginPipeline(p, s) PROVE OneInv'
    <3>1. /\ Live(p, s) /\ UNCHANGED <<up, req>>
          /\ \A x \in Scan : status[x] # "none" => status'[x] # "none"
          /\ \E k \in {"finalize", "round"} : task' = [task EXCEPT ![p][s] = k]
      BY <2>1 DEF BeginPipeline, Live, Pending, TypeOK
    <3>2. QED
      BY <1>11, <3>1, TaskStates
  <2>2. ASSUME NEW a \in Addr, StartTarget(p, s, a) \/ FinishTarget(p, s, a) \/ FailTarget(p, s, a)
        PROVE  OneInv'
    <3>1. UNCHANGED <<status, up, task, req>>
      BY <2>2 DEF StartTarget, FinishTarget, FailTarget
    <3>2. QED
      BY <1>1, <1>6, <3>1 DEF Live
  <2>3. ASSUME EndRound(p, s) \/ ExpandScan(p, s) PROVE OneInv'
    <3>1. /\ Live(p, s) /\ UNCHANGED <<status, up, req>>
          /\ \E k \in {"finalize", "expand", "round"} : task' = [task EXCEPT ![p][s] = k]
      BY <2>3 DEF EndRound, ExpandScan, Live, Started
    <3>2. QED
      BY <1>11, <3>1, TaskStates
  <2>4. ASSUME FinalizeScan(p, s) PROVE OneInv'
    <3>1. UNCHANGED req /\ \A x \in Scan : status[x] # "none" => status'[x] # "none"
      BY <2>4 DEF FinalizeScan, TypeOK
    <3>2. CASE p = Server /\ task' = [task EXCEPT ![p][s] = "ended"] /\ UNCHANGED up
      BY <1>11, <3>1, <3>2, TaskStates
    <3>3. CASE p # Server /\ EndProcess(p)
      BY <1>10, <3>1, <3>3
    <3>4. QED
      BY <2>4, <3>2, <3>3 DEF FinalizeScan
  <2>5. QED
    BY <1>13, <2>1, <2>2, <2>3, <2>4 DEF Pipeline
<1>14. ASSUME NEW s \in Scan, SpawnTask(s) PROVE OneInv'
  <2>1. /\ Live(Server, s) /\ UNCHANGED <<status, up, req>>
        /\ task' = [task EXCEPT ![Server][s] = "waiting"]
    BY <1>14 DEF SpawnTask, Live, Pending
  <2>2. QED
    BY <1>1, <1>11, <2>1, TaskStates
<1>15. ASSUME NEW p \in Proc, NEW s \in Scan, NEW T \in SUBSET Addr, CliCommitTargets(p, s, T)
       PROVE  OneInv'
  <2>1. /\ Live(p, s) /\ UNCHANGED <<status, up, req>>
        /\ task' = [task EXCEPT ![p][s] = "waiting"]
    BY <1>15 DEF CliCommitTargets, Live, Pending
  <2>2. QED
    BY <1>11, <2>1, TaskStates
<1>16. CASE Restart
  BY <1>1, <1>16 DEF Restart
<1>17. CASE UNCHANGED vars
  BY <1>1, <1>6, <1>17 DEF vars, Live
<1>18. QED
  BY <1>8, <1>9, <1>12, <1>13, <1>14, <1>15, <1>16, <1>17 DEF Next

\* As long as no process dies, no two processes run a scan: the server runs
\* those of its endpoints, a command-line run its own.  A recovery breaks
\* this, since it starts whatever it finds QUEUED.
THEOREM OneCorrect ==
    ASSUME MaxCrashes = 0
    PROVE  Spec => []OnePipelinePerScan
<1>1. Init => OneInv
  <2> SUFFICES ASSUME Init PROVE OneInv
    OBVIOUS
  <2>1. /\ \A p \in Proc, s \in Scan : ~Live(p, s)
        /\ \A r \in Request, s \in Scan : ~Creating(r, s)
        /\ Server \in up
    BY DEF Init, Live, Creating, Idle, Pending, Started
  <2>2. QED
    BY <2>1 DEF OneInv, OnePipelinePerScan
<1>2. TypeOK /\ OneInv /\ [Next]_vars => OneInv'
  BY OneNext
<1>3. OneInv => OnePipelinePerScan
  BY DEF OneInv
<1>4. Spec => []TypeOK
  BY TypeCorrect
<1>5. QED
  BY <1>1, <1>2, <1>3, <1>4, PTL DEF Spec

----------------------------------------------------------------------------
(* The counts of a scan, for any number of processes.                      *)

\* A step that lists no scan: it creates none, and adds targets to none.
Keeps(s) ==
    /\ status[s] # "none" => status'[s] # "none"
    /\ total'[s] = total[s] /\ auto'[s] = auto[s] /\ Rows(s)' = Rows(s)
    /\ completed'[s] \in {completed[s], CountDone(target'[s])}
    /\ \A p \in Proc :
         /\ \/ task'[p][s] = task[p][s]
            \/ task'[p][s] \in {"none", "ended", "posted", "waiting", "finalize"}
            \/ task'[p][s] \in {"round", "expand"} /\ Rows(s) # {}
         /\ \A a \in Addr :
              worker'[p][s][a] # "none" => worker[p][s][a] # "none" \/ a \in Rows(s)
    /\ \A r \in Request : Inserting(r, s)' => Inserting(r, s) /\ req'[r] = req[r]

LEMMA CountsKept ==
    ASSUME NEW s \in Scan, CountsOf(s), Keeps(s)
    PROVE  CountsOf(s)'
<1>1. completed'[s] <= Cardinality(Rows(s)')
  <2>1. CASE completed'[s] = completed[s]
    BY <2>1 DEF CountsOf, CountInv, Keeps
  <2>2. CASE completed'[s] = CountDone(target'[s])
    BY <2>2, CountDoneBound DEF Rows
  <2>3. QED
    BY <2>1, <2>2 DEF Keeps
<1>2. CountInv(s)'
  BY <1>1 DEF CountsOf, CountInv, Keeps
<1>3. status'[s] = "none" => Rows(s)' = {}
  BY DEF CountsOf, Keeps
<1>4. ASSUME NEW p \in Proc
      PROVE  /\ task'[p][s] \in {"round", "expand"} => Rows(s)' # {}
             /\ \A a \in Addr : worker'[p][s][a] # "none" => a \in Rows(s)'
             /\ task'[p][s] = "created" => task[p][s] = "created"
  BY DEF CountsOf, Keeps
<1>5. ASSUME NEW p \in Proc, task'[p][s] = "created"
      PROVE  /\ status'[s] # "none" /\ Rows(s)' = {}
             /\ \A q \in Proc : task'[q][s] = "created" => q = p
  BY <1>4, <1>5 DEF CountsOf, Keeps
<1>6. ASSUME NEW r \in Request, Inserting(r, s)'
      PROVE  /\ status'[s] # "none" /\ Rows(s)' = {}
             /\ total'[s] = Cardinality(req'[r].targets)
             /\ Cardinality(req'[r].auto) <= CompanionCap
             /\ \A q \in Request : Inserting(q, s)' => q = r
             /\ \A p \in Proc : task'[p][s] # "created"
  BY <1>4, <1>6 DEF CountsOf, Keeps
<1>7. QED
  BY <1>2, <1>3, <1>4, <1>5, <1>6 DEF CountsOf

\* A scan that a creation has not listed yet has no coroutine and no count.
LEMMA NotListed ==
    ASSUME NEW s \in Scan, CountsOf(s), Rows(s) = {}, TypeOK
    PROVE  /\ completed[s] = 0
           /\ \A p \in Proc : /\ task[p][s] \notin {"round", "expand"}
                              /\ \A a \in Addr : worker[p][s][a] = "none"
<1>1. completed[s] \in Nat /\ completed[s] <= 0
  BY FS_EmptySet DEF CountsOf, CountInv, TypeOK
<1>2. QED
  BY <1>1 DEF CountsOf

\* The row of a scan is committed: by a call, or by a command-line run.
LEMMA CountsInsert ==
    ASSUME TypeOK, CountsInv, NEW s \in Scan, NEW n \in Nat, InsertScan(s, n),
           UNCHANGED <<completed, target, auto, worker>>,
           \/ /\ UNCHANGED task
              /\ \E r \in Request :
                   /\ Inserting(r, s)' => /\ n = Cardinality(req'[r].targets)
                                          /\ Cardinality(req'[r].auto) <= CompanionCap
                   /\ \A x \in Scan \ {s} : ~Inserting(r, x)'
                   /\ \A q \in Request \ {r} : req'[q] = req[q]
           \/ /\ UNCHANGED req
              /\ \E p \in Proc : /\ \A q \in Proc, x \in Scan :
                                      q # p \/ x # s => task'[q][x] = task[q][x]
                                 /\ task'[p][s] = "created"
    PROVE  CountsInv'
<1> USE DEF Inserting
<1>1. /\ status[s] = "none" /\ status'[s] # "none" /\ total'[s] = n
      /\ \A x \in Scan \ {s} : status'[x] = status[x] /\ total'[x] = total[x]
      /\ \A x \in Scan : Rows(x)' = Rows(x)
  BY DEF InsertScan, TypeOK, Rows
<1>2. CountsOf(s) /\ Rows(s) = {}
  BY <1>1 DEF CountsInv, CountsOf
<1>3. /\ \A p \in Proc : task[p][s] # "created"
      /\ \A r \in Request : ~Inserting(r, s)
  BY <1>1, <1>2 DEF CountsOf
<1>4. ASSUME NEW x \in Scan, x # s PROVE CountsOf(x)'
  <2>1. Keeps(x)
    BY <1>1, <1>4 DEF Keeps
  <2>2. QED
    BY <2>1, CountsKept DEF CountsInv
<1>5. CountInv(s)'
  BY <1>1, <1>2 DEF CountsOf, CountInv
<1>6. \A p \in Proc : /\ task'[p][s] \notin {"round", "expand"}
                      /\ \A a \in Addr : worker'[p][s][a] = "none"
  BY <1>2, NotListed
<1>7. ASSUME NEW r \in Request, Inserting(r, s)'
      PROVE  /\ total'[s] = Cardinality(req'[r].targets)
             /\ Cardinality(req'[r].auto) <= CompanionCap
             /\ \A q \in Request : Inserting(q, s)' => q = r
             /\ \A p \in Proc : task'[p][s] # "created"
  BY <1>1, <1>3, <1>7
<1>8. ASSUME NEW p \in Proc, task'[p][s] = "created"
      PROVE  \A q \in Proc : task'[q][s] = "created" => q = p
  BY <1>3, <1>8
<1>9. CountsOf(s)'
  BY <1>1, <1>2, <1>5, <1>6, <1>7, <1>8 DEF CountsOf
<1>10. QED
  BY <1>4, <1>9 DEF CountsInv

\* The target rows of a scan are committed.
LEMMA CountsList ==
    ASSUME TypeOK, CountsInv, NEW s \in Scan, NEW T \in SUBSET Addr, NEW C,
           InsertTargets(s, T, C), Cardinality(C) <= CompanionCap,
           Rows(s) = {}, total[s] = Cardinality(T), status[s] # "none",
           UNCHANGED <<status, total, completed, worker>>,
           \A r \in Request : ~Inserting(r, s)',
           \A r \in Request, x \in Scan \ {s} : Inserting(r, x)' =>
               Inserting(r, x) /\ req'[r] = req[r],
           \A p \in Proc : /\ task'[p][s] # "created"
                           /\ task'[p][s] \in {"round", "expand"} => task'[p][s] = task[p][s]
                           /\ \A x \in Scan \ {s} : task'[p][x] = task[p][x]
    PROVE  CountsInv'
<1>1. /\ target'[s] = [a \in Addr |-> IF a \in T THEN "queued" ELSE "none"] /\ auto'[s] = C
      /\ \A x \in Scan \ {s} : target'[x] = target[x] /\ auto'[x] = auto[x]
  BY DEF InsertTargets, TypeOK, Targets
<1>2. Rows(s)' = T /\ \A x \in Scan \ {s} : Rows(x)' = Rows(x)
  BY <1>1 DEF Rows
<1>3. CountsOf(s)
  BY DEF CountsInv
<1>4. ASSUME NEW x \in Scan, x # s PROVE CountsOf(x)'
  <2>1. Keeps(x)
    BY <1>1, <1>2, <1>4 DEF Keeps
  <2>2. QED
    BY <2>1, CountsKept DEF CountsInv
<1>5. /\ completed[s] = 0
      /\ \A p \in Proc : /\ task[p][s] \notin {"round", "expand"}
                         /\ \A a \in Addr : worker[p][s][a] = "none"
  BY <1>3, NotListed
<1>6. Cardinality(T) \in Nat
  BY Cardinalities
<1>7. CountInv(s)'
  BY <1>1, <1>2, <1>5, <1>6 DEF CountInv
<1>8. CountsOf(s)'
  BY <1>5, <1>7 DEF CountsOf
<1>9. QED
  BY <1>4, <1>8 DEF CountsInv

\* A round adds companions.
LEMMA CountsExpand ==
    ASSUME TypeOK, CountsInv, NEW p \in Proc, NEW s \in Scan, ExpandScan(p, s),
           NEW New \in SUBSET (Addr \ Rows(s)) \ {{}}, ExpandScan(p, s)!2!2!(New)
    PROVE  CountsInv'
<1>1. /\ task[p][s] = "expand" /\ CountsOf(s)
      /\ UNCHANGED <<status, completed, up, cancelled, req, bounds>>
  BY DEF ExpandScan, CountsInv
<1>2. /\ target'[s] = [a \in Addr |-> IF a \in New THEN "queued" ELSE target[s][a]]
      /\ auto'[s] = auto[s] \cup New /\ total'[s] = Cardinality(Rows(s) \cup New)
      /\ \A x \in Scan \ {s} : /\ target'[x] = target[x] /\ auto'[x] = auto[x]
                               /\ total'[x] = total[x]
  BY DEF TypeOK, Targets
<1>3. /\ \A q \in Proc, x \in Scan : q # p \/ x # s =>
            task'[q][x] = task[q][x] /\ worker'[q][x] = worker[q][x]
      /\ task'[p][s] = "round"
      /\ worker'[p][s] = [a \in Addr |-> IF a \in New THEN "waiting" ELSE worker[p][s][a]]
  BY DEF TypeOK, Tasks, Workers
<1>4. Rows(s)' = Rows(s) \cup New /\ \A x \in Scan \ {s} : Rows(x)' = Rows(x)
  BY <1>2 DEF Rows
<1>5. ASSUME NEW x \in Scan, x # s PROVE CountsOf(x)'
  <2>1. Keeps(x)
    BY <1>1, <1>2, <1>3, <1>4, <1>5 DEF Keeps, Inserting
  <2>2. QED
    BY <2>1, CountsKept DEF CountsInv
<1>6. CountInv(s)'
  <2>1. Cardinality(Rows(s)) <= Cardinality(Rows(s)') /\ completed[s] <= Cardinality(Rows(s))
    <3>1. Rows(s) \subseteq Rows(s)' /\ IsFiniteSet(Rows(s)')
      BY <1>4, Cardinalities DEF Rows
    <3>2. QED
      BY <1>1, <3>1, FS_Subset DEF CountsOf, CountInv
  <2>2. Cardinality(auto[s] \cup New) <= CompanionCap
    BY DEF CompanionRoom
  <2>3. /\ completed[s] \in Nat /\ Cardinality(Rows(s)) \in Nat
        /\ Cardinality(Rows(s)') \in Nat
    BY <1>4, Cardinalities DEF TypeOK, Rows
  <2>4. completed'[s] <= Cardinality(Rows(s)')
    BY <1>1, <2>1, <2>3
  <2>5. QED
    BY <1>2, <1>4, <2>2, <2>4 DEF CountInv
<1>7. Rows(s) # {} /\ Rows(s)' # {} /\ status'[s] # "none"
  BY <1>1, <1>4 DEF CountsOf
<1>8. ASSUME NEW q \in Proc, NEW a \in Addr, worker'[q][s][a] # "none" PROVE a \in Rows(s)'
  BY <1>1, <1>3, <1>4, <1>8 DEF CountsOf
<1>9. /\ \A q \in Proc : task'[q][s] # "created"
      /\ \A r \in Request : ~Inserting(r, s)'
  BY <1>1, <1>3, <1>7 DEF CountsOf, Inserting
<1>10. CountsOf(s)'
  BY <1>6, <1>7, <1>8, <1>9 DEF CountsOf
<1>11. QED
  BY <1>5, <1>10 DEF CountsInv

LEMMA CountsNext == TypeOK /\ CountsInv /\ [Next]_vars => CountsInv'
<1> SUFFICES ASSUME TypeOK, CountsInv, [Next]_vars PROVE CountsInv'
  OBVIOUS
<1> USE DEF rows, memory, bounds
<1>a. (\A s \in Scan : Keeps(s)) => CountsInv'
  BY CountsKept DEF CountsInv
<1>b. UNCHANGED req => \A r \in Request, s \in Scan : Inserting(r, s)' => Inserting(r, s)
  BY DEF Inserting
<1>c. ASSUME NEW r \in Request, NEW v, req' = [req EXCEPT ![r] = v], v.op # "insert"
      PROVE  \A q \in Request, s \in Scan :
                Inserting(q, s)' => Inserting(q, s) /\ req'[q] = req[q]
  BY <1>c DEF Inserting, TypeOK
<1>1. ASSUME NEW r \in Request, NEW s \in Scan, NEW T \in SUBSET Addr, CreateScan(r, s, T)
      PROVE  CountsInv'
  <2> DEFINE v == [op |-> "insert", scan |-> s, targets |-> T, auto |-> {}]
  <2>1. /\ InsertScan(s, Cardinality(T)) /\ req' = [req EXCEPT ![r] = v]
        /\ UNCHANGED <<completed, target, auto, memory>>
    BY <1>1 DEF CreateScan
  <2>2. v.scan = s /\ v.targets = T /\ v.auto = {} /\ Cardinality({}) <= CompanionCap
    BY FS_EmptySet, ServiceAssumption
  <2> HIDE DEF v
  <2>3. /\ req'[r] = v /\ \A q \in Request \ {r} : req'[q] = req[q]
        /\ \A x \in Scan \ {s} : ~Inserting(r, x)'
    BY <2>1, <2>2 DEF TypeOK, Inserting
  <2>4. QED
    BY <2>1, <2>2, <2>3, Cardinalities, CountsInsert
<1>2. ASSUME NEW r \in Request, NEW s \in Scan, NEW old \in Scan, RescanScan(r, old, s)
      PROVE  CountsInv'
  <2> DEFINE v == [op |-> "insert", scan |-> s, targets |-> Rows(old), auto |-> auto[old]]
  <2>1. /\ InsertScan(s, Cardinality(Rows(old))) /\ req' = [req EXCEPT ![r] = v]
        /\ UNCHANGED <<completed, target, auto, memory>>
    BY <1>2 DEF RescanScan
  <2>2. /\ v.scan = s /\ v.targets = Rows(old) /\ Cardinality(v.auto) <= CompanionCap
        /\ Cardinality(Rows(old)) \in Nat
    BY Cardinalities DEF CountsInv, CountsOf, CountInv, Rows
  <2> HIDE DEF v
  <2>3. /\ req'[r] = v /\ \A q \in Request \ {r} : req'[q] = req[q]
        /\ \A x \in Scan \ {s} : ~Inserting(r, x)'
    BY <2>1, <2>2 DEF TypeOK, Inserting
  <2>4. QED
    BY <2>1, <2>2, <2>3, CountsInsert
<1>3. ASSUME NEW p \in Proc, NEW s \in Scan, NEW n \in 1..Cardinality(Addr), CliCreate(p, s, n)
      PROVE  CountsInv'
  <2>1. /\ task'[p][s] = "created"
        /\ \A q \in Proc, x \in Scan : q # p \/ x # s => task'[q][x] = task[q][x]
    BY <1>3 DEF CliCreate, TypeOK, Tasks
  <2>2. n \in Nat
    BY Cardinalities
  <2>3. QED
    BY <1>3, <2>1, <2>2, CountsInsert DEF CliCreate
<1>4. ASSUME NEW r \in Request, CommitTargets(r) PROVE CountsInv'
  <2>1. req[r] \in [op : {"insert"}, scan : Scan, targets : SUBSET Addr, auto : SUBSET Addr]
    BY <1>4 DEF CommitTargets, TypeOK, Requests, Idle
  <2>s. PICK s \in Scan : s = req[r].scan
    BY <2>1
  <2> DEFINE v == [op |-> "start", scan |-> s]
  <2>2. Inserting(r, s) /\ CountsOf(s)
    BY <2>1, <2>s DEF Inserting, CountsInv
  <2>3. v.op # "insert" /\ req' = [req EXCEPT ![r] = v]
    BY <1>4, <2>s DEF CommitTargets
  <2> HIDE DEF v
  <2>4. \A q \in Request, x \in Scan : Inserting(q, x)' => Inserting(q, x) /\ req'[q] = req[q]
    BY <1>c, <2>3
  <2>5. \A q \in Request : ~Inserting(q, s)'
    <3> SUFFICES ASSUME NEW q \in Request, Inserting(q, s)' PROVE FALSE
      OBVIOUS
    <3>1. q = r
      BY <2>2, <2>4 DEF CountsOf
    <3>2. QED
      BY <2>3, <3>1 DEF Inserting, TypeOK
  <2>6. /\ InsertTargets(s, req[r].targets, req[r].auto)
        /\ UNCHANGED <<status, total, completed, task, worker>>
    BY <1>4, <2>s DEF CommitTargets
  <2>7. /\ status[s] # "none" /\ Rows(s) = {} /\ total[s] = Cardinality(req[r].targets)
        /\ Cardinality(req[r].auto) <= CompanionCap
        /\ \A p \in Proc : task[p][s] # "created"
    BY <2>2 DEF CountsOf
  <2>8. req[r].targets \in SUBSET Addr
    BY <2>1
  <2>9. QED
    BY <2>2, <2>4, <2>5, <2>6, <2>7, <2>8, CountsList
<1>5. ASSUME NEW p \in Proc, NEW s \in Scan, NEW T \in SUBSET Addr, CliCommitTargets(p, s, T)
      PROVE  CountsInv'
  <2>1. task[p][s] = "created" /\ CountsOf(s)
    BY <1>5 DEF CliCommitTargets, CountsInv
  <2>2. /\ Rows(s) = {} /\ status[s] # "none" /\ \A r \in Request : ~Inserting(r, s)
        /\ \A q \in Proc \ {p} : task[q][s] # "created"
    BY <2>1 DEF CountsOf
  <2>3. /\ task'[p][s] = "waiting"
        /\ \A q \in Proc, x \in Scan : q # p \/ x # s => task'[q][x] = task[q][x]
    BY <1>5 DEF CliCommitTargets, TypeOK, Tasks
  <2>4. Cardinality({}) <= CompanionCap
    BY FS_EmptySet, ServiceAssumption
  <2>5. \A q \in Proc : /\ task'[q][s] # "created"
                        /\ task'[q][s] \in {"round", "expand"} => task'[q][s] = task[q][s]
                        /\ \A x \in Scan \ {s} : task'[q][x] = task[q][x]
    BY <2>2, <2>3
  <2>6. /\ InsertTargets(s, T, {}) /\ total[s] = Cardinality(T)
        /\ UNCHANGED <<status, total, completed, worker, req>>
    BY <1>5 DEF CliCommitTargets
  <2>7. \A r \in Request, x \in Scan : Inserting(r, x)' <=> Inserting(r, x)
    BY <2>6 DEF Inserting
  <2>8. QED
    BY <2>2, <2>4, <2>5, <2>6, <2>7, CountsList
\* The other steps leave the lists alone.
<1>6. ASSUME UNCHANGED <<total, completed, target, auto, task, worker>>,
             \A s \in Scan : status[s] # "none" => status'[s] # "none",
             \A r \in Request, s \in Scan : Inserting(r, s)' => Inserting(r, s) /\ req'[r] = req[r]
      PROVE  CountsInv'
  BY <1>6, <1>a DEF Keeps, Rows
<1>7. ASSUME NEW r \in Request, NEW s \in Scan, CancelRead(r, s) PROVE CountsInv'
  <2>1. [op |-> "flag", scan |-> s, seen |-> status[s]].op # "insert"
    OBVIOUS
  <2>2. QED
    BY <1>7, <1>6, <1>c, <2>1 DEF CancelRead
<1>8. ASSUME NEW r \in Request, CancelFlag(r) PROVE CountsInv'
  <2> DEFINE v == IF req[r].seen = "queued" THEN [op |-> "write", scan |-> req[r].scan] ELSE Idle
  <2>1. v.op # "insert" /\ req' = [req EXCEPT ![r] = v]
    BY <1>8 DEF CancelFlag, Idle
  <2> HIDE DEF v
  <2>2. QED
    BY <1>8, <1>6, <1>c, <2>1 DEF CancelFlag
<1>9. ASSUME NEW r \in Request, CancelWrite(r) PROVE CountsInv'
  <2>1. Idle.op # "insert" /\ req' = [req EXCEPT ![r] = Idle]
    BY <1>9 DEF CancelWrite, Idle
  <2>2. \A s \in Scan : status[s] # "none" => status'[s] # "none"
    BY <1>9 DEF CancelWrite, TypeOK
  <2>3. QED
    BY <1>9, <1>6, <1>c, <2>1, <2>2 DEF CancelWrite
<1>10. ASSUME NEW r \in Request, StartScan(r) PROVE CountsInv'
  <2>1. Idle.op # "insert" /\ req' = [req EXCEPT ![r] = Idle]
    BY <1>10 DEF StartScan, Idle
  <2>2. \A q \in Request, s \in Scan : Inserting(q, s)' => Inserting(q, s) /\ req'[q] = req[q]
    BY <1>c, <2>1
  <2>3. \A p \in Proc, s \in Scan : task'[p][s] \in {task[p][s], "posted"}
    BY <1>10 DEF StartScan, TypeOK, Tasks
  <2>4. QED
    BY <1>10, <1>a, <2>2, <2>3 DEF StartScan, Keeps, Rows
<1>11. ASSUME NEW p \in Proc, NEW s \in Scan, NEW v, task' = [task EXCEPT ![p][s] = v],
              \/ v \in {"ended", "waiting", "finalize"}
              \/ v \in {"round", "expand"} /\ Rows(s) # {},
              UNCHANGED <<total, target, auto, req>>,
              \A x \in Scan : /\ status[x] # "none" => status'[x] # "none"
                             /\ completed'[x] \in {completed[x], CountDone(target'[x])},
              \A q \in Proc, x \in Scan, a \in Addr : worker'[q][x][a] # "none" =>
                 worker[q][x][a] # "none" \/ a \in Rows(x)
       PROVE  CountsInv'
  <2>1. \A q \in Proc, x \in Scan : task'[q][x] = task[q][x] \/ (q = p /\ x = s /\ task'[q][x] = v)
    BY <1>11 DEF TypeOK, Tasks
  <2>2. \A x \in Scan : Keeps(x)
    BY <1>11, <1>b, <2>1 DEF Keeps, Rows
  <2>3. QED
    BY <1>a, <2>2
<1>12. ASSUME NEW p \in Proc, EndProcess(p), UNCHANGED <<total, target, auto>>,
              \A s \in Scan : /\ status[s] # "none" => status'[s] # "none"
                             /\ completed'[s] \in {completed[s], CountDone(target'[s])},
              \A r \in Request, s \in Scan : Inserting(r, s)' => Inserting(r, s) /\ req'[r] = req[r]
       PROVE  CountsInv'
  <2>1. \A q \in Proc, s \in Scan :
           /\ task'[q][s] = task[q][s] \/ task'[q][s] = "none"
           /\ \A a \in Addr : worker'[q][s][a] # "none" => worker[q][s][a] # "none"
    BY <1>12 DEF EndProcess, NoWorkers, TypeOK, Tasks, Workers
  <2>2. \A s \in Scan : Keeps(s)
    BY <1>12, <2>1 DEF Keeps, Rows
  <2>3. QED
    BY <1>a, <2>2
<1>13. ASSUME NEW s \in Scan, SpawnTask(s) PROVE CountsInv'
  BY <1>13, <1>11, ServiceAssumption DEF SpawnTask
<1>14. ASSUME NEW p \in Proc, NEW s \in Scan, BeginPipeline(p, s) PROVE CountsInv'
  <2>1. \A q \in Proc, x \in Scan, a \in Addr : worker'[q][x][a] # "none" =>
           worker[q][x][a] # "none" \/ a \in Rows(x)
    BY <1>14 DEF BeginPipeline, TypeOK, Workers
  <2>2. \A x \in Scan : status[x] # "none" => status'[x] # "none"
    BY <1>14 DEF BeginPipeline, TypeOK
  <2>3. PICK v : /\ task' = [task EXCEPT ![p][s] = v]
                 /\ v = "finalize" \/ (v = "round" /\ Rows(s) # {})
    BY <1>14 DEF BeginPipeline
  <2>4. QED
    BY <1>14, <1>11, <2>1, <2>2, <2>3 DEF BeginPipeline
\* A target is worked on: its row has a status before and after.
<1>15. ASSUME NEW p \in Proc, NEW s \in Scan, NEW a \in Addr, NEW v \in {"active", "ended"},
              NEW w \in {"working", "completed", "failed"},
              worker[p][s][a] # "none",
              worker' = [worker EXCEPT ![p][s][a] = v],
              target' \in {target, [target EXCEPT ![s][a] = w]},
              UNCHANGED <<status, total, auto, task, req>>,
              \A x \in Scan : completed'[x] \in {completed[x], CountDone(target'[x])}
       PROVE  CountsInv'
  <2>1. a \in Rows(s)
    BY <1>15 DEF CountsInv, CountsOf
  <2>2. \A x \in Scan, b \in Addr : target'[x][b] # "none" <=> target[x][b] # "none"
    BY <1>15, <2>1 DEF TypeOK, Targets, Rows
  <2>3. \A x \in Scan : Rows(x)' = Rows(x)
    BY <2>2 DEF Rows
  <2>4. \A q \in Proc, x \in Scan, b \in Addr : worker'[q][x][b] # "none" => worker[q][x][b] # "none"
    BY <1>15 DEF TypeOK, Workers
  <2>5. QED
    BY <1>15, <1>a, <1>b, <2>3, <2>4 DEF Keeps
<1>16. ASSUME NEW p \in Proc, NEW s \in Scan, NEW a \in Addr,
              StartTarget(p, s, a) \/ FinishTarget(p, s, a) \/ FailTarget(p, s, a)
       PROVE  CountsInv'
  <2>1. CASE StartTarget(p, s, a)
    BY <1>15, <2>1 DEF StartTarget
  <2>2. CASE FinishTarget(p, s, a)
    <3>1. \A x \in Scan : completed'[x] \in {completed[x], CountDone(target'[x])}
      BY <2>2 DEF FinishTarget, TypeOK
    <3>2. QED
      BY <1>15, <2>2, <3>1 DEF FinishTarget
  <2>3. CASE FailTarget(p, s, a)
    BY <1>15, <2>3 DEF FailTarget
  <2>4. QED
    BY <1>16, <2>1, <2>2, <2>3
<1>17. ASSUME NEW p \in Proc, NEW s \in Scan, EndRound(p, s) PROVE CountsInv'
  <2>1. Rows(s) # {}
    BY <1>17 DEF EndRound, CountsInv, CountsOf
  <2>2. PICK v \in {"finalize", "expand"} : task' = [task EXCEPT ![p][s] = v]
    BY <1>17 DEF EndRound
  <2>3. UNCHANGED <<rows, req, worker>>
    BY <1>17 DEF EndRound
  <2>4. CASE v = "finalize"
    BY <1>11, <2>2, <2>3, <2>4
  <2>5. CASE v = "expand"
    BY <1>11, <2>1, <2>2, <2>3, <2>5
  <2>6. QED
    BY <2>4, <2>5
<1>18. ASSUME NEW p \in Proc, NEW s \in Scan, ExpandScan(p, s) PROVE CountsInv'
  <2>1. CASE task' = [task EXCEPT ![p][s] = "finalize"] /\ UNCHANGED <<total, target, auto, worker>>
    BY <1>18, <1>11, <2>1 DEF ExpandScan
  <2>2. CASE \E New \in SUBSET (Addr \ Rows(s)) \ {{}} : ExpandScan(p, s)!2!2!(New)
    BY <1>18, <2>2, CountsExpand
  <2>3. QED
    BY <1>18, <2>1, <2>2 DEF ExpandScan
<1>19. ASSUME NEW p \in Proc, NEW s \in Scan, FinalizeScan(p, s) PROVE CountsInv'
  <2>1. \A x \in Scan : /\ status[x] # "none" => status'[x] # "none"
                       /\ completed'[x] \in {completed[x], CountDone(target'[x])}
    BY <1>19 DEF FinalizeScan, TypeOK
  <2>2. CASE task' = [task EXCEPT ![p][s] = "ended"] /\ UNCHANGED <<up, worker>>
    BY <1>19, <1>11, <2>1, <2>2 DEF FinalizeScan
  <2>3. CASE EndProcess(p)
    BY <1>19, <1>12, <1>b, <2>1, <2>3 DEF FinalizeScan
  <2>4. QED
    BY <1>19, <2>2, <2>3 DEF FinalizeScan
<1>20. ASSUME NEW p \in Proc, NEW s \in Scan, NEW w, PipelineRaises(p, s, w),
              \A q \in Proc, x \in Scan, a \in Addr : w[q][x][a] # "none" => worker[q][x][a] # "none"
       PROVE  CountsInv'
  <2>1. \A x \in Scan : status[x] # "none" => status'[x] # "none"
    BY <1>20 DEF PipelineRaises, TypeOK
  <2>2. CASE task' = [task EXCEPT ![p][s] = "ended"] /\ worker' = w
    BY <1>20, <1>11, <2>1, <2>2 DEF PipelineRaises
  <2>3. CASE EndProcess(p)
    BY <1>20, <1>12, <1>b, <2>1, <2>3 DEF PipelineRaises
  <2>4. QED
    BY <1>20, <2>2, <2>3 DEF PipelineRaises
<1>21. ASSUME NEW p \in Proc, NEW s \in Scan, CrashPipeline(p, s) PROVE CountsInv'
  BY <1>20, <1>21 DEF CrashPipeline
<1>22. ASSUME NEW p \in Proc, NEW s \in Scan, NEW a \in Addr, CrashTarget(p, s, a) PROVE CountsInv'
  <2> DEFINE w == [worker EXCEPT ![p][s][a] = "ended"]
  <2>1. \A q \in Proc, x \in Scan, b \in Addr : w[q][x][b] # "none" => worker[q][x][b] # "none"
    BY <1>22 DEF CrashTarget, TypeOK, Workers
  <2>2. CASE task[p][s] = "round"
    BY <1>20, <1>22, <2>1, <2>2 DEF CrashTarget
  <2>3. CASE task[p][s] # "round"
    BY <1>22, <1>15, <2>3 DEF CrashTarget
  <2>4. QED
    BY <2>2, <2>3
<1>23. ASSUME NEW p \in Proc, Crash(p) PROVE CountsInv'
  <2>1. \A r \in Request, s \in Scan : Inserting(r, s)' => Inserting(r, s) /\ req'[r] = req[r]
    BY <1>23, <1>b DEF Crash, Inserting, Idle
  <2>2. QED
    BY <1>23, <1>12, <2>1 DEF Crash
<1>24. CASE Restart
  <2>1. \A s \in Scan : status[s] # "none" => status'[s] # "none"
    BY <1>24 DEF Restart
  <2>2. \A p \in Proc, s \in Scan : task'[p][s] \in {task[p][s], "waiting"}
    BY <1>24 DEF Restart, TypeOK, Tasks
  <2>3. QED
    BY <1>24, <1>a, <1>b, <2>1, <2>2 DEF Restart, Keeps, Rows
<1>25. CASE UNCHANGED vars
  BY <1>25, <1>6, <1>b DEF vars
<1>26. QED
  BY <1>1, <1>2, <1>3, <1>4, <1>5, <1>7, <1>8, <1>9, <1>10, <1>13, <1>14, <1>16, <1>17, <1>18,
     <1>19, <1>21, <1>22, <1>23, <1>24, <1>25
  DEF Next, User, Fault, Endpoint, Pipeline

LEMMA CountsInit == Init => CountsInv
<1> SUFFICES ASSUME Init, NEW s \in Scan PROVE CountsOf(s)
  BY DEF CountsInv
<1>1. /\ Rows(s) = {} /\ completed[s] = 0 /\ auto[s] = {}
      /\ \A p \in Proc : task[p][s] = "none" /\ \A a \in Addr : worker[p][s][a] = "none"
      /\ \A r \in Request : ~Inserting(r, s)
  BY DEF Init, Rows, NoWorkers, Inserting, Idle
<1>2. CountInv(s)
  BY <1>1, FS_EmptySet, ServiceAssumption DEF CountInv
<1>3. QED
  BY <1>1, <1>2 DEF CountsOf

\* Total, rows and companions of a scan agree, whichever processes work on it:
\* the invariant behind the two theorems below.
THEOREM CountsInvariance == Spec => [](TypeOK /\ CountsInv)
<1>1. Init => TypeOK /\ CountsInv
  BY TypeInit, CountsInit
<1>2. (TypeOK /\ CountsInv) /\ [Next]_vars => (TypeOK /\ CountsInv)'
  BY TypeNext, CountsNext
<1>3. QED
  BY <1>1, <1>2, PTL DEF Spec

\* completed_targets never passes total_targets, and the total is the number of
\* target rows, whatever the server and the command-line runs do to a scan.
THEOREM ProgressCorrect == Spec => []ProgressIsBounded
<1>1. TypeOK /\ CountsInv => ProgressIsBounded
  <2> SUFFICES ASSUME TypeOK, CountsInv, NEW s \in Scan
               PROVE  /\ completed[s] <= total[s]
                      /\ Rows(s) # {} => total[s] = Cardinality(Rows(s))
    BY DEF ProgressIsBounded
  <2>1. CountInv(s) /\ total[s] \in Nat /\ completed[s] \in Nat
    BY DEF CountsInv, CountsOf, TypeOK
  <2>2. CASE Rows(s) = {}
    BY <2>1, <2>2, FS_EmptySet DEF CountInv
  <2>3. CASE Rows(s) # {}
    BY <2>1, <2>3 DEF CountInv
  <2>4. QED
    BY <2>2, <2>3
<1>2. QED
  BY <1>1, CountsInvariance, PTL

\* Companion expansion respects its cap, over all rounds, rescans, crashes and
\* recoveries, and when two processes expand one scan.
THEOREM CompanionsCorrect == Spec => []CompanionsAreBounded
<1>1. CountsInv => CompanionsAreBounded
  BY DEF CountsInv, CountsOf, CountInv, CompanionsAreBounded
<1>2. QED
  BY <1>1, CountsInvariance, PTL

----------------------------------------------------------------------------
(* That the service implements its contract.                               *)
(*                                                                         *)
(* The contract sees three things of a scan: its phase, the targets it     *)
(* lists and those that are done.  Most steps of the service change none   *)
(* of them; the first lemmas say when a change of one of them is a step of *)
(* the contract, those after them what each action does.                   *)

Finished(s) == {a \in Addr : target[s][a] \in Done}

phases == [s \in Scan |-> Phase(s)]
lists  == [s \in Scan |-> Rows(s)]
works  == [s \in Scan |-> Finished(s)]

Step == [Contract!Changed /\ Contract!Next]_(Contract!vars)

LEMMA Seen ==
    Contract!vars = <<phases, lists, works>> /\ Contract!vars' = <<phases', lists', works'>>
BY DEF Contract!vars, phases, lists, works, Finished

LEMMA Stutter ==
    ASSUME \A x \in Scan : Phase(x)' = Phase(x) /\ Rows(x)' = Rows(x) /\ Finished(x)' = Finished(x)
    PROVE  Step
<1>1. phases' = phases /\ lists' = lists /\ works' = works
  BY DEF phases, lists, works
<1>2. QED
  BY <1>1, Seen DEF Step

LEMMA AsStep == ASSUME Contract!Next PROVE Step
BY DEF Step, Contract!Changed, Contract!vars

\* One scan goes on to another phase.
LEMMA PhaseStep ==
    ASSUME NEW s \in Scan, \A x \in Scan \ {s} : Phase(x)' = Phase(x),
           \A x \in Scan : Rows(x)' = Rows(x) /\ Finished(x)' = Finished(x),
           \/ Phase(s)' = Phase(s)
           \/ Phase(s) = "none" /\ Phase(s)' = "queued"
           \/ Phase(s) = "queued" /\ Phase(s)' = "running"
           \/ Phase(s) \in {"queued", "running"} /\ Phase(s)' \in {"cancelled", "failed"}
           \/ Phase(s) \in {"completed", "failed"} /\ Phase(s)' = "cancelled"
           \/ Phase(s) = "running" /\ Phase(s)' = "completed" /\ Rows(s) \subseteq Finished(s)
    PROVE  Step
<1>1. lists' = lists /\ works' = works /\ phases' = [phases EXCEPT ![s] = Phase(s)']
  BY DEF phases, lists, works
<1>2. phases[s] = Phase(s) /\ lists[s] = Rows(s) /\ works[s] = Finished(s)
  BY DEF phases, lists, works
<1>3. CASE Phase(s)' = Phase(s)
  BY <1>3, Stutter
<1>4. CASE Phase(s)' # Phase(s)
  <2>1. Contract!Next
    BY <1>1, <1>2, <1>4 DEF Contract!Next, Contract!Submit, Contract!Begin, Contract!Stop,
       Contract!Fail, Contract!Relabel, Contract!Complete, Contract!Move, phases, lists, works, Finished
  <2>2. QED
    BY <2>1, AsStep
<1>5. QED
  BY <1>3, <1>4

\* A scan lists more targets: its first ones, or companions.
LEMMA ListStep ==
    ASSUME NEW s \in Scan, \A x \in Scan : Phase(x)' = Phase(x) /\ Finished(x)' = Finished(x),
           \A x \in Scan \ {s} : Rows(x)' = Rows(x),
           \/ Phase(s) = "queued" /\ Rows(s) = {}
           \/ Phase(s) = "running" /\ Rows(s) \subseteq Rows(s)'
    PROVE  Step
<1>1. phases' = phases /\ works' = works /\ lists' = [lists EXCEPT ![s] = Rows(s)']
  BY DEF phases, lists, works
<1>2. phases[s] = Phase(s) /\ lists[s] = Rows(s) /\ Rows(s)' \in SUBSET Addr
  BY DEF phases, lists, Rows
<1>3. CASE Phase(s) = "queued" /\ Rows(s) = {}
  <2>1. Contract!Enlist(s, Rows(s)')
    BY <1>1, <1>2, <1>3 DEF Contract!Enlist, phases, lists, works, Finished
  <2>2. QED
    BY <1>2, <2>1, AsStep DEF Contract!Next
<1>4. CASE Phase(s) = "running" /\ Rows(s) \subseteq Rows(s)'
  <2>1. lists' = [lists EXCEPT ![s] = lists[s] \cup Rows(s)']
    BY <1>1, <1>2, <1>4
  <2>2. Contract!Extend(s, Rows(s)')
    BY <1>1, <1>2, <1>4, <2>1 DEF Contract!Extend, phases, lists, works, Finished
  <2>3. QED
    BY <1>2, <2>2, AsStep DEF Contract!Next
<1>5. QED
  BY <1>3, <1>4

\* A target is done.
LEMMA WorkStep ==
    ASSUME NEW s \in Scan, NEW a \in Addr,
           \A x \in Scan : Phase(x)' = Phase(x) /\ Rows(x)' = Rows(x),
           \A x \in Scan \ {s} : Finished(x)' = Finished(x),
           Phase(s) \in {"running", "failed", "cancelled"}, a \in Rows(s),
           Finished(s)' = Finished(s) \cup {a}
    PROVE  Step
<1>1. phases' = phases /\ lists' = lists /\ works' = [works EXCEPT ![s] = works[s] \cup {a}]
  BY DEF phases, lists, works
<1>2. Contract!Work(s, a)
  BY <1>1 DEF Contract!Work, phases, lists, works, Finished
<1>3. QED
  BY <1>2, AsStep DEF Contract!Next

\* The server dies or comes back: several scans at once change their phase.
LEMMA ProcessStep ==
    ASSUME NEW S \in SUBSET Scan,
           \A x \in Scan : Rows(x)' = Rows(x) /\ Finished(x)' = Finished(x),
           \A x \in Scan \ S : Phase(x)' = Phase(x),
           \/ \A x \in S : Phase(x) = "running" /\ Phase(x)' = "failed"
           \/ \A x \in S : Phase(x) \in {"queued", "running"} /\ Phase(x)' = "cancelled"
    PROVE  Step
<1>1. lists' = lists /\ works' = works
  BY DEF lists, works
<1>2. CASE \A x \in S : Phase(x) = "running" /\ Phase(x)' = "failed"
  <2>1. phases' = [x \in Scan |-> IF x \in S THEN "failed" ELSE phases[x]]
    BY <1>2 DEF phases
  <2>2. Contract!Interrupt(S)
    BY <1>1, <1>2, <2>1 DEF Contract!Interrupt, phases, lists, works, Finished
  <2>3. QED
    BY <2>2, AsStep DEF Contract!Next
<1>3. CASE \A x \in S : Phase(x) \in {"queued", "running"} /\ Phase(x)' = "cancelled"
  <2>1. phases' = [x \in Scan |-> IF x \in S THEN "cancelled" ELSE phases[x]]
    BY <1>3 DEF phases
  <2>2. Contract!Abandon(S)
    BY <1>1, <1>3, <2>1 DEF Contract!Abandon, phases, lists, works, Finished
  <2>3. QED
    BY <2>2, AsStep DEF Contract!Next
<1>4. QED
  BY <1>2, <1>3

----------------------------------------------------------------------------
(* What the refinement needs beyond IInv: a call that cancels names a scan *)
(* that exists, and a target that has not been started is not done.        *)

CancelsKnown == \A r \in Request : req[r].op \in {"flag", "write"} => status[req[r].scan] # "none"

Waits(s) == \/ status[s] \in {"none", "queued"} \/ task[Server][s] \in Pending
            \/ \E r \in Request : Creating(r, s)

FreshInv(s) ==
    /\ Waits(s) => Finished(s) = {}
    /\ \A a \in Addr : worker[Server][s][a] = "waiting" => target[s][a] \notin Done

RInv == IInv /\ CancelsKnown /\ \A s \in Scan : FreshInv(s)

Calls(s) == \E r \in Request : Creating(r, s)

\* A scan whose creating call is under way has no task: the cases are disjoint.
LEMMA Disjoint ==
    ASSUME CreationInv, NEW s \in Scan, Calls(s)
    PROVE  task[Server][s] = "none" /\ task[Server][s] \notin Started \cup Pending
BY DEF CreationInv, Calls, Started, Pending

LEMMA PhaseIs ==
    ASSUME CreationInv, NEW s \in Scan
    PROVE  /\ task[Server][s] \in Started => Phase(s) = "running"
           /\ task[Server][s] \in Pending \/ Calls(s) => Phase(s) = "queued"
           /\ task[Server][s] \notin Started \cup Pending /\ ~Calls(s) => Phase(s) = status[s]
<1>1. CASE task[Server][s] \in Started
  <2>1. task[Server][s] \notin Pending /\ ~Calls(s)
    BY <1>1, Disjoint DEF Started, Pending
  <2>2. QED
    BY <1>1, <2>1 DEF Phase, Calls
<1>2. CASE task[Server][s] \notin Started
  BY <1>2, Disjoint DEF Phase, Calls
<1>3. QED
  BY <1>1, <1>2

\* The phase of a scan is the same if its task, its calls and its row are.
LEMMA SamePhase ==
    ASSUME NEW s \in Scan, task'[Server][s] = task[Server][s],
           (\E r \in Request : Creating(r, s)') <=> \E r \in Request : Creating(r, s),
           status'[s] = status[s] \/ Phase(s) # status[s]
    PROVE  Phase(s)' = Phase(s)
<1>1. CASE task[Server][s] \in Started
  BY <1>1 DEF Phase
<1>2. CASE task[Server][s] \notin Started
  BY <1>2 DEF Phase
<1>3. QED
  BY <1>1, <1>2

LEMMA DisjointNext ==
    ASSUME CreationInv', NEW s \in Scan, Calls(s)'
    PROVE  task'[Server][s] = "none" /\ task'[Server][s] \notin Started \cup Pending
BY DEF CreationInv, Calls, Started, Pending

LEMMA PhaseIsNext ==
    ASSUME CreationInv', NEW s \in Scan
    PROVE  /\ task'[Server][s] \in Started => Phase(s)' = "running"
           /\ task'[Server][s] \in Pending \/ Calls(s)' => Phase(s)' = "queued"
           /\ task'[Server][s] \notin Started \cup Pending /\ ~Calls(s)' => Phase(s)' = status'[s]
<1>1. CASE task'[Server][s] \in Started
  <2>1. task'[Server][s] \notin Pending /\ ~Calls(s)'
    BY <1>1, DisjointNext DEF Started, Pending
  <2>2. QED
    BY <1>1, <2>1 DEF Phase, Calls
<1>2. CASE task'[Server][s] \notin Started
  BY <1>2, DisjointNext DEF Phase, Calls
<1>3. QED
  BY <1>1, <1>2

\* A step that leaves alone what the invariant says of a scan, and the calls
\* that create it, leaves alone what the contract sees of it.
Kept(x) == Phase(x)' = Phase(x) /\ Rows(x)' = Rows(x) /\ Finished(x)' = Finished(x)

LEMMA UntouchedKept ==
    ASSUME CreationInv, CreationInv', NEW x \in Scan, FreshInv(x), Untouched(x),
           Calls(x)' <=> Calls(x)
    PROVE  Kept(x) /\ FreshInv(x)'
<1>1. Rows(x)' = Rows(x) /\ Finished(x)' = Finished(x)
  BY DEF Untouched, Rows, Finished
<1>2. Phase(x)' = Phase(x)
  BY PhaseIs, PhaseIsNext DEF Untouched
<1>3. FreshInv(x)'
  BY <1>1 DEF FreshInv, Waits, Untouched, Calls
<1>4. QED
  BY <1>1, <1>2, <1>3 DEF Kept

\* Calls that cancel go on naming scans that exist.
LEMMA StillKnown ==
    ASSUME TypeOK, CancelsKnown,
           \A r \in Request : req'[r].op \in {"flag", "write"} =>
              req[r].op \in {"flag", "write"} /\ req'[r].scan = req[r].scan,
           \A x \in Scan : status[x] # "none" => status'[x] # "none"
    PROVE  CancelsKnown'
<1> SUFFICES ASSUME NEW r \in Request, req'[r].op \in {"flag", "write"}
             PROVE  status'[req'[r].scan] # "none"
  BY DEF CancelsKnown
<1>1. req[r].op \in {"flag", "write"} /\ req'[r].scan = req[r].scan
  OBVIOUS
<1>2. req[r].scan \in Scan
  BY <1>1 DEF TypeOK, Requests, Idle
<1>3. QED
  BY <1>1, <1>2 DEF CancelsKnown

----------------------------------------------------------------------------
(* The actions: each is a step of the contract, and keeps RInv.            *)

\* A step of the pipeline of scan s, which sees no other scan.
LEMMA PipelineKeeps ==
    ASSUME RInv, IInv', NEW s \in Scan, UNCHANGED req,
           \A x \in Scan : status[x] # "none" => status'[x] # "none",
           \A x \in Scan \ {s} : Untouched(x),
           FreshInv(s)'
    PROVE  RInv' /\ \A x \in Scan \ {s} : Kept(x)
<1>1. \A x \in Scan : Calls(x)' <=> Calls(x)
  BY DEF Calls, Creating
<1>2. ASSUME NEW x \in Scan \ {s} PROVE Kept(x) /\ FreshInv(x)'
  BY <1>1, UntouchedKept DEF RInv, IInv
<1>3. CancelsKnown'
  BY StillKnown DEF RInv, IInv
<1>4. QED
  BY <1>2, <1>3 DEF RInv

LEMMA SpawnTaskSteps ==
    ASSUME RInv, IInv', NEW s \in Scan, SpawnTask(s)
    PROVE  Step /\ RInv'
<1> USE DEF rows, memory, bounds
<1>1. \A x \in Scan \ {s} : Untouched(x)
  BY ServiceAssumption DEF SpawnTask, Untouched, RInv, IInv, TypeOK, Tasks
<1>2. /\ task[Server][s] \in Pending /\ task'[Server][s] \in Pending
      /\ UNCHANGED <<status, target, worker, req>>
  BY ServiceAssumption DEF SpawnTask, RInv, IInv, TypeOK, Tasks, Pending
<1>3. FreshInv(s)'
  BY <1>2 DEF RInv, FreshInv, Waits, Finished
<1>4. Kept(s)
  BY <1>2, PhaseIs, PhaseIsNext DEF RInv, IInv, Kept, Rows, Finished
<1>5. RInv' /\ \A x \in Scan \ {s} : Kept(x)
  BY <1>1, <1>2, <1>3, PipelineKeeps
<1>6. QED
  BY <1>4, <1>5, Stutter DEF Kept

LEMMA BeginPipelineSteps ==
    ASSUME RInv, IInv', NEW s \in Scan, BeginPipeline(Server, s)
    PROVE  Step /\ RInv'
<1> USE DEF rows, memory, bounds
<1>1. \A x \in Scan \ {s} : Untouched(x)
  BY ServiceAssumption DEF BeginPipeline, Untouched, RInv, IInv, TypeOK, Tasks, Workers
<1>2. /\ task[Server][s] \in Pending /\ task'[Server][s] \in Started
      /\ \A x \in Scan : status[x] # "none" => status'[x] # "none"
      /\ status'[s] = "running" /\ UNCHANGED <<target, req>>
  BY ServiceAssumption DEF BeginPipeline, RInv, IInv, TypeOK, Tasks, Pending, Started
<1>3. Rows(s)' = Rows(s) /\ Finished(s)' = Finished(s)
  BY <1>2 DEF Rows, Finished
<1>4. Phase(s) = "queued" /\ Phase(s)' = "running"
  BY <1>2, PhaseIs, PhaseIsNext DEF RInv, IInv
<1>5. FreshInv(s)'
  <2>1. Finished(s) = {}
    BY <1>2 DEF RInv, FreshInv, Waits
  <2>2. \A a \in Addr : target'[s][a] \notin Done
    BY <1>2, <2>1 DEF Finished
  <2>3. QED
    BY <1>3, <2>1, <2>2 DEF FreshInv
<1>6. RInv' /\ \A x \in Scan \ {s} : Kept(x)
  BY <1>1, <1>2, <1>5, PipelineKeeps
<1>7. QED
  BY <1>3, <1>4, <1>6, PhaseStep DEF Kept

LEMMA StartTargetSteps ==
    ASSUME RInv, IInv', NEW s \in Scan, NEW a \in Addr, StartTarget(Server, s, a)
    PROVE  Step /\ RInv'
<1> USE DEF rows, memory, bounds
<1>1. /\ worker[Server][s][a] = "waiting"
      /\ UNCHANGED <<status, total, completed, auto, task, req>>
      /\ \/ target' = target /\ worker' = [worker EXCEPT ![Server][s][a] = "ended"]
         \/ /\ target' = [target EXCEPT ![s][a] = "working"]
            /\ worker' = [worker EXCEPT ![Server][s][a] = "active"]
  BY DEF StartTarget
<1>2. \A x \in Scan \ {s} : Untouched(x)
  BY <1>1, ServiceAssumption DEF Untouched, RInv, IInv, TypeOK, Targets, Workers
<1>3. target[s][a] # "none" /\ target[s][a] \notin Done
  BY <1>1 DEF RInv, IInv, ScanInv, WorkerInv, FreshInv
<1>4. /\ target'[s][a] # "none" /\ target'[s][a] \notin Done
      /\ \A b \in Addr \ {a} : target'[s][b] = target[s][b]
      /\ worker'[Server][s][a] # "waiting"
      /\ \A b \in Addr \ {a} : worker'[Server][s][b] = worker[Server][s][b]
  BY <1>1, <1>3, ServiceAssumption DEF RInv, IInv, TypeOK, Targets, Workers, Done
<1>5. Rows(s)' = Rows(s) /\ Finished(s)' = Finished(s)
  BY <1>3, <1>4 DEF Rows, Finished
<1>6. Phase(s)' = Phase(s)
  BY <1>1, SamePhase DEF Creating
<1>7. FreshInv(s)'
  <2>1. Waits(s)' => Waits(s)
    BY <1>1 DEF Waits, Creating
  <2>2. QED
    BY <1>4, <1>5, <2>1 DEF RInv, FreshInv
<1>8. RInv' /\ \A x \in Scan \ {s} : Kept(x)
  BY <1>1, <1>2, <1>7, PipelineKeeps
<1>9. QED
  BY <1>5, <1>6, <1>8, Stutter DEF Kept

\* A coroutine at work belongs to a scan that runs, or that has failed under it.
LEMMA WorkPhase ==
    ASSUME IInv, NEW s \in Scan, NEW a \in Addr, worker[Server][s][a] = "active"
    PROVE  /\ Phase(s) \in {"running", "failed", "cancelled"} /\ a \in Rows(s)
           /\ ~Calls(s) /\ task[Server][s] \in {"round", "ended"}
           /\ task[Server][s] = "ended" => status[s] \in {"failed", "cancelled"}
           /\ task[Server][s] = "round" => status[s] \in {"running", "cancelled"}
<1>1. target[s][a] # "none" /\ task[Server][s] \in {"round", "ended"}
  BY DEF IInv, ScanInv, WorkerInv
<1>2. /\ task[Server][s] = "ended" => status[s] \in {"failed", "cancelled"}
      /\ task[Server][s] = "round" => status[s] \in {"running", "cancelled"}
  BY DEF IInv, ScanInv, WorkerInv, TaskInv, Started
<1>3. ~Calls(s)
  BY <1>1, Disjoint DEF IInv
<1>4. QED
  BY <1>1, <1>2, <1>3, PhaseIs DEF IInv, Rows, Started, Pending

\* A target ends, completed or failed.
LEMMA EndTargetSteps ==
    ASSUME RInv, IInv', NEW s \in Scan, NEW a \in Addr, NEW v \in Done,
           worker[Server][s][a] = "active",
           worker' = [worker EXCEPT ![Server][s][a] = "ended"],
           target' = [target EXCEPT ![s][a] = v],
           UNCHANGED <<status, total, auto, task, req>>,
           \A x \in Scan \ {s} : completed'[x] = completed[x]
    PROVE  Step /\ RInv'
<1>1. \A x \in Scan \ {s} : Untouched(x)
  BY ServiceAssumption DEF Untouched, RInv, IInv, TypeOK, Targets, Workers
<1>2. /\ Phase(s) \in {"running", "failed", "cancelled"} /\ a \in Rows(s) /\ ~Waits(s)
  BY WorkPhase DEF RInv, Waits, Calls, Pending
<1>3. /\ target'[s][a] = v /\ \A b \in Addr \ {a} : target'[s][b] = target[s][b]
      /\ worker'[Server][s][a] = "ended"
      /\ \A b \in Addr \ {a} : worker'[Server][s][b] = worker[Server][s][b]
  BY ServiceAssumption DEF RInv, IInv, TypeOK, Targets, Workers
<1>4. Rows(s)' = Rows(s) /\ Finished(s)' = Finished(s) \cup {a}
  BY <1>2, <1>3 DEF Rows, Finished, Done
<1>5. Phase(s)' = Phase(s) /\ ~Waits(s)'
  BY <1>2, SamePhase DEF Creating, Waits
<1>6. FreshInv(s)'
  BY <1>3, <1>5 DEF RInv, FreshInv
<1>7. RInv' /\ \A x \in Scan \ {s} : Kept(x)
  BY <1>1, <1>6, PipelineKeeps
<1>8. QED
  BY <1>2, <1>4, <1>5, <1>7, WorkStep DEF Kept

LEMMA FinishTargetSteps ==
    ASSUME RInv, IInv', NEW s \in Scan, NEW a \in Addr, FinishTarget(Server, s, a)
    PROVE  Step /\ RInv'
<1>1. \A x \in Scan \ {s} : completed'[x] = completed[x]
  BY DEF FinishTarget, RInv, IInv, TypeOK
<1>2. QED
  BY <1>1, EndTargetSteps DEF FinishTarget, Done

LEMMA FailTargetSteps ==
    ASSUME RInv, IInv', NEW s \in Scan, NEW a \in Addr, FailTarget(Server, s, a)
    PROVE  Step /\ RInv'
BY EndTargetSteps DEF FailTarget, Done

LEMMA EndRoundSteps ==
    ASSUME RInv, IInv', NEW s \in Scan, EndRound(Server, s)
    PROVE  Step /\ RInv'
<1> USE DEF rows, memory, bounds
<1>1. \A x \in Scan \ {s} : Untouched(x)
  BY ServiceAssumption DEF EndRound, Untouched, RInv, IInv, TypeOK, Tasks
<1>2. /\ task[Server][s] \in Started /\ task'[Server][s] \in Started
      /\ UNCHANGED <<status, target, worker, req>>
  BY ServiceAssumption DEF EndRound, RInv, IInv, TypeOK, Tasks, Started
<1>3. FreshInv(s)'
  BY <1>2 DEF RInv, FreshInv, Waits, Finished, Started, Pending, Creating
<1>4. Kept(s)
  BY <1>2, PhaseIs, PhaseIsNext DEF RInv, IInv, Kept, Rows, Finished
<1>5. RInv' /\ \A x \in Scan \ {s} : Kept(x)
  BY <1>1, <1>2, <1>3, PipelineKeeps
<1>6. QED
  BY <1>4, <1>5, Stutter DEF Kept

\* The expansion ends, or lists companions for another round.
LEMMA ExpandScanSteps ==
    ASSUME RInv, IInv', NEW s \in Scan, ExpandScan(Server, s)
    PROVE  Step /\ RInv'
<1> USE DEF rows, memory, bounds
<1>1. task[Server][s] = "expand" /\ UNCHANGED <<status, completed, req>>
  BY DEF ExpandScan
<1>2. ASSUME task'[Server][s] \in Started
      PROVE  Phase(s) = "running" /\ Phase(s)' = "running" /\ ~Waits(s)'
  <2>1. ~Calls(s)' /\ status[s] \notin {"none", "queued"}
    BY <1>1, <1>2, DisjointNext DEF RInv, IInv, ScanInv, TaskInv, Started
  <2>2. QED
    BY <1>1, <1>2, <2>1, PhaseIs, PhaseIsNext DEF RInv, IInv, Waits, Calls, Started, Pending
<1>3. CASE /\ task' = [task EXCEPT ![Server][s] = "finalize"]
           /\ UNCHANGED <<total, target, auto, worker>>
  <2>1. /\ task'[Server][s] \in Started /\ \A x \in Scan \ {s} : Untouched(x)
    BY <1>1, <1>3, ServiceAssumption DEF Untouched, RInv, IInv, TypeOK, Tasks, Started
  <2>2. FreshInv(s)'
    BY <1>2, <1>3, <2>1 DEF RInv, FreshInv
  <2>3. RInv' /\ \A x \in Scan \ {s} : Kept(x)
    BY <1>1, <2>1, <2>2, PipelineKeeps
  <2>4. Kept(s)
    BY <1>2, <1>3, <2>1 DEF Kept, Rows, Finished
  <2>5. QED
    BY <2>3, <2>4, Stutter DEF Kept
<1>4. CASE \E New \in SUBSET (Addr \ Rows(s)) \ {{}} : ExpandScan(Server, s)!2!2!(New)
  <2> PICK New \in SUBSET (Addr \ Rows(s)) \ {{}} : ExpandScan(Server, s)!2!2!(New)
    BY <1>4
  <2>1. /\ target'[s] = [a \in Addr |-> IF a \in New THEN "queued" ELSE target[s][a]]
        /\ worker'[Server][s] = [a \in Addr |-> IF a \in New THEN "waiting" ELSE worker[Server][s][a]]
        /\ task'[Server][s] \in Started
    BY ServiceAssumption DEF RInv, IInv, TypeOK, Targets, Tasks, Workers, Started
  <2>2. \A x \in Scan \ {s} : Untouched(x)
    BY <1>1, ServiceAssumption DEF Untouched, RInv, IInv, TypeOK, Targets, Tasks, Workers
  <2>3. Rows(s)' = Rows(s) \cup New /\ \A a \in New : target[s][a] = "none"
    BY <2>1 DEF Rows
  <2>4. Finished(s)' = Finished(s)
    BY <2>1, <2>3 DEF Finished, Done
  <2>5. FreshInv(s)'
    <3>1. ASSUME NEW a \in Addr, worker'[Server][s][a] = "waiting" PROVE target'[s][a] \notin Done
      BY <2>1, <3>1 DEF RInv, FreshInv, Done
    <3>2. QED
      BY <1>2, <2>1, <3>1 DEF FreshInv
  <2>6. RInv' /\ \A x \in Scan \ {s} : Kept(x)
    BY <1>1, <2>2, <2>5, PipelineKeeps
  <2>7. QED
    BY <1>2, <2>1, <2>3, <2>4, <2>6, ListStep DEF Kept
<1>5. QED
  BY <1>3, <1>4 DEF ExpandScan

\* The pipeline of s is over: the task ends, the row takes its last status.
LEMMA PipelineEnds ==
    ASSUME RInv, IInv', NEW s \in Scan, NEW v \in {"completed", "failed", "cancelled"},
           task' = [task EXCEPT ![Server][s] = "ended"],
           status' = [status EXCEPT ![s] = v],
           UNCHANGED <<total, target, auto, req>>,
           \A x \in Scan \ {s} : completed'[x] = completed[x] /\ worker'[Server][x] = worker[Server][x],
           \A a \in Addr : worker'[Server][s][a] = "waiting" => worker[Server][s][a] = "waiting"
    PROVE  /\ RInv' /\ \A x \in Scan \ {s} : Kept(x)
           /\ Phase(s)' = v /\ Rows(s)' = Rows(s) /\ Finished(s)' = Finished(s)
<1>1. \A x \in Scan \ {s} : Untouched(x)
  BY ServiceAssumption DEF Untouched, RInv, IInv, TypeOK, Tasks
<1>2. task'[Server][s] = "ended" /\ status'[s] = v
  BY ServiceAssumption DEF RInv, IInv, TypeOK, Tasks
<1>3. \A x \in Scan : status[x] # "none" => status'[x] # "none"
  BY DEF RInv, IInv, TypeOK
<1>4. ~Calls(s)'
  BY <1>2 DEF IInv, CreationInv, Calls
<1>5. Phase(s)' = v /\ ~Waits(s)'
  BY <1>2, <1>4, PhaseIsNext DEF IInv, Waits, Calls, Started, Pending
<1>6. FreshInv(s)'
  BY <1>5 DEF RInv, FreshInv
<1>7. Rows(s)' = Rows(s) /\ Finished(s)' = Finished(s)
  BY DEF Rows, Finished
<1>8. QED
  BY <1>1, <1>3, <1>5, <1>6, <1>7, PipelineKeeps

LEMMA FinalizeScanSteps ==
    ASSUME RInv, IInv', NEW s \in Scan, FinalizeScan(Server, s)
    PROVE  Step /\ RInv'
<1> DEFINE v == IF s \in cancelled THEN "cancelled" ELSE "completed"
<1>1. /\ v \in {"completed", "failed", "cancelled"}
      /\ task' = [task EXCEPT ![Server][s] = "ended"]
      /\ status' = [status EXCEPT ![s] = v]
      /\ UNCHANGED <<total, target, auto, req, worker>>
      /\ \A x \in Scan \ {s} : completed'[x] = completed[x]
  BY DEF FinalizeScan, IsCancelled, RInv, IInv, TypeOK
<1> HIDE DEF v
<1>2. /\ RInv' /\ \A x \in Scan \ {s} : Kept(x)
      /\ Phase(s)' = v /\ Rows(s)' = Rows(s) /\ Finished(s)' = Finished(s)
  BY <1>1, PipelineEnds
<1>3. Phase(s) = "running"
  BY PhaseIs DEF FinalizeScan, RInv, IInv, Started
<1>4. v = "cancelled" \/ (v = "completed" /\ Rows(s) \subseteq Finished(s))
  <2>1. Covered(s) \/ s \in cancelled
    BY DEF FinalizeScan, RInv, IInv, ScanInv, RoundInv
  <2>2. Covered(s) => Rows(s) \subseteq Finished(s)
    BY DEF Covered, Rows, Finished
  <2>3. CASE s \in cancelled
    BY <2>3 DEF v
  <2>4. CASE s \notin cancelled
    BY <2>1, <2>2, <2>4 DEF v
  <2>5. QED
    BY <2>3, <2>4
<1>5. QED
  BY <1>2, <1>3, <1>4, PhaseStep DEF Kept

\* An exception leaves the pipeline.
LEMMA PipelineRaisesSteps ==
    ASSUME RInv, IInv', NEW s \in Scan, NEW w, PipelineRaises(Server, s, w),
           Phase(s) \in {"queued", "running"},
           \A x \in Scan \ {s} : w[Server][x] = worker[Server][x],
           \A a \in Addr : w[Server][s][a] = "waiting" => worker[Server][s][a] = "waiting"
    PROVE  Step /\ RInv'
<1>1. /\ task' = [task EXCEPT ![Server][s] = "ended"]
      /\ status' = [status EXCEPT ![s] = "failed"]
      /\ UNCHANGED <<total, completed, target, auto, req>> /\ worker' = w
  BY DEF PipelineRaises
<1>2. /\ RInv' /\ \A x \in Scan \ {s} : Kept(x)
      /\ Phase(s)' = "failed" /\ Rows(s)' = Rows(s) /\ Finished(s)' = Finished(s)
  BY <1>1, PipelineEnds
<1>3. QED
  BY <1>2, PhaseStep DEF Kept

LEMMA CrashPipelineSteps ==
    ASSUME RInv, IInv', NEW s \in Scan, CrashPipeline(Server, s)
    PROVE  Step /\ RInv'
<1>1. task[Server][s] \in Started \cup Pending
  BY DEF CrashPipeline, Started, Pending
<1>2. Phase(s) \in {"queued", "running"}
  BY <1>1, PhaseIs DEF RInv, IInv
<1>3. QED
  BY <1>2, PipelineRaisesSteps DEF CrashPipeline

LEMMA CrashTargetSteps ==
    ASSUME RInv, IInv', NEW s \in Scan, NEW a \in Addr, CrashTarget(Server, s, a)
    PROVE  Step /\ RInv'
<1> DEFINE w == [worker EXCEPT ![Server][s][a] = "ended"]
<1>1. /\ w[Server][s][a] = "ended"
      /\ \A b \in Addr \ {a} : w[Server][s][b] = worker[Server][s][b]
      /\ \A x \in Scan \ {s} : w[Server][x] = worker[Server][x]
  BY ServiceAssumption DEF RInv, IInv, TypeOK, Workers
<1>2. CASE task[Server][s] = "round"
  <2>1. Phase(s) = "running"
    BY <1>2, PhaseIs DEF RInv, IInv, Started
  <2>2. PipelineRaises(Server, s, w)
    BY <1>2 DEF CrashTarget
  <2> HIDE DEF w
  <2>3. QED
    BY <1>1, <2>1, <2>2, PipelineRaisesSteps
<1>3. CASE task[Server][s] # "round"
  <2>1. worker' = w /\ UNCHANGED <<status, total, completed, target, auto, task, req>>
    BY <1>3 DEF CrashTarget, rows
  <2> HIDE DEF w
  <2>2. \A x \in Scan \ {s} : Untouched(x)
    BY <1>1, <2>1 DEF Untouched
  <2>3. Kept(s)
    BY <2>1, SamePhase DEF Kept, Rows, Finished, Creating
  <2>4. FreshInv(s)'
    BY <1>1, <2>1 DEF RInv, FreshInv, Waits, Finished, Creating
  <2>5. RInv' /\ \A x \in Scan \ {s} : Kept(x)
    BY <2>1, <2>2, <2>4, PipelineKeeps
  <2>6. QED
    BY <2>3, <2>5, Stutter DEF Kept
<1>4. QED
  BY <1>2, <1>3

----------------------------------------------------------------------------
(* The endpoints, which create scans and cancel them.                      *)

\* The scan row is committed.
LEMMA InsertSteps ==
    ASSUME RInv, IInv', NEW r \in Request, NEW s \in Scan, NEW n,
           NEW T \in SUBSET Addr, NEW C \in SUBSET Addr, req[r] = Idle, InsertScan(s, n),
           req' = [req EXCEPT ![r] = [op |-> "insert", scan |-> s, targets |-> T, auto |-> C]],
           UNCHANGED <<completed, target, auto, memory>>
    PROVE  Step /\ RInv'
<1> USE DEF memory
<1>1. /\ status[s] = "none" /\ task[Server][s] = "none" /\ ~Calls(s)
      /\ \A x \in Scan : status[x] # "none" => status'[x] # "none"
  BY DEF InsertScan, RInv, IInv, ScanInv, TaskInv, CreationInv, Calls, TypeOK
<1>2. /\ req'[r].op = "insert" /\ req'[r].scan = s
      /\ \A q \in Request \ {r} : req'[q] = req[q]
  BY DEF RInv, IInv, TypeOK
<1>3. Calls(s)' /\ \A x \in Scan \ {s} : Calls(x)' <=> Calls(x)
  BY <1>2 DEF Calls, Creating, Idle
<1>4. \A x \in Scan \ {s} : Untouched(x)
  BY DEF InsertScan, RInv, IInv, TypeOK, Untouched
<1>5. ASSUME NEW x \in Scan \ {s} PROVE Kept(x) /\ FreshInv(x)'
  BY <1>3, <1>4, UntouchedKept DEF RInv, IInv
<1>6. Rows(s)' = Rows(s) /\ Finished(s)' = Finished(s)
  BY DEF Rows, Finished
<1>7. Phase(s) = "none" /\ Phase(s)' = "queued"
  BY <1>1, <1>3, PhaseIs, PhaseIsNext DEF RInv, IInv, Started, Pending
<1>8. FreshInv(s)'
  BY <1>1, <1>6 DEF RInv, FreshInv, Waits
<1>9. CancelsKnown'
  BY <1>1, <1>2, StillKnown DEF RInv, IInv
<1>10. Step
  BY <1>5, <1>6, <1>7, PhaseStep DEF Kept
<1>11. QED
  BY <1>5, <1>8, <1>9, <1>10 DEF RInv

LEMMA CreateScanSteps ==
    ASSUME RInv, IInv', NEW r \in Request, NEW s \in Scan, NEW T \in SUBSET Addr, CreateScan(r, s, T)
    PROVE  Step /\ RInv'
<1>1. /\ req[r] = Idle /\ InsertScan(s, Cardinality(T))
      /\ req' = [req EXCEPT ![r] = [op |-> "insert", scan |-> s, targets |-> T, auto |-> {}]]
      /\ UNCHANGED <<completed, target, auto, memory>>
  BY DEF CreateScan
<1>2. {} \in SUBSET Addr
  OBVIOUS
<1>3. QED
  BY <1>1, <1>2, InsertSteps

LEMMA RescanScanSteps ==
    ASSUME RInv, IInv', NEW r \in Request, NEW s \in Scan, NEW old \in Scan, RescanScan(r, old, s)
    PROVE  Step /\ RInv'
<1>1. Rows(old) \in SUBSET Addr /\ auto[old] \in SUBSET Addr
  BY DEF Rows, RInv, IInv, TypeOK
<1>2. QED
  BY <1>1, InsertSteps DEF RescanScan

\* The target rows are committed.
LEMMA CommitTargetsSteps ==
    ASSUME RInv, IInv', NEW r \in Request, CommitTargets(r)
    PROVE  Step /\ RInv'
<1> USE DEF rows, memory, bounds
<1>0. req[r] \in [op : {"insert"}, scan : Scan, targets : SUBSET Addr, auto : SUBSET Addr]
  BY DEF CommitTargets, RInv, IInv, TypeOK, Requests, Idle
<1> PICK s \in Scan, T \in SUBSET Addr : req[r].scan = s /\ req[r].targets = T
  BY <1>0
<1>1. req[r].op = "insert" /\ Creating(r, s) /\ Calls(s)
  BY <1>0 DEF Creating, Calls
<1>2. /\ req'[r] = [op |-> "start", scan |-> s]
      /\ \A q \in Request \ {r} : req'[q] = req[q]
      /\ UNCHANGED <<status, task, worker>>
  BY DEF CommitTargets, RInv, IInv, TypeOK
<1>3. \A x \in Scan : Calls(x)' <=> Calls(x)
  BY <1>1, <1>2 DEF Calls, Creating
<1>4. \A x \in Scan \ {s} : Untouched(x)
  BY <1>1 DEF CommitTargets, InsertTargets, RInv, IInv, TypeOK, Targets, Untouched
<1>5. ASSUME NEW x \in Scan \ {s} PROVE Kept(x) /\ FreshInv(x)'
  BY <1>3, <1>4, UntouchedKept DEF RInv, IInv
<1>6. Rows(s) = {} /\ Phase(s) = "queued" /\ Phase(s)' = "queued"
  BY <1>1, <1>3, PhaseIs, PhaseIsNext DEF RInv, IInv, CreationInv
<1>7. target'[s] = [a \in Addr |-> IF a \in T THEN "queued" ELSE "none"]
  BY <1>1 DEF CommitTargets, InsertTargets, RInv, IInv, TypeOK, Targets
<1>8. Finished(s)' = {} /\ Finished(s) = {}
  <2>1. Waits(s)
    BY <1>1 DEF Waits
  <2>2. QED
    BY <1>7, <2>1 DEF RInv, FreshInv, Finished, Done
<1>9. FreshInv(s)'
  BY <1>7, <1>8 DEF FreshInv, Done
<1>10. CancelsKnown'
  BY <1>2, StillKnown DEF RInv, IInv
<1>11. Step
  BY <1>5, <1>6, <1>8, ListStep DEF Kept
<1>12. QED
  BY <1>5, <1>9, <1>10, <1>11 DEF RInv

\* start_scan asks for a task.
LEMMA StartScanSteps ==
    ASSUME RInv, IInv', NEW r \in Request, StartScan(r)
    PROVE  Step /\ RInv'
<1> USE DEF rows, memory, bounds
<1>0. req[r] \in [op : {"start", "write"}, scan : Scan]
  BY DEF StartScan, RInv, IInv, TypeOK, Requests, Idle
<1> PICK s \in Scan : req[r].scan = s
  BY <1>0
<1>1. req[r].op = "start" /\ Creating(r, s) /\ Calls(s)
  BY DEF StartScan, Creating, Calls
<1>2. task[Server][s] = "none" /\ \A q \in Request : Creating(q, s) => q = r
  BY <1>1 DEF RInv, IInv, CreationInv
<1>3. /\ task' = [task EXCEPT ![Server][s] = "posted"]
      /\ req' = [req EXCEPT ![r] = Idle]
      /\ UNCHANGED <<status, total, completed, target, auto, worker>>
  BY <1>2 DEF StartScan, Live, Pending, Started
<1>4. task'[Server][s] \in Pending /\ \A x \in Scan \ {s} : Untouched(x)
  BY <1>3, ServiceAssumption DEF RInv, IInv, TypeOK, Tasks, Untouched, Pending
<1>5. /\ \A q \in Request : req'[q] = IF q = r THEN Idle ELSE req[q]
      /\ \A x \in Scan \ {s} : Calls(x)' <=> Calls(x)
  BY <1>1, <1>3 DEF Calls, Creating, Idle, RInv, IInv, TypeOK
<1>6. ASSUME NEW x \in Scan \ {s} PROVE Kept(x) /\ FreshInv(x)'
  BY <1>4, <1>5, UntouchedKept DEF RInv, IInv
<1>7. Kept(s)
  BY <1>1, <1>3, <1>4, PhaseIs, PhaseIsNext DEF RInv, IInv, Kept, Rows, Finished
<1>8. FreshInv(s)'
  <2>1. Waits(s)
    BY <1>1 DEF Waits
  <2>2. QED
    BY <1>3, <2>1 DEF RInv, FreshInv, Finished
<1>9. CancelsKnown'
  <2>1. Idle.op \notin {"flag", "write"}
    BY DEF Idle
  <2>2. QED
    BY <1>3, <1>5, <2>1, StillKnown DEF RInv, IInv
<1>10. Step
  BY <1>6, <1>7, Stutter DEF Kept
<1>11. QED
  BY <1>6, <1>8, <1>9, <1>10 DEF RInv

\* A call that creates nothing, before and after a step of it, on unchanged rows.
LEMMA QuietCall ==
    ASSUME RInv, IInv', NEW r \in Request, NEW v,
           req[r].op \notin {"insert", "start"}, v.op \notin {"insert", "start"},
           req' = [req EXCEPT ![r] = v],
           UNCHANGED <<rows, task, worker>>,
           v.op \in {"flag", "write"} => v.scan \in Scan /\ status[v.scan] # "none"
    PROVE  Step /\ RInv'
<1> USE DEF rows
<1>1. \A q \in Request : req'[q] = IF q = r THEN v ELSE req[q]
  BY DEF RInv, IInv, TypeOK
<1>2. \A x \in Scan : Untouched(x) /\ (Calls(x)' <=> Calls(x))
  BY <1>1 DEF Untouched, Calls, Creating
<1>3. \A x \in Scan : Kept(x) /\ FreshInv(x)'
  BY <1>2, UntouchedKept DEF RInv, IInv
<1>4. CancelsKnown'
  BY <1>1 DEF RInv, CancelsKnown
<1>5. Step
  BY <1>3, Stutter DEF Kept
<1>6. QED
  BY <1>3, <1>4, <1>5 DEF RInv

LEMMA CancelReadSteps ==
    ASSUME RInv, IInv', NEW r \in Request, NEW s \in Scan, CancelRead(r, s)
    PROVE  Step /\ RInv'
<1> DEFINE v == [op |-> "flag", scan |-> s, seen |-> status[s]]
<1>1. /\ req[r].op \notin {"insert", "start"} /\ v.op = "flag" /\ v.scan = s
      /\ req' = [req EXCEPT ![r] = v] /\ UNCHANGED <<rows, task, worker>> /\ status[s] # "none"
  BY DEF CancelRead, Idle, memory
<1> HIDE DEF v
<1>2. QED
  BY <1>1, QuietCall

LEMMA CancelFlagSteps ==
    ASSUME RInv, IInv', NEW r \in Request, CancelFlag(r)
    PROVE  Step /\ RInv'
<1> DEFINE v == IF req[r].seen = "queued" THEN [op |-> "write", scan |-> req[r].scan] ELSE Idle
<1>1. req[r].scan \in Scan /\ status[req[r].scan] # "none"
  BY DEF CancelFlag, RInv, CancelsKnown, IInv, TypeOK, Requests, Idle
<1>2. /\ req[r].op = "flag" /\ v.op \in {"write", "idle"}
      /\ v.op = "write" => v.scan = req[r].scan
      /\ req' = [req EXCEPT ![r] = v] /\ UNCHANGED <<rows, task, worker>>
  BY DEF CancelFlag, Idle
<1> HIDE DEF v
<1>3. QED
  BY <1>1, <1>2, QuietCall

\* The late write of a cancel.
LEMMA CancelWriteSteps ==
    ASSUME RInv, IInv', NEW r \in Request, CancelWrite(r)
    PROVE  Step /\ RInv'
<1> USE DEF memory
<1>0. req[r].scan \in Scan /\ status[req[r].scan] # "none" /\ req[r].op = "write"
  BY DEF CancelWrite, RInv, CancelsKnown, IInv, TypeOK, Requests, Idle
<1> PICK s \in Scan : req[r].scan = s
  BY <1>0
<1>1. /\ status' = [status EXCEPT ![s] = "cancelled"] /\ req' = [req EXCEPT ![r] = Idle]
      /\ UNCHANGED <<total, completed, target, auto, task, worker>>
  BY DEF CancelWrite
<1>2. /\ status'[s] = "cancelled" /\ status[s] \in ScanStatus
      /\ \A x \in Scan : status[x] # "none" => status'[x] # "none"
      /\ \A q \in Request : req'[q] = IF q = r THEN Idle ELSE req[q]
  BY <1>0, <1>1 DEF RInv, IInv, TypeOK
<1>3. \A x \in Scan : Calls(x)' <=> Calls(x)
  BY <1>0, <1>2 DEF Calls, Creating, Idle
<1>4. \A x \in Scan \ {s} : Untouched(x)
  BY <1>1 DEF Untouched, RInv, IInv, TypeOK
<1>5. ASSUME NEW x \in Scan \ {s} PROVE Kept(x) /\ FreshInv(x)'
  BY <1>3, <1>4, UntouchedKept DEF RInv, IInv
<1>6. Rows(s)' = Rows(s) /\ Finished(s)' = Finished(s)
  BY <1>1 DEF Rows, Finished
<1>7. FreshInv(s)'
  <2>1. Waits(s)' => Waits(s)
    BY <1>1, <1>2, <1>3 DEF Waits, Calls
  <2>2. QED
    BY <1>1, <1>6, <2>1 DEF RInv, FreshInv
<1>8. CancelsKnown'
  <2>1. Idle.op \notin {"flag", "write"}
    BY DEF Idle
  <2>2. QED
    BY <1>2, <2>1, StillKnown DEF RInv, IInv
<1>9. Phase(s)' = Phase(s) \/ (Phase(s) = status[s] /\ Phase(s)' = "cancelled")
  BY <1>1, <1>2, <1>3, PhaseIs, PhaseIsNext DEF RInv, IInv
<1>10. Step
  BY <1>2, <1>5, <1>6, <1>9, PhaseStep DEF Kept, ScanStatus
<1>11. QED
  BY <1>5, <1>7, <1>8, <1>10 DEF RInv

----------------------------------------------------------------------------
(* The server.                                                             *)

\* The server dies: a scan that had not ended is left at what its row says.
LEMMA CrashSteps ==
    ASSUME RInv, IInv', Crash(Server)
    PROVE  Step /\ RInv'
<1> USE DEF rows, memory, bounds
<1>1. /\ UNCHANGED <<status, target>> /\ \A r \in Request : req'[r] = Idle
      /\ \A s \in Scan : task'[Server][s] = "none"
      /\ \A s \in Scan, a \in Addr : worker'[Server][s][a] = "none"
  BY ServiceAssumption DEF Crash, EndProcess, NoWorkers, RInv, IInv, TypeOK, Tasks, Workers
<1>2. \A s \in Scan : ~Calls(s)'
  BY <1>1 DEF Calls, Creating, Idle
<1>3. \A s \in Scan : Rows(s)' = Rows(s) /\ Finished(s)' = Finished(s)
  BY <1>1 DEF Rows, Finished
<1>4. \A s \in Scan : Phase(s)' = status[s]
  BY <1>1, <1>2, PhaseIsNext DEF IInv, Started, Pending
<1>5. ASSUME NEW s \in Scan, Phase(s) # status[s]
      PROVE  Phase(s) \in {"queued", "running"} /\ status[s] = "cancelled"
  <2>1. CASE task[Server][s] \in Started
    BY <1>5, <2>1, PhaseIs DEF RInv, IInv, ScanInv, TaskInv
  <2>2. CASE task[Server][s] \in Pending
    BY <1>5, <2>2, PhaseIs DEF RInv, IInv, ScanInv, TaskInv
  <2>3. CASE Calls(s)
    <3>1. status[s] \in {"queued", "cancelled"}
      BY <2>3 DEF RInv, IInv, CreationInv, Calls
    <3>2. QED
      BY <1>5, <2>3, <3>1, PhaseIs DEF RInv, IInv
  <2>4. QED
    BY <1>5, <2>1, <2>2, <2>3, PhaseIs DEF RInv, IInv
<1>6. Step
  <2> DEFINE S == {s \in Scan : Phase(s) # status[s]}
  <2>1. /\ S \in SUBSET Scan /\ \A x \in Scan \ S : Phase(x)' = Phase(x)
        /\ \A x \in S : Phase(x) \in {"queued", "running"} /\ Phase(x)' = "cancelled"
    BY <1>4, <1>5
  <2> HIDE DEF S
  <2>2. QED
    BY <1>3, <2>1, ProcessStep
<1>7. \A s \in Scan : FreshInv(s)'
  <2> SUFFICES ASSUME NEW s \in Scan, Waits(s)' PROVE Finished(s)' = {}
    BY <1>1 DEF FreshInv
  <2>1. Waits(s)
    BY <1>1, <1>2 DEF Waits, Calls, Pending
  <2>2. QED
    BY <1>3, <2>1 DEF RInv, FreshInv
<1>8. CancelsKnown'
  BY <1>1 DEF CancelsKnown, Idle
<1>9. QED
  BY <1>6, <1>7, <1>8 DEF RInv

\* The server starts: it gives up what was running, and takes up what was queued.
LEMMA RestartSteps ==
    ASSUME RInv, IInv', Restart
    PROVE  Step /\ RInv'
<1>1. /\ \A s \in Scan : task[Server][s] = "none"
      /\ \A r \in Request : req[r] = Idle
  BY DEF Restart, RInv, IInv, DownInv
<1>2. /\ UNCHANGED <<target, worker, req>>
      /\ \A s \in Scan : status'[s] = IF status[s] = "running" THEN "failed" ELSE status[s]
      /\ \A s \in Scan : task'[Server][s] = IF status[s] = "queued" THEN "waiting" ELSE "none"
  BY <1>1, ServiceAssumption DEF Restart, RInv, IInv, TypeOK, Tasks
<1>3. \A s \in Scan : ~Calls(s) /\ ~Calls(s)'
  BY <1>1, <1>2 DEF Calls, Creating, Idle
<1>4. \A s \in Scan : Rows(s)' = Rows(s) /\ Finished(s)' = Finished(s)
  BY <1>2 DEF Rows, Finished
<1>5. \A s \in Scan : Phase(s) = status[s]
  BY <1>1, <1>3, PhaseIs DEF RInv, IInv, Started, Pending
<1>6. \A s \in Scan : Phase(s)' = status'[s]
  <2> SUFFICES ASSUME NEW s \in Scan PROVE Phase(s)' = status'[s]
    OBVIOUS
  <2>1. CASE status[s] = "queued"
    BY <1>2, <2>1, PhaseIsNext DEF IInv, Pending
  <2>2. CASE status[s] # "queued"
    BY <1>2, <1>3, <2>2, PhaseIsNext DEF IInv, Started, Pending
  <2>3. QED
    BY <2>1, <2>2
<1>7. Step
  <2> DEFINE S == {s \in Scan : status[s] = "running"}
  <2>1. /\ S \in SUBSET Scan /\ \A x \in Scan \ S : Phase(x)' = Phase(x)
        /\ \A x \in S : Phase(x) = "running" /\ Phase(x)' = "failed"
    BY <1>2, <1>5, <1>6
  <2> HIDE DEF S
  <2>2. QED
    BY <1>4, <2>1, ProcessStep
<1>8. \A s \in Scan : FreshInv(s)'
  <2> SUFFICES ASSUME NEW s \in Scan PROVE FreshInv(s)'
    OBVIOUS
  <2>1. Waits(s)' => Waits(s)
    BY <1>2, <1>3 DEF Waits, Calls, Pending
  <2>2. QED
    BY <1>2, <1>4, <2>1 DEF RInv, FreshInv
<1>9. CancelsKnown'
  BY <1>1, <1>2 DEF CancelsKnown, Idle
<1>10. QED
  BY <1>7, <1>8, <1>9 DEF RInv

----------------------------------------------------------------------------
(* The whole service.                                                      *)

LEMMA InitRefines == Init => Contract!Init /\ RInv
<1> SUFFICES ASSUME Init PROVE Contract!Init /\ RInv
  OBVIOUS
<1>1. IInv
  BY InvInit
<1>2. ASSUME NEW s \in Scan
      PROVE  Phase(s) = "none" /\ Rows(s) = {} /\ Finished(s) = {}
  <2>1. /\ status[s] = "none" /\ task[Server][s] = "none" /\ ~Calls(s)
        /\ \A a \in Addr : target[s][a] = "none"
    BY ServiceAssumption DEF Init, Calls, Creating, Idle
  <2>2. Phase(s) = "none"
    BY <1>1, <2>1, PhaseIs DEF IInv, Started, Pending
  <2>3. QED
    BY <2>1, <2>2 DEF Rows, Finished, Done
<1>3. Contract!Init
  BY <1>2 DEF Contract!Init, Finished
<1>4. CancelsKnown
  BY DEF Init, CancelsKnown, Idle
<1>5. \A s \in Scan : FreshInv(s)
  BY <1>2, ServiceAssumption DEF FreshInv, Init, NoWorkers
<1>6. QED
  BY <1>1, <1>3, <1>4, <1>5 DEF RInv

LEMMA NextRefines == Proc = {Server} /\ RInv /\ [Next]_vars => Step /\ RInv'
<1> SUFFICES ASSUME Proc = {Server}, RInv, [Next]_vars PROVE Step /\ RInv'
  OBVIOUS
<1> IInv'
  BY InvNext DEF RInv
<1>1. CASE User
  BY <1>1, CreateScanSteps, RescanScanSteps, CancelReadSteps DEF User, CliCreate
<1>2. CASE Fault
  BY <1>2, CrashPipelineSteps, CrashTargetSteps, CrashSteps DEF Fault
<1>3. CASE \E r \in Request : Endpoint(r)
  BY <1>3, CommitTargetsSteps, StartScanSteps, CancelFlagSteps, CancelWriteSteps DEF Endpoint
<1>4. CASE \E s \in Scan : SpawnTask(s)
  BY <1>4, SpawnTaskSteps
<1>5. CASE \E s \in Scan : Pipeline(Server, s)
  BY <1>5, BeginPipelineSteps, StartTargetSteps, FinishTargetSteps, FailTargetSteps,
     EndRoundSteps, ExpandScanSteps, FinalizeScanSteps
  DEF Pipeline
<1>6. CASE Restart
  BY <1>6, RestartSteps
<1>7. ASSUME NEW s \in Scan, NEW T \in SUBSET Addr, CliCommitTargets(Server, s, T)
      PROVE  Step /\ RInv'
  BY <1>7 DEF CliCommitTargets, RInv, IInv, ScanInv, TaskInv
<1>8. CASE UNCHANGED vars
  <2>1. UNCHANGED <<status, total, completed, target, auto, task, worker, req>>
    BY <1>8 DEF vars, rows, memory
  <2>2. \A s \in Scan : Untouched(s) /\ (Calls(s)' <=> Calls(s))
    BY <2>1 DEF Untouched, Calls, Creating
  <2>3. \A s \in Scan : Kept(s) /\ FreshInv(s)'
    BY <2>2, UntouchedKept DEF RInv, IInv
  <2>4. CancelsKnown'
    BY <2>1 DEF RInv, CancelsKnown
  <2>5. Step
    BY <2>3, Stutter DEF Kept
  <2>6. QED
    BY <2>3, <2>4, <2>5 DEF RInv
<1>9. QED
  BY <1>1, <1>2, <1>3, <1>4, <1>5, <1>6, <1>7, <1>8 DEF Next

\* The service, without command-line runs on its database, implements its
\* contract: each scan is submitted once and runs at most once, work that is
\* done stays done, and a scan is reported as completed only when every target
\* it lists is done.
THEOREM Refinement ==
    ASSUME Proc = {Server}
    PROVE  Spec => ImplementsContract
<1>1. Init => Contract!Init /\ RInv
  BY InitRefines
<1>2. RInv /\ [Next]_vars => Step /\ RInv'
  BY NextRefines
<1>3. QED
  BY <1>1, <1>2, PTL DEF Spec, ImplementsContract, Contract!Spec, Step
=============================================================================

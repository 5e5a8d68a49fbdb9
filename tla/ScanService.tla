---------------------------- MODULE ScanService ----------------------------
(***************************************************************************)
(* The life of a scan: the HTTP endpoints that create, rescan and cancel   *)
(* it (threads of a pool), the ScanManager and the pipeline that run it    *)
(* (coroutines of one event loop), the startup recovery, and the command   *)
(* line, which runs the same pipeline in a process of its own.  All of     *)
(* them share the scans and targets tables of one SQLite database; the     *)
(* tasks and the set of cancelled scans live in the memory of one process. *)
(*                                                                         *)
(* One action is what runs between two points where another actor can get  *)
(* in: an await of the event loop, or a commit of a worker thread.         *)
(***************************************************************************)
EXTENDS Naturals, FiniteSets

CONSTANTS
    Scan,               \* scan ids
    Addr,               \* contract addresses
    Proc,               \* processes: the server and the command-line runs
    Server,             \* the one that serves the API
    Request,            \* worker threads that serve an endpoint call
    MaxParallelScans,   \* settings.max_parallel_scans
    MaxParallelTargets, \* settings.max_parallel_targets
    CompanionCap,       \* _companion_expansion_cap
    MaxCrashes,         \* bound: process deaths
    MaxFaults           \* bound: exceptions that escape process() or a pipeline

ASSUME ServiceAssumption ==
    /\ IsFiniteSet(Scan) /\ IsFiniteSet(Addr)
    /\ Server \in Proc
    /\ MaxParallelScans \in Nat \ {0} /\ MaxParallelTargets \in Nat \ {0}
    /\ CompanionCap \in Nat /\ MaxCrashes \in Nat /\ MaxFaults \in Nat

VARIABLES
    status,     \* scans.status; "none" before the row exists
    total,      \* scans.total_targets
    completed,  \* scans.completed_targets
    target,     \* targets.status by scan and address; "none" without a row
    auto,       \* addresses of a scan whose label marks them as companions
    up,         \* processes alive
    cancelled,  \* ScanManager._cancelled of the server
    task,       \* ScanManager._tasks: where the task of a scan stands
    worker,     \* the process(tid) coroutines of a pipeline
    req,        \* the endpoint call a worker thread is in
    crashes, faults

rows   == <<status, total, completed, target, auto>>
memory == <<up, cancelled, task, worker>>
bounds == <<crashes, faults>>
vars   == <<rows, memory, req, bounds>>

ScanStatus   == {"queued", "running", "completed", "failed", "cancelled"}
Done         == {"completed", "failed"}
TargetStatus == {"queued", "working"} \cup Done
Idle         == [op |-> "idle"]

\* A command-line run passes "created" (its scan row committed, its target
\* rows not yet) before "waiting"; a task posted with call_soon_threadsafe
\* passes "posted"; "round" is the gather, "expand" the companion expansion.
Started   == {"round", "expand", "finalize"}
Pending   == {"created", "posted", "waiting"}
TaskState == {"none", "ended"} \cup Pending \cup Started
Live(p, s) == task[p][s] \in Pending \cup Started

Rows(s)       == {a \in Addr : target[s][a] # "none"}

CountDone(ts) == Cardinality({a \in Addr : ts[a] \in Done})
\* Faulty variant: the pipeline looks at no flag.
NeverCancelled(p, s) == FALSE

IsCancelled(p, s) == p = Server /\ s \in cancelled

NoWorkers == [a \in Addr |-> "none"]

Init ==
    /\ status = [s \in Scan |-> "none"]
    /\ total = [s \in Scan |-> 0] /\ completed = [s \in Scan |-> 0]
    /\ target = [s \in Scan |-> [a \in Addr |-> "none"]]
    /\ auto = [s \in Scan |-> {}]
    /\ up = {Server}
    /\ cancelled = {}
    /\ task = [p \in Proc |-> [s \in Scan |-> "none"]]
    /\ worker = [p \in Proc |-> [s \in Scan |-> NoWorkers]]
    /\ req = [r \in Request |-> Idle]
    /\ crashes = 0 /\ faults = 0

----------------------------------------------------------------------------
(* The endpoints.  _create_scan_record commits the scan row and then the  *)
(* target rows; start_scan follows.                                       *)

\* Faulty variant: an id that is taken is used again.
InsertScanAnywhere(s, n) ==
    /\ status' = [status EXCEPT ![s] = "queued"]
    /\ total' = [total EXCEPT ![s] = n]

InsertScan(s, n) ==
    /\ status[s] = "none"
    /\ status' = [status EXCEPT ![s] = "queued"]
    /\ total' = [total EXCEPT ![s] = n]

InsertTargets(s, T, C) ==
    /\ target' = [target EXCEPT ![s] = [a \in Addr |-> IF a \in T THEN "queued" ELSE "none"]]
    /\ auto' = [auto EXCEPT ![s] = C]

CreateScan(r, s, T) ==
    /\ Server \in up /\ req[r] = Idle
    /\ T # {}
    /\ InsertScan(s, Cardinality(T))
    /\ req' = [req EXCEPT ![r] = [op |-> "insert", scan |-> s, targets |-> T, auto |-> {}]]
    /\ UNCHANGED <<completed, target, auto, memory, bounds>>

RescanScan(r, old, s) ==
    /\ Server \in up /\ req[r] = Idle
    /\ status[old] \in {"failed", "cancelled"}
    /\ Rows(old) # {}
    /\ InsertScan(s, Cardinality(Rows(old)))
    /\ req' = [req EXCEPT ![r] = [op |-> "insert", scan |-> s,
                                  targets |-> Rows(old), auto |-> auto[old]]]
    /\ UNCHANGED <<completed, target, auto, memory, bounds>>

CommitTargets(r) ==
    /\ req[r].op = "insert"
    /\ InsertTargets(req[r].scan, req[r].targets, req[r].auto)
    /\ req' = [req EXCEPT ![r] = [op |-> "start", scan |-> req[r].scan]]
    /\ UNCHANGED <<status, total, completed, memory, bounds>>

\* start_scan from a thread: nothing for a task that is not done; otherwise
\* the flag of an earlier cancel goes and the loop is asked for a task.
StartScan(r) ==
    /\ req[r].op = "start"
    /\ \/ /\ Live(Server, req[r].scan)
          /\ UNCHANGED <<cancelled, task>>
       \/ /\ ~Live(Server, req[r].scan)
          /\ cancelled' = cancelled \ {req[r].scan}
          /\ task' = [task EXCEPT ![Server][req[r].scan] = "posted"]
    /\ req' = [req EXCEPT ![r] = Idle]
    /\ UNCHANGED <<rows, up, worker, bounds>>

\* cancel_scan reads the row, raises the flag, and only for a scan it read as
\* QUEUED writes CANCELLED, whatever the row holds by then.
CancelRead(r, s) ==
    /\ Server \in up /\ req[r] = Idle
    /\ status[s] # "none"
    /\ req' = [req EXCEPT ![r] = [op |-> "flag", scan |-> s, seen |-> status[s]]]
    /\ UNCHANGED <<rows, memory, bounds>>

CancelFlag(r) ==
    /\ req[r].op = "flag"
    /\ cancelled' = cancelled \cup {req[r].scan}
    /\ req' = [req EXCEPT ![r] = IF req[r].seen = "queued"
                                 THEN [op |-> "write", scan |-> req[r].scan] ELSE Idle]
    /\ UNCHANGED <<rows, up, task, worker, bounds>>

CancelWrite(r) ==
    /\ req[r].op = "write"
    /\ status' = [status EXCEPT ![req[r].scan] = "cancelled"]
    /\ req' = [req EXCEPT ![r] = Idle]
    /\ UNCHANGED <<total, completed, target, auto, memory, bounds>>

----------------------------------------------------------------------------
(* The pipeline of scan s in process p.                                   *)

\* The loop runs _spawn: the task exists and queues for the scan semaphore.
SpawnTask(s) ==
    /\ task[Server][s] = "posted"
    /\ task' = [task EXCEPT ![Server][s] = "waiting"]
    /\ UNCHANGED <<rows, up, cancelled, worker, req, bounds>>

RunningScans == {s \in Scan : task[Server][s] \in Started}
\* Faulty variant: no scan semaphore.
SlotAlwaysFree(p) == TRUE

SlotFree(p)  == p = Server => Cardinality(RunningScans) < MaxParallelScans

\* The first commit of run_scan_pipeline and its gather, without an await
\* between them.  The command line takes no semaphore.
BeginPipeline(p, s) ==
    /\ task[p][s] = "waiting"
    /\ SlotFree(p)
    /\ status' = [status EXCEPT ![s] = "running"]
    /\ task' = [task EXCEPT ![p][s] = IF Rows(s) = {} THEN "finalize" ELSE "round"]
    /\ worker' = [worker EXCEPT ![p][s] =
                    [a \in Addr |-> IF a \in Rows(s) THEN "waiting" ELSE "none"]]
    /\ UNCHANGED <<total, completed, target, auto, up, cancelled, req, bounds>>

ActiveTargets(p, s) == {a \in Addr : worker[p][s][a] = "active"}

\* process(tid) once it holds the target semaphore.
StartTarget(p, s, a) ==
    /\ worker[p][s][a] = "waiting"
    /\ Cardinality(ActiveTargets(p, s)) < MaxParallelTargets
    /\ \/ /\ IsCancelled(p, s)
          /\ worker' = [worker EXCEPT ![p][s][a] = "ended"]
          /\ UNCHANGED target
       \/ /\ ~IsCancelled(p, s)
          /\ worker' = [worker EXCEPT ![p][s][a] = "active"]
          /\ target' = [target EXCEPT ![s][a] = "working"]
    /\ UNCHANGED <<status, total, completed, auto, up, cancelled, task, req, bounds>>

\* The last lines of process_target.  A cancelled target ends the same way:
\* the flag only breaks the loop over its candidates.
FinishTarget(p, s, a) ==
    /\ worker[p][s][a] = "active"
    /\ worker' = [worker EXCEPT ![p][s][a] = "ended"]
    /\ target' = [target EXCEPT ![s][a] = "completed"]
    /\ completed' = [completed EXCEPT ![s] = CountDone(target'[s])]
    /\ UNCHANGED <<status, total, auto, up, cancelled, task, req, bounds>>

\* process() catches what process_target raises; the counter waits for the
\* next target that finishes, or for the end.
FailTarget(p, s, a) ==
    /\ worker[p][s][a] = "active"
    /\ worker' = [worker EXCEPT ![p][s][a] = "ended"]
    /\ target' = [target EXCEPT ![s][a] = "failed"]
    /\ UNCHANGED <<status, total, completed, auto, up, cancelled, task, req, bounds>>

\* Faulty variant: the round is not awaited.
EndRoundUnawaited(p, s) ==
    /\ task[p][s] = "round"
    /\ task' = [task EXCEPT ![p][s] = IF IsCancelled(p, s) THEN "finalize" ELSE "expand"]
    /\ UNCHANGED <<rows, up, cancelled, worker, req, bounds>>

\* After a round: the merged graph is written, then the cancel check.
EndRound(p, s) ==
    /\ task[p][s] = "round"
    /\ \A a \in Addr : worker[p][s][a] \in {"none", "ended"}
    /\ task' = [task EXCEPT ![p][s] = IF IsCancelled(p, s) THEN "finalize" ELSE "expand"]
    /\ UNCHANGED <<rows, up, cancelled, worker, req, bounds>>

\* Faulty variant: the cap is per round.
CompanionRoomPerRound(s, New) == Cardinality(New) <= CompanionCap

\* _add_companion_targets counts the companions of earlier rounds.
CompanionRoom(s, New) == Cardinality(auto[s] \cup New) <= CompanionCap

\* _add_companion_targets, whose thread reads and commits, and the next
\* round.  Which companions the graph suggests is left open.
ExpandScan(p, s) ==
    /\ task[p][s] = "expand"
    /\ \/ /\ task' = [task EXCEPT ![p][s] = "finalize"]
          /\ UNCHANGED <<total, target, auto, worker>>
       \/ \E New \in SUBSET (Addr \ Rows(s)) \ {{}} :
            /\ CompanionRoom(s, New)
            /\ target' = [target EXCEPT ![s] =
                            [a \in Addr |-> IF a \in New THEN "queued" ELSE target[s][a]]]
            /\ auto' = [auto EXCEPT ![s] = auto[s] \cup New]
            /\ total' = [total EXCEPT ![s] = Cardinality(Rows(s) \cup New)]
            /\ worker' = [worker EXCEPT ![p][s] =
                            [a \in Addr |-> IF a \in New THEN "waiting" ELSE worker[p][s][a]]]
            /\ task' = [task EXCEPT ![p][s] = "round"]
    /\ UNCHANGED <<status, completed, up, cancelled, req, bounds>>

\* A process that ends takes its tasks with it; the rows stay.
EndProcess(p) ==
    /\ up' = up \ {p}
    /\ task' = [task EXCEPT ![p] = [s \in Scan |-> "none"]]
    /\ worker' = [worker EXCEPT ![p] = [s \in Scan |-> NoWorkers]]

\* The last commit; a command-line run exits after it.
FinalizeScan(p, s) ==
    /\ task[p][s] = "finalize"
    /\ completed' = [completed EXCEPT ![s] = CountDone(target[s])]
    /\ status' = [status EXCEPT ![s] = IF IsCancelled(p, s) THEN "cancelled" ELSE "completed"]
    /\ \/ /\ p = Server
          /\ task' = [task EXCEPT ![p][s] = "ended"]
          /\ UNCHANGED <<up, worker>>
       \/ p # Server /\ EndProcess(p)
    /\ UNCHANGED <<total, target, auto, cancelled, req, bounds>>

\* Faulty variant: _run_scan swallows the exception.
PipelineRaisesSilently(p, s, w) ==
    /\ \/ /\ p = Server
          /\ task' = [task EXCEPT ![p][s] = "ended"]
          /\ worker' = w
          /\ UNCHANGED up
       \/ p # Server /\ EndProcess(p)
    /\ UNCHANGED <<rows, cancelled, req, crashes>>

\* Faulty variant: the scan is marked failed and goes on.
PipelineRaisesAndGoesOn(p, s, w) ==
    /\ \/ /\ p = Server
          /\ status' = [status EXCEPT ![s] = "failed"]
          /\ worker' = w
          /\ UNCHANGED <<up, task>>
       \/ p # Server /\ UNCHANGED status /\ EndProcess(p)
    /\ UNCHANGED <<total, completed, target, auto, cancelled, req, crashes>>

\* An exception that leaves the pipeline: _run_scan marks the scan failed and
\* frees the slot, and w is what its coroutines are left at; on the command
\* line nobody writes a status, and the process exits.
PipelineRaises(p, s, w) ==
    /\ \/ /\ p = Server
          /\ status' = [status EXCEPT ![s] = "failed"]
          /\ task' = [task EXCEPT ![p][s] = "ended"]
          /\ worker' = w
          /\ UNCHANGED up
       \/ p # Server /\ UNCHANGED status /\ EndProcess(p)
    /\ UNCHANGED <<total, completed, target, auto, cancelled, req, crashes>>

CrashPipeline(p, s) ==
    /\ faults < MaxFaults /\ faults' = faults + 1
    /\ \/ task[p][s] = "waiting" /\ SlotFree(p)
       \/ task[p][s] \in {"expand", "finalize"}
    /\ PipelineRaises(p, s, worker)

\* The except branch of process() raises in its turn (its own commit fails).
\* gather hands the first such exception to the pipeline and leaves the other
\* coroutines running.
CrashTarget(p, s, a) ==
    /\ faults < MaxFaults /\ faults' = faults + 1
    /\ worker[p][s][a] = "active"
    /\ \/ /\ task[p][s] = "round"
          /\ PipelineRaises(p, s, [worker EXCEPT ![p][s][a] = "ended"])
       \/ /\ task[p][s] # "round"
          /\ worker' = [worker EXCEPT ![p][s][a] = "ended"]
          /\ UNCHANGED <<rows, up, cancelled, task, req, crashes>>

----------------------------------------------------------------------------
(* Processes.                                                             *)

\* Graceful or not, a stop of the server loses tasks, flags and requests:
\* cancellation at shutdown is no Exception, so no handler writes a status.
Crash(p) ==
    /\ p \in up /\ crashes < MaxCrashes
    /\ EndProcess(p)
    /\ \/ p = Server /\ cancelled' = {} /\ req' = [r \in Request |-> Idle]
       \/ p # Server /\ UNCHANGED <<cancelled, req>>
    /\ crashes' = crashes + 1
    /\ UNCHANGED <<rows, faults>>

\* Faulty variant: queued scans are not started again.
RestartForgetsQueued ==
    /\ Server \notin up
    /\ up' = up \cup {Server}
    /\ status' = [s \in Scan |-> IF status[s] = "running" THEN "failed" ELSE status[s]]
    /\ UNCHANGED <<total, completed, target, auto, cancelled, task, worker, req, bounds>>

\* _recover_interrupted_scans.
Restart ==
    /\ Server \notin up
    /\ up' = up \cup {Server}
    /\ status' = [s \in Scan |-> IF status[s] = "running" THEN "failed" ELSE status[s]]
    /\ task' = [task EXCEPT ![Server] =
                [s \in Scan |-> IF status[s] = "queued" THEN "waiting" ELSE task[Server][s]]]
    /\ UNCHANGED <<total, completed, target, auto, cancelled, worker, req, bounds>>

\* _cli_scan: the two commits, then the pipeline.
CliCreate(p, s, n) ==
    /\ p # Server /\ p \notin up
    /\ InsertScan(s, n)
    /\ up' = up \cup {p}
    /\ task' = [task EXCEPT ![p][s] = "created"]
    /\ UNCHANGED <<completed, target, auto, cancelled, worker, req, bounds>>

CliCommitTargets(p, s, T) ==
    /\ task[p][s] = "created"
    /\ Cardinality(T) = total[s]
    /\ InsertTargets(s, T, {})
    /\ task' = [task EXCEPT ![p][s] = "waiting"]
    /\ UNCHANGED <<status, total, completed, up, cancelled, worker, req, bounds>>

----------------------------------------------------------------------------
Endpoint(r) == CommitTargets(r) \/ StartScan(r) \/ CancelFlag(r) \/ CancelWrite(r)

Pipeline(p, s) ==
    \/ BeginPipeline(p, s)
    \/ \E a \in Addr : \/ StartTarget(p, s, a)
                       \/ FinishTarget(p, s, a)
                       \/ FailTarget(p, s, a)
    \/ EndRound(p, s) \/ ExpandScan(p, s) \/ FinalizeScan(p, s)

User ==
    \/ \E r \in Request, s \in Scan :
         \/ \E T \in SUBSET Addr : CreateScan(r, s, T)
         \/ \E old \in Scan : RescanScan(r, old, s)
         \/ CancelRead(r, s)
    \/ \E p \in Proc, s \in Scan : \E n \in 1..Cardinality(Addr) : CliCreate(p, s, n)

Fault ==
    \/ \E p \in Proc, s \in Scan :
         CrashPipeline(p, s) \/ \E a \in Addr : CrashTarget(p, s, a)
    \/ \E p \in Proc : Crash(p)

Next ==
    \/ User
    \/ Fault
    \/ \E r \in Request : Endpoint(r)
    \/ \E s \in Scan : SpawnTask(s)
    \/ \E p \in Proc, s \in Scan :
         Pipeline(p, s) \/ \E T \in SUBSET Addr : CliCommitTargets(p, s, T)
    \/ Restart

Spec == Init /\ [][Next]_vars

\* Threads, the event loop and a command-line run make progress; every await
\* of a pipeline is on a call with a timeout.  Users, faults and the operator
\* who restarts the server promise nothing.
Fairness ==
    /\ \A r \in Request : WF_vars(Endpoint(r))
    /\ \A s \in Scan : WF_vars(SpawnTask(s))
    /\ \A p \in Proc, s \in Scan :
         /\ WF_vars(Pipeline(p, s))
         /\ WF_vars(\E T \in SUBSET Addr : CliCommitTargets(p, s, T))

FairSpec == Spec /\ Fairness

----------------------------------------------------------------------------
Requests ==
    {Idle}
    \cup [op : {"insert"}, scan : Scan, targets : SUBSET Addr, auto : SUBSET Addr]
    \cup [op : {"start", "write"}, scan : Scan]
    \cup [op : {"flag"}, scan : Scan, seen : ScanStatus]

Targets == [Scan -> [Addr -> TargetStatus \cup {"none"}]]
Tasks   == [Proc -> [Scan -> TaskState]]
Workers == [Proc -> [Scan -> [Addr -> {"none", "waiting", "active", "ended"}]]]

\* Every variable has its type.
TypeOK ==
    /\ status \in [Scan -> ScanStatus \cup {"none"}]
    /\ total \in [Scan -> Nat] /\ completed \in [Scan -> Nat]
    /\ target \in Targets
    /\ auto \in [Scan -> SUBSET Addr]
    /\ up \subseteq Proc
    /\ cancelled \subseteq Scan
    /\ task \in Tasks
    /\ worker \in Workers
    /\ req \in [Request -> Requests]
    /\ crashes \in Nat /\ faults \in Nat

\* A scan reported as completed has every one of its targets completed or
\* failed, counts all of them, and no coroutine is still at work on it.
CompletedIsCovered ==
    \A s \in Scan : status[s] = "completed" =>
        /\ \A a \in Rows(s) : target[s][a] \in Done
        /\ completed[s] = Cardinality(Rows(s))
        /\ \A p \in Proc, a \in Addr : worker[p][s][a] \in {"none", "ended"}

\* The progress of a scan never passes its total, and the total is the number
\* of its target rows as soon as there are any.
ProgressIsBounded ==
    \A s \in Scan :
        /\ completed[s] <= total[s]
        /\ Rows(s) # {} => total[s] = Cardinality(Rows(s))

\* While the server is up, a scan that says RUNNING is being run.
RunningIsRun ==
    Server \in up =>
        \A s \in Scan : status[s] = "running" => \E p \in Proc : task[p][s] \in Started

\* While the server is up, no scan sits QUEUED for ever: a task exists for it
\* or an endpoint call that is about to ask for one.
QueuedIsHeard ==
    Server \in up =>
        \A s \in Scan : status[s] = "queued" =>
            \/ \E p \in Proc : task[p][s] \in Pending
            \/ \E r \in Request : req[r].op \in {"insert", "start"} /\ req[r].scan = s

\* A scan marked failed is not being run by any process.
FailedIsIdle ==
    \A s \in Scan : status[s] = "failed" => \A p \in Proc : ~Live(p, s)

\* Coroutines outlive the pipeline that gathered them only if it failed.
StrayWorkMeansFailure ==
    \A p \in Proc, s \in Scan, a \in Addr :
        worker[p][s][a] \in {"waiting", "active"} /\ task[p][s] # "round" =>
            status[s] \in {"failed", "cancelled"}

\* The server never works on more targets than the two limits allow.
WorkIsBounded ==
    Cardinality({sa \in Scan \X Addr : worker[Server][sa[1]][sa[2]] = "active"})
        <= MaxParallelScans * MaxParallelTargets

\* Companion expansion stops at its cap, over all rounds and through rescans.
CompanionsAreBounded == \A s \in Scan : Cardinality(auto[s]) <= CompanionCap

\* At most one process runs a scan.
OnePipelinePerScan ==
    \A s \in Scan, p, q \in Proc : Live(p, s) /\ Live(q, s) => p = q

\* A cancel flag raised while the server has the scan in hand is kept until
\* the scan is over, and such a scan does not end as completed.
CancelSticks ==
    [][\A s \in Scan : s \in cancelled /\ Live(Server, s) =>
          /\ status'[s] # "completed"
          /\ s \in cancelled' \/ Server \notin up']_vars

\* A scan is completed only with as many targets done as it was created with.
CompletedMatchesRequest ==
    \A s \in Scan : status[s] = "completed" => completed[s] = total[s]

\* If the server stays up in the end, every scan comes to a status it keeps
\* leaving only for another final one.
EveryScanEnds ==
    <>[](Server \in up) =>
        \A s \in Scan : status[s] # "none" ~> [](status[s] \in {"completed", "failed", "cancelled"})

\* A cancel flag raised while the server has the scan in hand ends it, unless
\* the server dies and forgets the flag.
CancelEnds ==
    \A s \in Scan : s \in cancelled /\ Live(Server, s) ~>
        status[s] \in {"cancelled", "failed"} \/ Server \notin up

----------------------------------------------------------------------------
(* The inductive invariant of a service without command-line runs: what    *)
(* the rows of a scan, its task, its coroutines and the endpoint call that *)
(* is creating it can be at the same time.                                 *)

Creating(r, s) == req[r].op \in {"insert", "start"} /\ req[r].scan = s
Covered(s)     == \A a \in Addr : target[s][a] \in Done \cup {"none"}

CreationInv ==
    \A r \in Request, s \in Scan : Creating(r, s) =>
        /\ task[Server][s] = "none"
        /\ status[s] \in {"queued", "cancelled"}
        /\ \A q \in Request : Creating(q, s) => q = r
        /\ req[r].op = "insert" =>
             /\ Rows(s) = {}
             /\ total[s] = Cardinality(req[r].targets)
             /\ Cardinality(req[r].auto) <= CompanionCap

DownInv ==
    Server \notin up =>
        /\ \A s \in Scan : task[Server][s] = "none"
        /\ \A r \in Request : req[r] = Idle

\* The row against the task.
TaskInv(s) ==
    /\ status[s] = "none" => task[Server][s] = "none" /\ Rows(s) = {} /\ completed[s] = 0
    /\ task[Server][s] # "created"
    /\ task[Server][s] \in Pending => status[s] \in {"queued", "cancelled"}
    /\ task[Server][s] \in Started => status[s] \in {"running", "cancelled"}
    /\ Server \in up /\ status[s] = "running" => task[Server][s] \in Started
    /\ Server \in up /\ status[s] = "queued" =>
         task[Server][s] \in Pending \/ \E r \in Request : Creating(r, s)

\* The task against its coroutines.
WorkerInv(s) ==
    \A a \in Addr :
        /\ worker[Server][s][a] # "none" =>
             target[s][a] # "none" /\ task[Server][s] \in Started \cup {"ended"}
        /\ worker[Server][s][a] \in {"waiting", "active"} =>
             \/ task[Server][s] = "round"
             \/ task[Server][s] = "ended" /\ status[s] \in {"failed", "cancelled"}

\* The coroutines against the target rows.
RoundInv(s) ==
    /\ task[Server][s] \in {"round", "expand"} => \A a \in Rows(s) : worker[Server][s][a] # "none"
    /\ task[Server][s] = "round" =>
         \A a \in Rows(s) :
            worker[Server][s][a] = "ended" => target[s][a] \in Done \/ s \in cancelled
    /\ task[Server][s] = "expand" => Covered(s)
    /\ task[Server][s] = "finalize" => Covered(s) \/ s \in cancelled

CompletedInv(s) ==
    status[s] = "completed" =>
        /\ task[Server][s] \in {"none", "ended"}
        /\ Covered(s)
        /\ completed[s] = Cardinality(Rows(s))

CountInv(s) ==
    /\ completed[s] <= Cardinality(Rows(s))
    /\ Rows(s) # {} => total[s] = Cardinality(Rows(s))
    /\ Cardinality(auto[s]) <= CompanionCap

ScanInv(s) == TaskInv(s) /\ WorkerInv(s) /\ RoundInv(s) /\ CompletedInv(s) /\ CountInv(s)

IInv == TypeOK /\ CreationInv /\ DownInv /\ \A s \in Scan : ScanInv(s)

----------------------------------------------------------------------------
(* The invariant behind the counts of a scan, for any number of processes: *)
(* a scan that a call or a command-line run is creating has no target yet, *)
(* and one that is past its first round has some.                          *)

Inserting(r, s) == req[r].op = "insert" /\ req[r].scan = s

CountsOf(s) ==
    /\ CountInv(s)
    /\ status[s] = "none" => Rows(s) = {}
    /\ \A p \in Proc :
         /\ task[p][s] \in {"round", "expand"} => Rows(s) # {}
         /\ \A a \in Addr : worker[p][s][a] # "none" => a \in Rows(s)
         /\ task[p][s] = "created" =>
              /\ status[s] # "none" /\ Rows(s) = {}
              /\ \A q \in Proc : task[q][s] = "created" => q = p
    /\ \A r \in Request : Inserting(r, s) =>
         /\ status[s] # "none" /\ Rows(s) = {}
         /\ total[s] = Cardinality(req[r].targets)
         /\ Cardinality(req[r].auto) <= CompanionCap
         /\ \A q \in Request : Inserting(q, s) => q = r
         /\ \A p \in Proc : task[p][s] # "created"

CountsInv == \A s \in Scan : CountsOf(s)

----------------------------------------------------------------------------
(* The contract, for a service without command-line runs.  What a scan is  *)
(* doing is read off its task and the calls in flight; the row decides     *)
(* when there are none, since a cancel may write it early or late.         *)

Phase(s) ==
    CASE task[Server][s] \in Started -> "running"
      [] \/ task[Server][s] \in Pending
         \/ \E r \in Request : Creating(r, s) -> "queued"
      [] OTHER -> status[s]

Contract == INSTANCE ScanContract WITH
    phase    <- [s \in Scan |-> Phase(s)],
    listed   <- [s \in Scan |-> Rows(s)],
    finished <- [s \in Scan |-> {a \in Addr : target[s][a] \in Done}]

\* The service implements the contract.
ImplementsContract == Contract!Spec
=============================================================================

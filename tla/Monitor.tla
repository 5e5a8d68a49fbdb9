------------------------------ MODULE Monitor ------------------------------
(***************************************************************************)
(* Continuous monitoring: a watchlist of contracts, each with the on-chain *)
(* state last seen (the baseline), and checks that compare the chain with  *)
(* it, record what moved, create a rescan and move the baseline.  A check  *)
(* runs in a worker thread, for the loop of the WatchManager or for an     *)
(* endpoint that checks at once; the rescan it created is started by the   *)
(* event loop when the thread has returned.                                *)
(*                                                                         *)
(* One action is one session with the database, one read of the chain, or  *)
(* what the event loop does between two awaits.                            *)
(***************************************************************************)
EXTENDS Integers, Sequences, FiniteSets

CONSTANTS
    Addr,           \* contract addresses
    Value,          \* what an implementation, a code hash, an admin can be
    MaxWatch,       \* bound: ids of watch rows
    Caller,         \* worker threads that serve a call to check_now
    Adder,          \* worker threads that serve a call to add_watch
    AutoStart,      \* settings.enable_monitor
    MaxChanges,     \* bound: changes of the chain
    MaxDeletes,     \* bound: rows the users delete
    MaxCrashes,     \* bound: deaths of the server
    MaxFaults       \* bound: exceptions that end a check

ASSUME MonitorAssumption ==
    /\ MaxWatch \in Nat /\ AutoStart \in BOOLEAN
    /\ MaxChanges \in Nat /\ MaxDeletes \in Nat /\ MaxCrashes \in Nat /\ MaxFaults \in Nat
    /\ "none" \notin Value \cup Addr /\ "loop" \notin Caller \cup Adder
    /\ Caller \cap Adder = {} /\ IsFiniteSet(Adder)

VARIABLES
    chain,      \* the chain: implementation, code and admin of each address
    watch,      \* watch_targets by id
    event,      \* watch_events
    scan,       \* the scans created by checks, in order
    check,      \* what each thread is doing
    running,    \* WatchManager._running
    loop,       \* WatchManager._loop: "none", "sleep", "sweep"
    due,        \* the rows the loop has still to check in this sweep
    up,         \* the server is alive
    changes, deletes, crashes, faults

table   == <<watch, event, scan>>
manager == <<running, loop, due>>
bounds  == <<changes, deletes, crashes, faults>>
vars    == <<chain, table, check, manager, up, bounds>>

\* The admin stands for the owner as well: they are treated alike.
Field == {"impl", "code", "admin"}
Seen  == Value \cup {"none"}
Blank == [f \in Field |-> "none"]
NoRow == [addr |-> "none", base |-> Blank, checked |-> FALSE]

Id      == 1..MaxWatch
Rows    == {w \in Id : watch[w] # NoRow}
Checker == Caller \cup {"loop"}
Thread  == Checker \cup Adder
Idle    == [pc |-> "idle"]

\* SQLite gives a new row the largest id in use plus one.
NewId == IF Rows = {} THEN 1 ELSE 1 + CHOOSE w \in Rows : \A v \in Rows : v <= w

Init ==
    /\ chain \in [Addr -> [Field -> Seen]]
    /\ watch = [w \in Id |-> NoRow] /\ event = {} /\ scan = <<>>
    /\ check = [c \in Thread |-> Idle]
    /\ running = AutoStart /\ due = {} /\ up = TRUE
    /\ loop = IF AutoStart THEN "sleep" ELSE "none"
    /\ changes = 0 /\ deletes = 0 /\ crashes = 0 /\ faults = 0

----------------------------------------------------------------------------
(* The chain and the watchlist.                                           *)

ChainChanges(a, f) ==
    /\ changes < MaxChanges /\ changes' = changes + 1
    /\ \E v \in Seen \ {chain[a][f]} : chain' = [chain EXCEPT ![a][f] = v]
    /\ UNCHANGED <<table, check, manager, up, deletes, crashes, faults>>

\* add_watch reads the addresses it has and commits the new row.
AddRead(c, a) ==
    /\ up /\ check[c] = Idle
    /\ \A w \in Rows : watch[w].addr # a
    /\ NewId + Cardinality({d \in Adder : check[d].pc = "add"}) <= MaxWatch
    /\ check' = [check EXCEPT ![c] = [pc |-> "add", addr |-> a]]
    /\ UNCHANGED <<chain, table, manager, up, bounds>>

AddCommit(c) ==
    /\ check[c].pc = "add"
    /\ watch' = [watch EXCEPT ![NewId] =
                    [addr |-> check[c].addr, base |-> Blank, checked |-> FALSE]]
    /\ check' = [check EXCEPT ![c] = Idle]
    /\ UNCHANGED <<chain, event, scan, manager, up, bounds>>

\* delete_watch, with the cascade to the events of the row.
DeleteWatch(w) ==
    /\ up /\ w \in Rows
    /\ deletes < MaxDeletes /\ deletes' = deletes + 1
    /\ watch' = [watch EXCEPT ![w] = NoRow]
    /\ event' = {e \in event : e.watch # w}
    /\ UNCHANGED <<chain, scan, check, manager, up, changes, crashes, faults>>

----------------------------------------------------------------------------
(* check_watch_target.                                                    *)

\* The first session: the row as it is now.
Reading(w) ==
    [pc |-> "code", watch |-> w, addr |-> watch[w].addr, prev |-> watch[w].base,
     first |-> ~watch[w].checked, obs |-> Blank, todo |-> {}, scan |-> 0]

\* No connection: the error is recorded, the row stays due.
RpcDown(c) ==
    /\ check[c].pc = "code"
    /\ event' = event \cup {[watch |-> check[c].watch, field |-> "error",
                             old |-> "none", new |-> "none", scan |-> 0]}
    /\ check' = [check EXCEPT ![c].pc = "return"]
    /\ UNCHANGED <<chain, watch, scan, manager, up, bounds>>

\* A read that fails gives None, as does an address without the thing read.
ReadCode(c) ==
    /\ check[c].pc = "code"
    /\ \E v \in {"none", chain[check[c].addr].code} :
          check' = [check EXCEPT ![c].pc = "proxy", ![c].obs.code = v]
    /\ UNCHANGED <<chain, table, manager, up, bounds>>

\* What the check reports: nothing on the first one; a code hash only for a
\* contract that shows no implementation.
Moved(k, obs) ==
    {f \in Field : /\ ~k.first
                   /\ k.prev[f] # "none" /\ obs[f] \notin {"none", k.prev[f]}
                   /\ f = "code" => obs["impl"] = "none"}

\* An upgrade or a redeployment calls for a rescan.
CallsForScan(todo) == todo \cap {"impl", "code"} # {}

ReadProxy(c) ==
    /\ check[c].pc = "proxy"
    /\ \E i \in {"none", chain[check[c].addr].impl}, a \in {"none", chain[check[c].addr].admin} :
          LET obs  == [check[c].obs EXCEPT !.impl = i, !.admin = a]
              todo == Moved(check[c], obs)
          IN  check' = [check EXCEPT ![c] = [@ EXCEPT !.obs = obs, !.todo = todo,
                            !.pc = IF CallsForScan(todo) THEN "scan" ELSE "report"]]
    /\ UNCHANGED <<chain, table, manager, up, bounds>>

\* Faulty variant: the insert is rolled back and nobody looks.
InsertScanRolledBack(c) ==
    /\ check[c].pc = "scan"
    /\ check' = [check EXCEPT ![c].pc = "target", ![c].scan = Len(scan) + 1]
    /\ UNCHANGED <<chain, watch, event, scan, manager, up, bounds>>

\* _create_rescan: the scan row, then its target row.
InsertScan(c) ==
    /\ check[c].pc = "scan"
    /\ scan' = Append(scan, [addr |-> check[c].addr, saw |-> check[c].obs, state |-> "bare"])
    /\ check' = [check EXCEPT ![c].pc = "target", ![c].scan = Len(scan')]
    /\ UNCHANGED <<chain, watch, event, manager, up, bounds>>

InsertTarget(c) ==
    /\ check[c].pc = "target"
    /\ scan' = [scan EXCEPT ![check[c].scan].state = "queued"]
    /\ check' = [check EXCEPT ![c].pc = "report"]
    /\ UNCHANGED <<chain, watch, event, manager, up, bounds>>

\* The events are reported in this order.
Place == [impl |-> 1, code |-> 2, admin |-> 3]

\* One event, committed before its alert goes out.
ReportEvent(c, f) ==
    LET k == check[c] IN
    /\ k.pc = "report" /\ f \in k.todo
    /\ \A g \in k.todo : Place[f] <= Place[g]
    /\ event' = event \cup {[watch |-> k.watch, field |-> f,
                             old |-> k.prev[f], new |-> k.obs[f], scan |-> k.scan]}
    /\ check' = [check EXCEPT ![c].todo = @ \ {f}]
    /\ UNCHANGED <<chain, watch, scan, manager, up, bounds>>

\* Faulty variants: the baseline forgets what could not be read; once known it
\* does not move.
BaselineForgetting(base, obs) == obs
BaselineStays(base, obs)      == [f \in Field |-> IF base[f] = "none" THEN obs[f] ELSE base[f]]

\* What could not be read keeps its last value.
NewBaseline(base, obs) == [f \in Field |-> IF obs[f] # "none" THEN obs[f] ELSE base[f]]

\* The last session: the row with this id, if there is one.
SaveBaseline(c) ==
    LET k == check[c] IN
    /\ k.pc = "report" /\ k.todo = {}
    /\ watch' = IF k.watch \in Rows
                THEN [watch EXCEPT ![k.watch].base = NewBaseline(@, k.obs),
                                   ![k.watch].checked = TRUE]
                ELSE watch
    /\ check' = [check EXCEPT ![c].pc = "return"]
    /\ UNCHANGED <<chain, event, scan, manager, up, bounds>>

\* Back on the event loop, which starts the scan.
StartScan(c) ==
    /\ check[c].pc = "return"
    /\ scan' = IF check[c].scan # 0
               THEN [scan EXCEPT ![check[c].scan].state = "started"] ELSE scan
    /\ check' = [check EXCEPT ![c] = Idle]
    /\ UNCHANGED <<chain, watch, event, manager, up, bounds>>

\* A session raises.  The loop logs it and gives up its sweep.
CheckRaises(c) ==
    /\ check[c].pc \in {"code", "scan", "target", "report"}
    /\ faults < MaxFaults /\ faults' = faults + 1
    /\ check' = [check EXCEPT ![c] = Idle]
    /\ \/ c = "loop" /\ loop' = "sleep" /\ due' = {}
       \/ c # "loop" /\ UNCHANGED <<loop, due>>
    /\ UNCHANGED <<chain, table, running, up, changes, deletes, crashes>>

----------------------------------------------------------------------------
(* The WatchManager, the endpoints, the server.                           *)

\* Which rows are due is a matter of time.
LoopWakes ==
    /\ loop = "sleep"
    /\ \/ running /\ loop' = "sweep" /\ due' \in SUBSET Rows
       \/ ~running /\ loop' = "none" /\ UNCHANGED due
    /\ UNCHANGED <<chain, table, check, running, up, bounds>>

LoopChecks(w) ==
    /\ loop = "sweep" /\ running /\ check["loop"] = Idle
    /\ w \in due /\ due' = due \ {w}
    /\ check' = [check EXCEPT !["loop"] = IF w \in Rows THEN Reading(w) ELSE Idle]
    /\ UNCHANGED <<chain, table, running, loop, up, bounds>>

LoopSleeps ==
    /\ loop = "sweep" /\ check["loop"] = Idle
    /\ due = {} \/ ~running
    /\ loop' = "sleep" /\ due' = {}
    /\ UNCHANGED <<chain, table, check, running, up, bounds>>

\* check_now
CallerChecks(c, w) ==
    /\ up /\ check[c] = Idle
    /\ w \in Rows
    /\ check' = [check EXCEPT ![c] = Reading(w)]
    /\ UNCHANGED <<chain, table, manager, up, bounds>>

\* monitor_start runs in a worker thread, where create_task finds no event
\* loop and raises, after _running was set.
MonitorStart ==
    /\ up /\ ~running
    /\ running' = TRUE
    /\ UNCHANGED <<chain, table, check, loop, due, up, bounds>>

MonitorStop ==
    /\ up /\ running
    /\ running' = FALSE
    /\ UNCHANGED <<chain, table, check, loop, due, up, bounds>>

Crash ==
    /\ up /\ crashes < MaxCrashes
    /\ up' = FALSE /\ crashes' = crashes + 1
    /\ check' = [c \in Thread |-> Idle]
    /\ running' = FALSE /\ loop' = "none" /\ due' = {}
    /\ UNCHANGED <<chain, table, changes, deletes, faults>>

\* Faulty variant: no recovery of queued scans.
RestartOnly ==
    /\ ~up /\ up' = TRUE
    /\ running' = AutoStart
    /\ loop' = IF AutoStart THEN "sleep" ELSE "none"
    /\ UNCHANGED <<chain, watch, event, scan, check, due, bounds>>

\* _lifespan: the recovery starts every scan that is still QUEUED, then the
\* monitor is started on the event loop if the settings say so.
Restart ==
    /\ ~up /\ up' = TRUE
    /\ scan' = [i \in DOMAIN scan |-> [scan[i] EXCEPT !.state = "started"]]
    /\ running' = AutoStart
    /\ loop' = IF AutoStart THEN "sleep" ELSE "none"
    /\ UNCHANGED <<chain, watch, event, check, due, bounds>>

----------------------------------------------------------------------------
\* The sessions of a check that has begun.
CheckStep(c) ==
    \/ RpcDown(c) \/ ReadCode(c) \/ ReadProxy(c)
    \/ InsertScan(c) \/ InsertTarget(c) \/ \E f \in Field : ReportEvent(c, f)
    \/ SaveBaseline(c) \/ StartScan(c)

User ==
    \/ \E c \in Adder, a \in Addr : AddRead(c, a)
    \/ \E c \in Caller, w \in Id : CallerChecks(c, w)
    \/ \E w \in Id : DeleteWatch(w)
    \/ MonitorStart \/ MonitorStop

Fault == Crash \/ \E c \in Checker : CheckRaises(c)

Next ==
    \/ User \/ Fault \/ Restart
    \/ \E a \in Addr, f \in Field : ChainChanges(a, f)
    \/ \E c \in Adder : AddCommit(c)
    \/ \E c \in Checker : CheckStep(c)
    \/ LoopWakes \/ LoopSleeps \/ \E w \in Id : LoopChecks(w)

Spec == Init /\ [][Next]_vars

\* Threads and the event loop make progress.  Time passes, so a row is due
\* again and again; and the node answers again and again, with what it has.
Answered(c) ==
    ReadProxy(c) /\ check'[c].obs.impl = chain[check[c].addr].impl

Fairness ==
    /\ \A c \in Checker : 
          WF_vars(CheckStep(c)) /\ SF_vars(ReadCode(c)) /\ SF_vars(Answered(c))
    /\ \A c \in Adder : WF_vars(AddCommit(c))
    /\ WF_vars(LoopWakes) /\ WF_vars(LoopSleeps)
    /\ \A w \in Id : WF_vars(LoopChecks(w)) /\ SF_vars(LoopWakes /\ w \in due')

FairSpec == Spec /\ Fairness

----------------------------------------------------------------------------
State == [Field -> Seen]
Begun ==
    [pc : {"code", "proxy", "scan", "target", "report", "return"}, watch : Id, addr : Addr,
     prev : State, first : BOOLEAN, obs : State, todo : SUBSET Field, scan : Nat]
Check == {Idle} \cup [pc : {"add"}, addr : Addr] \cup Begun
ScanRow == [addr : Addr, saw : State, state : {"bare", "queued", "started"}]

\* Every variable has its type, and a check names a scan that exists.
TypeOK ==
    /\ chain \in [Addr -> State]
    /\ watch \in [Id -> [addr : Addr, base : State, checked : BOOLEAN] \cup {NoRow}]
    /\ event \subseteq [watch : Id, field : Field \cup {"error"}, old : Seen, new : Seen,
                        scan : 0..Len(scan)]
    /\ scan \in Seq(ScanRow)
    /\ check \in [Thread -> Check]
    /\ \A c \in Checker : check[c] \in Begun => check[c].scan \in 0..Len(scan)
    /\ running \in BOOLEAN /\ loop \in {"none", "sleep", "sweep"} /\ due \subseteq Id
    /\ up \in BOOLEAN
    /\ changes \in Nat /\ deletes \in Nat /\ crashes \in Nat /\ faults \in Nat

\* A baseline moves from one known implementation or admin to another only
\* after the move was recorded as an event of the row, through failed reads,
\* exceptions and crashes.
BaselineIsReported ==
    [][\A w \in Rows : \A f \in {"impl", "admin"} :
          LET x == watch[w].base[f]
              y == watch'[w].base[f]
          IN  x # "none" /\ y # x /\ watch'[w].addr = watch[w].addr =>
                \E e \in event : e.watch = w /\ e.field = f /\ e.old = x /\ e.new = y]_vars

\* One change of the chain leads to one rescan of each row of the address, and
\* two calls of add_watch at once make two rows of it.  Only a check that is
\* cut short between its rescan and its baseline adds one, and a row deleted
\* during its check two: the row that has its id by then may be of another
\* address, and gets a baseline from which that one's code and implementation
\* have moved.
RescansAreFew ==
    Len(scan) <= Cardinality(Adder) * changes + crashes + faults + 2 * deletes

\* A rescan that is not started yet is in the hands of the check that created
\* it, as long as the server is up.
RescanIsHeard ==
    up => \A i \in DOMAIN scan : scan[i].state # "started" =>
            \E c \in Checker : check[c].pc \in {"target", "report", "return"} /\ check[c].scan = i

\* A monitor that says it is running has a loop.
RunningHasLoop == running => loop # "none"

\* A contract whose implementation is not the one in the baseline gets a
\* rescan that is started, if the change lasts, the row stays, and the
\* monitor's loop lives on.
UpgradeIsAnswered ==
    <>[](running /\ loop # "none") =>
        \A w \in Id, y \in Value :
            ( /\ w \in Rows /\ watch[w].base.impl \notin {"none", y}
              /\ chain[watch[w].addr].impl = y )
            ~> \/ w \notin Rows
               \/ chain[watch[w].addr].impl # y
               \/ \E i \in DOMAIN scan : /\ scan[i].addr = watch[w].addr
                                         /\ scan[i].saw.impl = y /\ scan[i].state = "started"

----------------------------------------------------------------------------
(* The invariant behind BaselineIsReported, for checks that do not overlap. *)

\* One thread checks: the loop, when the endpoints do not; or a single thread
\* of check_now, when the loop is not started with the server.
OneChecks == Caller = {} \/ (~AutoStart /\ \E c \in Caller : Caller = {c})
Only      == IF Caller = {} THEN "loop" ELSE CHOOSE c \in Caller : TRUE

\* A loop that is not started with the server is never started.
NoLoopInv == ~AutoStart => loop = "none" /\ check["loop"] = Idle

\* A row that was never checked has no baseline.
RowInv == \A w \in Rows : ~watch[w].checked => watch[w].base = Blank

\* While a check runs, what its row holds is what the check began with, or
\* nothing; and a move it has seen is recorded or is about to be.
CheckInv(k) ==
    /\ k.first => k.prev = Blank
    /\ k.watch \in Rows => \A f \in {"impl", "admin"} :
         LET x == watch[k.watch].base[f] IN
         x # "none" =>
            /\ x = k.prev[f]
            /\ k.pc \in {"scan", "target", "report"} /\ k.obs[f] \notin {"none", x} =>
                 \/ f \in k.todo
                 \/ \E e \in event : /\ e.watch = k.watch /\ e.field = f
                                      /\ e.old = x /\ e.new = k.obs[f]

InFlight == {"code", "proxy", "scan", "target", "report"}

ReportInv == RowInv /\ (check[Only].pc \in InFlight => CheckInv(check[Only]))

IInv == TypeOK /\ NoLoopInv /\ ReportInv

----------------------------------------------------------------------------
(* The invariant behind RescansAreFew, for checks that do not overlap: what *)
(* was scanned and what is still to be scanned is within the bound.         *)

\* The rows of an address, and the threads that are about to add one.
Copies(a) == {w \in Rows : watch[w].addr = a}
Adding(a) == {c \in Adder : check[c] = [pc |-> "add", addr |-> a]}

CopiesAreFew ==
    \A a \in Addr : Cardinality(Copies(a)) + Cardinality(Adding(a)) <= Cardinality(Adder)

\* The fields whose move calls for a rescan.
Trigger == {"impl", "code"}

\* The row is still the one the check has read.
Undisturbed(k) ==
    k.watch \in Rows /\ watch[k.watch].addr = k.addr /\ watch[k.watch].base = k.prev

\* The baseline of a row, as it is once the check k has ended.
Coming(k, w) ==
    IF k.pc \in InFlight /\ k.watch = w THEN NewBaseline(watch[w].base, k.obs) ELSE watch[w].base

\* What moved and no check has seen, but for the row a check may overwrite.
Unseen(k) ==
    {p \in Rows \X Trigger :
        /\ k.pc \in InFlight /\ p[1] = k.watch => Undisturbed(k)
        /\ Coming(k, p[1])[p[2]] \notin {"none", chain[watch[p[1]].addr][p[2]]}}

\* The moves a check has found, and those it finds if what it has not read yet
\* stays as it is.
Found(k) == {f \in Trigger : k.prev[f] # "none" /\ k.obs[f] \notin {"none", k.prev[f]}}
MayFind(k) ==
    {f \in Trigger : /\ k.prev[f] # "none"
                     /\ NewBaseline(chain[k.addr], k.obs)[f] \notin {"none", k.prev[f]}}

\* The rescans a check can still lead to: its own, and two of the row that it
\* gives a foreign baseline.
Owed(k) ==
    IF k.pc \notin InFlight THEN 0
    ELSE (IF Undisturbed(k) THEN Cardinality(Found(k)) ELSE 2 + Cardinality(MayFind(k)))
         - IF k.scan = 0 THEN 0 ELSE 1

\* The other rows of the address that a check has read.
Others(k) == {w \in Rows \ {k.watch} : watch[w].addr = k.addr /\ watch[w].base # Blank}

FlightInv(k) ==
    /\ k.pc = "code" => k.obs = Blank
    /\ k.pc = "proxy" => k.obs.impl = "none"
    /\ k.pc \in {"code", "proxy", "scan"} => k.scan = 0
    /\ k.pc = "scan" \/ k.scan # 0 => Found(k) # {}
    /\ Cardinality(Others(k)) < Cardinality(Adder)

Allowed == Cardinality(Adder) * changes + crashes + faults + 2 * deletes

DebtInv ==
    /\ CopiesAreFew
    /\ check[Only].pc \in InFlight => FlightInv(check[Only])
    /\ Len(scan) + Cardinality(Unseen(check[Only])) + Owed(check[Only]) <= Allowed

FewInv == TypeOK /\ NoLoopInv /\ DebtInv
=============================================================================

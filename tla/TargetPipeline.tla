--------------------------- MODULE TargetPipeline ---------------------------
(***************************************************************************)
(* What process_target does to the database while it works on the targets  *)
(* of one scan: the status of a target, the runs of its tools, its         *)
(* findings with their reviews, the counts of the scan and the pages that  *)
(* are sent; and the user who, meanwhile, cancels the scan, teaches it     *)
(* false positives and forgets them again.                                 *)
(*                                                                         *)
(* Every commit is a step.  What a target does between two awaits holds    *)
(* the event loop: no other target moves meanwhile (Holding), but the      *)
(* endpoints do, for they run in threads of their own.                     *)
(***************************************************************************)
EXTENDS Naturals, Sequences, FiniteSets, Functions

CONSTANTS
    Target,          \* targets of the scan, at addresses of their own
    Fingerprint,     \* what candidates may look like
    Stages,          \* the tools of a target in their order, "detectors" among them
    User,            \* calls of endpoints that may be under way at once
    MaxCandidates,   \* bound: how many candidates each target has at most
    MaxPocs,         \* settings.max_pocs_per_target
    MaxSims,         \* settings.max_sims_per_target
    MaxRequests,     \* bound: calls that teach
    MaxAccidents,    \* bound: crashes and exceptions
    Replies,         \* what reviews come to
    Everywhere       \* the address of a global suppression

Class == {"confirmed", "needs", "fp"}
Reply == {"off", "error"} \cup Class
Idle  == [op |-> "none"]
Key   == Fingerprint \X (Target \cup {Everywhere})

ASSUME PipelineAssumption ==
    /\ Everywhere \notin Target
    /\ IsFiniteSet(Target)
    /\ Stages \in Seq(STRING)
    /\ MaxCandidates \in [Target -> Nat]
    /\ MaxPocs \in Nat /\ MaxSims \in Nat /\ MaxRequests \in Nat
    /\ MaxAccidents \in Nat
    /\ Replies \subseteq Reply

VARIABLES
    scan,       \* Scan.status
    counts,     \* the scan's count of each class
    cancelled,  \* whether the scan is in ScanManager._cancelled
    status,     \* Target.status
    pc,         \* where process_target is
    at,         \* its local variables: the tool it is at, the fingerprints of
                \* the candidates, the one in the loop, its next fork
                \* check, poc_count and sim_count
    open,       \* tool runs that are RUNNING
    finding,    \* rows: <<target, n>> -> the finding of its n-th candidate
    rows,       \* SuppressedFinding: how many rows there are of a key
    call,       \* the endpoint call of each user
    paged,      \* findings an alert was sent for
    hist        \* bounds and what the properties remember

pipeVars == <<status, pc, at, open, paged>>
vars == <<scan, counts, cancelled, status, pc, at, open, finding, rows, call,
          paged, hist>>

\* The locals before the first tool, and of a target that is done.
Fresh == [stage |-> 1, found |-> <<>>, n |-> 0, class |-> "needs", reply |-> "off",
          fork |-> 1, pocs |-> 0, sims |-> 0]

Init ==
    /\ scan = "running" /\ cancelled = FALSE
    /\ counts = [c \in Class |-> 0]
    /\ status = [t \in Target |-> "pending"]
    /\ pc = [t \in Target |-> "pending"]
    /\ at = [t \in Target |-> Fresh]
    /\ open = {} /\ finding = <<>>
    /\ \E K \in SUBSET Key :
         /\ Cardinality(K) <= 1
         /\ rows = [k \in Key |-> IF k \in K THEN 1 ELSE 0]
         /\ hist = [learnt |-> K, forgotten |-> {}, inLoop |-> {}, late |-> [t \in Target |-> 0],
                    requests |-> 0, accidents |-> 0]
    /\ call = [u \in User |-> Idle]
    /\ paged = {}

----------------------------------------------------------------------------
(* The steps of one target.                                               *)

\* Between these the code awaits nothing.
Holding == {"detecting", "tools", "ai", "fork_run", "persist", "persist_review",
            "persist_link", "publish", "counting"}

LoopIsFree(t) == scan = "running" /\ \A u \in Target \ {t} : pc[u] \notin Holding

Turn(t, here) == LoopIsFree(t) /\ pc[t] = here

Goto(t, there) == pc' = [pc EXCEPT ![t] = there]
SetStatus(t, s) == status' = [status EXCEPT ![t] = s]

unchangedUser == <<rows, call, cancelled>>

\* process: a target whose turn comes after a cancel is left alone.
Begin(t) ==
    /\ Turn(t, "pending")
    /\ IF cancelled
       THEN Goto(t, "done") /\ UNCHANGED status
       ELSE Goto(t, "fetching") /\ SetStatus(t, "fetching")
    /\ UNCHANGED <<scan, counts, at, open, finding, paged, hist, unchangedUser>>

\* fetch_source, then the chain and the proxy; each failure of theirs is caught.
Resolve(t) ==
    /\ Turn(t, "fetching")
    /\ Goto(t, "resolving") /\ SetStatus(t, "resolving")
    /\ UNCHANGED <<scan, counts, at, open, finding, paged, hist, unchangedUser>>

Resolved(t) ==
    /\ Turn(t, "resolving")
    /\ Goto(t, "detecting") /\ SetStatus(t, "detecting")
    /\ UNCHANGED <<scan, counts, at, open, finding, paged, hist, unchangedUser>>

ToTools(t) ==
    /\ Turn(t, "detecting")
    /\ Goto(t, "tools") /\ SetStatus(t, "tools")
    /\ UNCHANGED <<scan, counts, at, open, finding, paged, hist, unchangedUser>>

AtStage(t, S) == at[t].stage <= Len(Stages) /\ Stages[at[t].stage] \in S

\* _create_toolrun.
OpenRun(t, tool) == open' = open \cup {<<t, tool>>}

\* Faulty variant: a run that crashed is not finalized.
CloseRunIfOk(t, tool) == open' \in {open, open \ {<<t, tool>>}}

\* _finalize_toolrun.
CloseRun(t, tool) == open' = open \ {<<t, tool>>}

StartTool(t) ==
    /\ Turn(t, "tools")
    /\ at[t].stage <= Len(Stages) /\ ~AtStage(t, {"detectors"})
    /\ OpenRun(t, Stages[at[t].stage])
    /\ Goto(t, "tool")
    /\ UNCHANGED <<scan, counts, status, at, finding, paged, hist, unchangedUser>>

\* _run_tool and its like: the runner succeeds, is skipped, or its exception
\* becomes a failed run.
FinishTool(t) ==
    /\ Turn(t, "tool")
    /\ CloseRun(t, Stages[at[t].stage])
    /\ Goto(t, "tools")
    /\ at' = [at EXCEPT ![t].stage = @ + 1]
    /\ UNCHANGED <<scan, counts, status, finding, paged, hist, unchangedUser>>

\* The detectors, the reasoner and collapse_duplicates.
Detect(t) ==
    /\ Turn(t, "tools") /\ AtStage(t, {"detectors"})
    /\ \E n \in 0..MaxCandidates[t] : \E fs \in [1..n -> Fingerprint] :
         at' = [at EXCEPT ![t].found = fs, ![t].stage = @ + 1]
    /\ UNCHANGED <<scan, counts, status, pc, open, finding, paged, hist, unchangedUser>>

ToLoop(t) ==
    /\ Turn(t, "tools") /\ at[t].stage > Len(Stages)
    /\ Goto(t, "ai") /\ SetStatus(t, "ai")
    /\ UNCHANGED <<scan, counts, at, open, finding, paged, hist, unchangedUser>>

----------------------------------------------------------------------------
(* The loop over candidates.                                              *)

\* Faulty variant: only a global row counts.
IsSuppressedEverywhere(fp, t) == rows[<<fp, Everywhere>>] > 0

\* is_suppressed.
IsSuppressed(fp, t) == \E a \in {t, Everywhere} : rows[<<fp, a>>] > 0

\* Faulty variant: the loop does not look at the flag.
LoopEndsAtLast(t) == at[t].n = Len(at[t].found)

LoopEnds(t) == cancelled \/ at[t].n = Len(at[t].found)

\* apply_suppression, and the suppressions of the sanity pass.
NextCandidate(t) ==
    /\ Turn(t, "ai") /\ ~LoopEnds(t)
    /\ LET n == at[t].n + 1 IN
       \E gated \in BOOLEAN :
         LET suppressed == gated \/ IsSuppressed(at[t].found[n], t) IN
         /\ at' = [at EXCEPT ![t].n = n, ![t].class = IF suppressed THEN "fp" ELSE @]
         /\ Goto(t, IF suppressed THEN "persist" ELSE "refuting")
    /\ UNCHANGED <<scan, counts, status, open, finding, paged, hist, unchangedUser>>

\* The refuter (its exceptions are caught), then score_finding.
Score(t) ==
    /\ Turn(t, "refuting")
    /\ \E c \in {"confirmed", "needs"} : at' = [at EXCEPT ![t].class = c]
    /\ Goto(t, "checking")
    /\ UNCHANGED <<scan, counts, status, open, finding, paged, hist, unchangedUser>>

\* The fork checks of a candidate, in their order.
Forks == <<"poc", "oracle", "graph">>
Fork(t) == Forks[at[t].fork]
AfterFork(t) == IF at[t].fork = Len(Forks) THEN "reviewing" ELSE "checking"

InBudget(t) == IF Fork(t) = "poc" THEN at[t].pocs < MaxPocs ELSE at[t].sims < MaxSims

Spent(t) == IF Fork(t) = "poc" THEN [at[t] EXCEPT !.pocs = @ + 1]
                               ELSE [at[t] EXCEPT !.sims = @ + 1]

\* A PoC or a simulation, if it is on, eligible and in the budget.  Its run is
\* opened once the check is over, and only if forge ran, and closed at once.
CheckOnFork(t) ==
    /\ Turn(t, "checking")
    /\ \/ /\ at' = [at EXCEPT ![t].fork = (@ % Len(Forks)) + 1]
          /\ Goto(t, AfterFork(t)) /\ UNCHANGED open
       \/ /\ InBudget(t)
          /\ \/ /\ at' = [at EXCEPT ![t] = [Spent(t) EXCEPT !.fork = (@ % Len(Forks)) + 1]]
                /\ Goto(t, AfterFork(t)) /\ UNCHANGED open
             \/ /\ at' = [at EXCEPT ![t] = Spent(t)]
                /\ OpenRun(t, Fork(t)) /\ Goto(t, "fork_run")
    /\ UNCHANGED <<scan, counts, status, finding, paged, hist, unchangedUser>>

\* A check that passes may raise the class; the graph's is a scaffold.
FinishFork(t) ==
    /\ Turn(t, "fork_run")
    /\ CloseRun(t, Fork(t))
    /\ \E c \in {at[t].class, "confirmed"} :
         /\ c # at[t].class => Fork(t) # "graph"
         /\ at' = [at EXCEPT ![t].class = c, ![t].fork = (@ % Len(Forks)) + 1]
    /\ Goto(t, AfterFork(t))
    /\ UNCHANGED <<scan, counts, status, finding, paged, hist, unchangedUser>>

\* review_finding: off, without a usable answer, or a class.
Review(t) ==
    /\ Turn(t, "reviewing")
    /\ \E r \in Replies : at' = [at EXCEPT ![t].reply = r]
    /\ Goto(t, "persist")
    /\ UNCHANGED <<scan, counts, status, open, finding, paged, hist, unchangedUser>>

----------------------------------------------------------------------------
(* _persist_finding: the row, the review, the link, then the page.        *)

LoopBody == {"refuting", "checking", "fork_run", "reviewing", "persist"}

Current(t) == <<t, at[t].n>>

PersistFinding(t) ==
    /\ Turn(t, "persist")
    /\ finding' = [f \in DOMAIN finding \cup {Current(t)} |->
           IF f = Current(t)
           THEN [fp |-> at[t].found[at[t].n], class |-> at[t].class, reply |-> at[t].reply,
                 linked |-> FALSE, status |-> "open"]
           ELSE finding[f]]
    /\ Goto(t, IF at[t].reply = "off" THEN "publish" ELSE "persist_review")
    /\ hist' = IF cancelled THEN [hist EXCEPT !.late[t] = @ + 1] ELSE hist
    /\ UNCHANGED <<scan, counts, status, at, open, paged, unchangedUser>>

PersistReview(t) ==
    /\ Turn(t, "persist_review")
    /\ Goto(t, "persist_link")
    /\ UNCHANGED <<scan, counts, status, at, open, finding, paged, hist, unchangedUser>>

\* Faulty variant: the verdict of the review stays in the review.
LinkOnly(f) == [f EXCEPT !.linked = TRUE]

\* The review's verdict supersedes the class.
Linked(f) == [f EXCEPT !.linked = TRUE, !.class = IF f.reply \in Class THEN f.reply ELSE @]

LinkReview(t) ==
    /\ Turn(t, "persist_link")
    /\ finding' = [finding EXCEPT ![Current(t)] = Linked(@)]
    /\ Goto(t, "publish")
    /\ UNCHANGED <<scan, counts, status, at, open, paged, hist, unchangedUser>>

\* Faulty variant: the page goes by the score, before the review.
IsCriticalBefore(t) == at[t].class = "confirmed"

IsCritical(t) == finding[Current(t)].class = "confirmed"

Publish(t) ==
    /\ Turn(t, "publish")
    /\ paged' = IF IsCritical(t) THEN paged \cup {Current(t)} ELSE paged
    /\ at' = [at EXCEPT ![t].class = "needs", ![t].reply = "off"]
    /\ Goto(t, "ai")
    /\ UNCHANGED <<scan, counts, status, open, finding, hist, unchangedUser>>

----------------------------------------------------------------------------
(* The end of a target and of the scan.                                   *)

\* _recompute_scan_counts.
Tally == [c \in Class |-> Cardinality({f \in DOMAIN finding : finding[f].class = c})]

Complete(t) ==
    /\ Turn(t, "ai") /\ LoopEnds(t)
    /\ Goto(t, "counting") /\ SetStatus(t, "completed")
    /\ UNCHANGED <<scan, counts, at, open, finding, paged, hist, unchangedUser>>

Count(t) ==
    /\ Turn(t, "counting")
    /\ counts' = Tally
    /\ Goto(t, "done") /\ at' = [at EXCEPT ![t] = Fresh]
    /\ UNCHANGED <<scan, status, open, finding, paged, hist, unchangedUser>>

\* Something raises that process_target does not catch: a commit, the chain, a
\* generator of PoCs, the review.  process marks the target.
Raise(t) ==
    /\ LoopIsFree(t) /\ pc[t] \notin {"pending", "done"}
    /\ hist.accidents < MaxAccidents
    /\ hist' = [hist EXCEPT !.accidents = @ + 1]
    /\ SetStatus(t, "failed")
    /\ Goto(t, "done") /\ at' = [at EXCEPT ![t] = Fresh]
    /\ UNCHANGED <<scan, counts, open, finding, paged, unchangedUser>>

\* Faulty variant: the counts of the last target are taken for the scan's.
FinalCountsOfLast == counts

FinalCounts == Tally

\* The end of run_scan_pipeline.
Finalize ==
    /\ scan = "running" /\ \A t \in Target : pc[t] = "done"
    /\ counts' = FinalCounts
    /\ scan' = IF cancelled THEN "cancelled" ELSE "completed"
    /\ UNCHANGED <<pipeVars, finding, hist, unchangedUser>>

\* The process dies, with every call that is under way; the next one marks
\* what was RUNNING (_recover_interrupted_scans) and nothing else.
Crash ==
    /\ hist.accidents < MaxAccidents
    /\ hist' = [hist EXCEPT !.accidents = @ + 1]
    /\ scan' = IF scan = "running" THEN "failed" ELSE scan
    /\ cancelled' = FALSE
    /\ pc' = [t \in Target |-> "done"] /\ at' = [t \in Target |-> Fresh]
    /\ call' = [u \in User |-> Idle]
    /\ UNCHANGED <<status, open, paged, counts, finding, rows>>

----------------------------------------------------------------------------
(* The endpoints.                                                         *)

unchangedPipe == <<scan, counts, pipeVars>>

\* cancel_scan.
Cancel ==
    /\ scan = "running" /\ ~cancelled
    /\ cancelled' = TRUE
    /\ hist' = [hist EXCEPT !.inLoop = {t \in Target : pc[t] \in LoopBody}]
    /\ UNCHANGED <<unchangedPipe, finding, rows, call>>

\* set_status and suppress_finding read the finding ...
Ask(u) ==
    /\ call[u] = Idle /\ hist.requests < MaxRequests
    /\ hist' = [hist EXCEPT !.requests = @ + 1]
    /\ \E f \in DOMAIN finding : \E a \in {f[1], Everywhere} :
         call' = [call EXCEPT ![u] = [op |-> "look", f |-> f, key |-> <<finding[f].fp, a>>]]
    /\ UNCHANGED <<unchangedPipe, cancelled, finding, rows>>

\* ... dedup.suppress looks for its row ...
AfterLook(k) == IF rows[k] > 0 THEN "mark" ELSE "insert"

\* Faulty variant: the status is committed before the suppression.
LookAndMark(u) ==
    /\ call[u].op = "look"
    /\ finding' = [finding EXCEPT ![call[u].f].status = "false_positive"]
    /\ call' = [call EXCEPT ![u].op = AfterLook(call[u].key)]
    /\ UNCHANGED <<unchangedPipe, cancelled, rows, hist>>

Look(u) ==
    /\ call[u].op = "look"
    /\ call' = [call EXCEPT ![u].op = AfterLook(call[u].key)]
    /\ UNCHANGED <<unchangedPipe, cancelled, finding, rows, hist>>

\* ... commits one in a session of its own ...
Insert(u) ==
    /\ call[u].op = "insert"
    /\ rows' = [rows EXCEPT ![call[u].key] = @ + 1]
    /\ call' = [call EXCEPT ![u].op = "mark"]
    /\ UNCHANGED <<unchangedPipe, cancelled, finding, hist>>

\* ... and the caller commits the status.
Mark(u) ==
    /\ call[u].op = "mark"
    /\ finding' = [finding EXCEPT ![call[u].f].status = "false_positive"]
    /\ call' = [call EXCEPT ![u] = Idle]
    /\ UNCHANGED <<unchangedPipe, cancelled, rows, hist>>

\* set_status with another status: no suppression is touched.
Reopen(u) ==
    /\ call[u] = Idle
    /\ \E f \in DOMAIN finding :
         /\ finding[f].status = "false_positive"
         /\ finding' = [finding EXCEPT ![f].status = "open"]
    /\ UNCHANGED <<unchangedPipe, cancelled, rows, call, hist>>

\* delete_suppression, of one row.
Forget(u) ==
    /\ call[u] = Idle
    /\ \E k \in Key :
         /\ rows[k] > 0
         /\ rows' = [rows EXCEPT ![k] = @ - 1]
         /\ hist' = [hist EXCEPT !.forgotten = @ \cup {k}]
    /\ UNCHANGED <<unchangedPipe, cancelled, finding, call>>

----------------------------------------------------------------------------
Step(t) ==
    \/ Begin(t) \/ Resolve(t) \/ Resolved(t) \/ ToTools(t) \/ StartTool(t)
    \/ FinishTool(t) \/ Detect(t) \/ ToLoop(t) \/ NextCandidate(t) \/ Score(t)
    \/ CheckOnFork(t) \/ FinishFork(t) \/ Review(t) \/ PersistFinding(t)
    \/ PersistReview(t) \/ LinkReview(t) \/ Publish(t) \/ Complete(t) \/ Count(t)

Next ==
    \/ \E t \in Target : Step(t) \/ Raise(t)
    \/ Finalize \/ Crash \/ Cancel
    \/ \E u \in User : Ask(u) \/ Look(u) \/ Insert(u) \/ Mark(u) \/ Reopen(u) \/ Forget(u)

Spec == Init /\ [][Next]_vars

----------------------------------------------------------------------------
Steps == {"pending", "fetching", "resolving", "detecting", "tools", "tool", "ai",
          "refuting", "checking", "fork_run", "reviewing", "persist",
          "persist_review", "persist_link", "publish", "counting", "done"}
Statuses == {"pending", "fetching", "resolving", "detecting", "tools", "ai",
             "completed", "failed"}
Finding == [fp : Fingerprint, class : Class, reply : Reply, linked : BOOLEAN,
            status : {"open", "false_positive"}]

\* Every variable has its type.
TypeOK ==
    /\ scan \in {"running", "completed", "cancelled", "failed"}
    /\ counts \in [Class -> Nat] /\ cancelled \in BOOLEAN
    /\ status \in [Target -> Statuses] /\ pc \in [Target -> Steps]
    /\ \A t \in Target :
         /\ at[t].stage \in 1..Len(Stages) + 1 /\ at[t].fork \in DOMAIN Forks
         /\ at[t].pocs \in 0..MaxPocs /\ at[t].sims \in 0..MaxSims
         /\ at[t].found \in Seq(Fingerprint) /\ at[t].n \in 0..Len(at[t].found)
         /\ at[t].class \in Class /\ at[t].reply \in Reply
    /\ open \subseteq Target \X (Range(Forks) \cup Range(Stages))
    /\ DOMAIN finding \subseteq Target \X Nat /\ Range(finding) \subseteq Finding
    /\ rows \in [Key -> Nat] /\ paged \subseteq DOMAIN finding

\* Whatever its tools did, and whatever failed before, a completed target
\* leaves no run RUNNING behind.
ToolRunsAreClosed ==
    \A t \in Target : status[t] = "completed" => \A r \in open : r[1] # t

\* The counts of a scan that ended by itself are those of its findings, the
\* findings of targets that failed midway included.
CountsMatchFindings == scan \in {"completed", "cancelled"} => counts = Tally

\* After a cancel a target writes the finding it was at, if it was at one, and
\* no other.
CancelStopsLoop ==
    \A t \in Target : hist.late[t] <= IF t \in hist.inLoop THEN 1 ELSE 0

\* A fingerprint that was known before the scan, and never forgotten, ends as
\* a false positive: no floor, no review and no page for it.
LearntIsApplied ==
    \A f \in DOMAIN finding :
      (\E a \in {f[1], Everywhere} :
          <<finding[f].fp, a>> \in hist.learnt \ hist.forgotten)
      => finding[f].class = "fp" /\ finding[f].reply = "off" /\ f \notin paged

\* A finding the user marked is learnt for its contract or for all: no crash
\* between the two commits loses the lesson.
MarkedIsLearnt ==
    \A f \in DOMAIN finding :
      finding[f].status = "false_positive" =>
        \E a \in {f[1], Everywhere} :
          LET k == <<finding[f].fp, a>> IN rows[k] > 0 \/ k \in hist.forgotten

\* The findings of a completed target carry the verdict of their review.
FinishedIsReviewed ==
    \A f \in DOMAIN finding :
      status[f[1]] = "completed" /\ finding[f].reply \in Class =>
        finding[f].linked /\ finding[f].class = finding[f].reply

\* The findings of a completed target that are critical, and no others, were
\* paged.
CriticalIsPaged ==
    /\ \A f \in paged : finding[f].class = "confirmed"
    /\ \A f \in DOMAIN finding :
         status[f[1]] = "completed" /\ finding[f].class = "confirmed" => f \in paged

\* dedup.py:171: no two rows for the same fingerprint and address.
SuppressedOnce == \A k \in Key : rows[k] <= 1

----------------------------------------------------------------------------
\* What a scan's contract sees while the pipeline works.
Contract == INSTANCE ScanContract WITH
    Scan     <- {"scan"},
    Addr     <- Target,
    phase    <- [s \in {"scan"} |-> scan],
    listed   <- [s \in {"scan"} |-> Target],
    finished <- [s \in {"scan"} |-> {t \in Target : status[t] \in {"completed", "failed"}}]

\* process and process_target as one thing: from the state in which a scan is
\* RUNNING, its targets are listed and none is finished, what they do to the
\* scan and to the status of its targets are steps of ScanContract.  No target
\* is taken back, and "completed" waits for all of them.
FollowsContract == [][Contract!Changed /\ Contract!Next]_(Contract!vars)
=============================================================================

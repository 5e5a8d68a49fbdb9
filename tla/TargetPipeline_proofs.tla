----------------------- MODULE TargetPipeline_proofs -----------------------
(* Proofs about TargetPipeline, for every number of targets, tools,         *)
(* candidates and users, and for every bound.                               *)
EXTENDS TargetPipeline, TLAPS

Local == [stage : Nat, found : Seq(Fingerprint), n : Nat, class : Class, reply : Reply,
          fork : 1..3, pocs : Nat, sims : Nat]
Request == [op : {"look", "insert", "mark"}, f : Target \X Nat, key : Key]
Memory == [learnt : SUBSET Key, forgotten : SUBSET Key, inLoop : SUBSET Target,
           late : [Target -> Nat], requests : Nat, accidents : Nat]

Types ==
    /\ cancelled \in BOOLEAN
    /\ pc \in [Target -> Steps] /\ status \in [Target -> Statuses]
    /\ at \in [Target -> Local] /\ \A t \in Target : at[t].n <= Len(at[t].found)
    /\ DOMAIN finding \subseteq Target \X Nat
    /\ \A f \in DOMAIN finding : finding[f] \in Finding
    /\ rows \in [Key -> Nat]
    /\ call \in [User -> {Idle} \cup Request]
    /\ paged \subseteq DOMAIN finding
    /\ hist \in Memory

----------------------------------------------------------------------------
(* What holds of one target.                                              *)

Runs(t) == {r \in open : r[1] = t}

\* A run is open only while its tool is at work, or was left by a failure.
ToolInv(t) ==
    /\ pc[t] = "tool" => Runs(t) \subseteq {<<t, Stages[at[t].stage]>>}
    /\ pc[t] = "fork_run" => Runs(t) \subseteq {<<t, Fork(t)>>}
    /\ pc[t] \notin {"tool", "fork_run", "done"} \/ status[t] = "completed" => Runs(t) = {}
    /\ status[t] = "completed" => pc[t] \in {"counting", "done"}

Found(t) == {f \in DOMAIN finding : f[1] = t}
Before   == {"pending", "fetching", "resolving", "detecting", "tools", "tool"}
Writing  == {"persist_review", "persist_link", "publish"}

Reviewed(f) == finding[f].reply \in Class =>
                 finding[f].linked /\ finding[f].class = finding[f].reply
Settled(f)  == Reviewed(f) /\ (finding[f].class = "confirmed" => f \in paged)

\* The findings of a target are numbered as its candidates, and all but the
\* one that is being written are reviewed and paged.
FindInv(t) ==
    /\ pc[t] \in Before => Found(t) = {} /\ at[t].n = 0
    /\ pc[t] \in Writing =>
         /\ Current(t) \in Found(t) /\ Current(t) \notin paged
         /\ pc[t] = "publish" => Reviewed(Current(t))
         /\ pc[t] # "publish" => finding[Current(t)].reply # "off"
    /\ \A f \in Found(t) :
         /\ pc[t] \in Writing \cup {"ai"} => f[2] <= at[t].n
         /\ pc[t] \in LoopBody => f[2] < at[t].n
         /\ f \in paged => finding[f].class = "confirmed"
         /\ /\ status[t] = "completed" \/ pc[t] # "done"
            /\ pc[t] \in Writing => f # Current(t)
            => Settled(f)

\* The fingerprint fp of a candidate of t is known from before the scan.
Known(fp, t) == \E a \in {t, Everywhere} : <<fp, a>> \in hist.learnt \ hist.forgotten

Candidate(t) == at[t].found[at[t].n]

KnownInv(t) ==
    /\ pc[t] \notin Writing \cup {"persist"} => at[t].reply = "off"
    /\ pc[t] \in LoopBody => at[t].n \in 1..Len(at[t].found)
    /\ pc[t] \in LoopBody \ {"persist"} => ~Known(Candidate(t), t)
    /\ pc[t] = "persist" /\ Known(Candidate(t), t) => at[t].class = "fp" /\ at[t].reply = "off"
    /\ \A f \in Found(t) : Known(finding[f].fp, t) =>
         finding[f].class = "fp" /\ finding[f].reply = "off" /\ f \notin paged

CancelInv(t) ==
    /\ hist.late[t] <= IF t \in hist.inLoop THEN 1 ELSE 0
    /\ scan = "running" /\ ~cancelled => hist.late[t] = 0
    /\ scan = "running" /\ cancelled /\ pc[t] \in LoopBody => t \in hist.inLoop /\ hist.late[t] = 0

TargetInv(t) == ToolInv(t) /\ FindInv(t) /\ KnownInv(t) /\ CancelInv(t)

----------------------------------------------------------------------------
(* What holds of the user's calls and of the scan.                        *)

Taught(k) == rows[k] > 0 \/ k \in hist.forgotten

KeyOf(f, k) == \E a \in {f[1], Everywhere} : k = <<finding[f].fp, a>>

CallInv(u) ==
    call[u] \in Request =>
      /\ call[u].f \in DOMAIN finding /\ KeyOf(call[u].f, call[u].key)
      /\ call[u].op = "mark" => Taught(call[u].key)

LearntInv ==
    /\ \A k \in hist.learnt \ hist.forgotten : rows[k] > 0
    /\ \A f \in DOMAIN finding : finding[f].status = "false_positive" =>
         \E k \in Key : KeyOf(f, k) /\ Taught(k)

IInv == /\ Types /\ LearntInv /\ CountsMatchFindings
        /\ \A t \in Target : TargetInv(t)
        /\ \A u \in User : CallInv(u)

LEMMA InitInv == Init => IInv
<1> SUFFICES ASSUME Init PROVE IInv
  OBVIOUS
<1>1. PICK K \in SUBSET Key :
        /\ rows = [k \in Key |-> IF k \in K THEN 1 ELSE 0]
        /\ hist = [learnt |-> K, forgotten |-> {}, inLoop |-> {}, late |-> [t \in Target |-> 0],
                   requests |-> 0, accidents |-> 0]
  BY DEF Init
<1>2. Fresh \in Local /\ Fresh.n = 0 /\ Fresh.reply = "off" /\ Fresh.n <= Len(Fresh.found)
  BY DEF Fresh, Local, Class, Reply
<1>3. hist \in Memory
  BY <1>1 DEF Memory
<1>4. finding = <<>> /\ DOMAIN finding = {}
  BY DEF Init
<1>5. Types
  <2>1. at \in [Target -> Local] /\ \A t \in Target : at[t].n <= Len(at[t].found)
    BY <1>2 DEF Init
  <2>2. rows \in [Key -> Nat] /\ call \in [User -> {Idle} \cup Request]
    BY <1>1 DEF Init
  <2>3. QED
    BY <1>3, <1>4, <2>1, <2>2 DEF Init, Types, Steps, Statuses
<1>6. LearntInv
  BY <1>1, <1>4 DEF LearntInv
<1>7. ASSUME NEW t \in Target PROVE TargetInv(t)
  BY <1>1, <1>2, <1>4 DEF Init, TargetInv, ToolInv, FindInv, KnownInv, CancelInv, Runs, Found,
     Before, Writing, LoopBody
<1>8. ASSUME NEW u \in User PROVE CallInv(u)
  BY DEF Init, CallInv, Idle, Request
<1>9. CountsMatchFindings
  BY DEF Init, CountsMatchFindings
<1>10. QED
  BY <1>5, <1>6, <1>7, <1>8, <1>9 DEF IInv

----------------------------------------------------------------------------
(* The steps of a target that write nothing but their own run of a tool.  *)

Elsewhere(t) ==
    \A o \in Target \ {t} :
      /\ pc'[o] = pc[o] /\ status'[o] = status[o] /\ at'[o] = at[o]
      /\ Runs(o)' = Runs(o)

Moved(t) ==
    /\ pc' \in [Target -> Steps] /\ status' \in [Target -> Statuses]
    /\ at' \in [Target -> Local] /\ at'[t].n <= Len(at'[t].found)
    /\ Elsewhere(t)

\* A target moves without touching what others see.
LEMMA MoveStep ==
    ASSUME IInv, NEW t \in Target, Moved(t), scan = "running", TargetInv(t)',
           UNCHANGED <<scan, finding, rows, call, cancelled, hist, paged>>
    PROVE  IInv'
<1>1. Types'
  BY DEF IInv, Types, Moved, Elsewhere
<1>2. ASSUME NEW o \in Target, o # t PROVE TargetInv(o)'
  <2>1. TargetInv(o)
    BY DEF IInv
  <2>2. /\ pc'[o] = pc[o] /\ status'[o] = status[o] /\ at'[o] = at[o] /\ Runs(o)' = Runs(o)
    BY <1>2 DEF Moved, Elsewhere
  <2>3. ToolInv(o)'
    BY <2>1, <2>2 DEF TargetInv, ToolInv, Fork
  <2>4. FindInv(o)'
    BY <2>1, <2>2 DEF TargetInv, FindInv, Found, Current, Reviewed, Settled
  <2>5. KnownInv(o)'
    BY <2>1, <2>2 DEF TargetInv, KnownInv, Found, Candidate, Known
  <2>6. CancelInv(o)'
    BY <2>1, <2>2 DEF TargetInv, CancelInv
  <2>7. QED
    BY <2>3, <2>4, <2>5, <2>6 DEF TargetInv
<1>3. LearntInv' /\ \A u \in User : CallInv(u)'
  BY DEF IInv, LearntInv, CallInv, KeyOf, Taught
<1>4. CountsMatchFindings'
  BY DEF CountsMatchFindings
<1>5. QED
  BY <1>1, <1>2, <1>3, <1>4 DEF IInv
LEMMA FoundType ==
    ASSUME NEW k \in Local, NEW fs \in Seq(Fingerprint), NEW x,
           x = [k EXCEPT !.found = fs, !.stage = @ + 1]
    PROVE  x \in Local
<1>1. k.stage + 1 \in Nat
  BY DEF Local
<1>2. QED
  BY <1>1 DEF Local

LEMMA SpentType ==
    ASSUME NEW k \in Local, NEW x, x \in {[k EXCEPT !.pocs = @ + 1], [k EXCEPT !.sims = @ + 1]}
    PROVE  /\ x \in Local /\ x.fork = k.fork /\ x.n = k.n
           /\ x.found = k.found /\ x.reply = k.reply
<1>1. k.pocs + 1 \in Nat /\ k.sims + 1 \in Nat
  BY DEF Local
<1>2. CASE x = [k EXCEPT !.pocs = @ + 1]
  <2>1. x \in Local
    BY <1>1, <1>2 DEF Local
  <2>2. QED
    BY <1>2, <2>1 DEF Local
<1>3. CASE x = [k EXCEPT !.sims = @ + 1]
  <2>1. x \in Local
    BY <1>1, <1>3 DEF Local
  <2>2. QED
    BY <1>3, <2>1 DEF Local
<1>4. QED
  BY <1>2, <1>3

\* A target whose turn comes after a cancel is left alone, and completes nothing.
LEMMA BeginStep ==
    ASSUME IInv, NEW t \in Target, Begin(t)
    PROVE  IInv'
<1>1. TargetInv(t) /\ Types
  BY DEF IInv
<1>2. Moved(t)
  BY <1>1, PipelineAssumption DEF Types, Moved, Elsewhere, Runs, Steps, Statuses, Begin, Turn,
     Goto, SetStatus
<1>3. ToolInv(t)'
  BY <1>1 DEF Types, TargetInv, ToolInv, Runs, Begin, Turn, Goto, SetStatus, Fork
<1>4. FindInv(t)'
  BY <1>1 DEF Types, TargetInv, FindInv, Found, Current, Reviewed, Settled, Before, Writing,
     LoopBody, Begin, Turn, Goto, SetStatus
<1>5. KnownInv(t)'
  BY <1>1 DEF Types, TargetInv, KnownInv, Found, Candidate, Known, Writing, LoopBody,
     Begin, Turn, Goto, SetStatus
<1>6. CancelInv(t)'
  BY <1>1 DEF Types, TargetInv, CancelInv, LoopBody, Begin, Turn, LoopIsFree, Goto, SetStatus,
     unchangedUser
<1>7. QED
  BY <1>2, <1>3, <1>4, <1>5, <1>6, MoveStep DEF Begin, Turn, LoopIsFree, unchangedUser, TargetInv

\* The stages before the tools write only the status.
LEMMA ResolveStep ==
    ASSUME IInv, NEW t \in Target, Resolve(t)
    PROVE  IInv'
<1>1. TargetInv(t) /\ Types
  BY DEF IInv
<1>2. Moved(t)
  BY <1>1, PipelineAssumption DEF Types, Moved, Elsewhere, Runs, Steps, Statuses, Resolve, Turn,
     Goto, SetStatus
<1>3. ToolInv(t)'
  BY <1>1 DEF Types, TargetInv, ToolInv, Runs, Resolve, Turn, Goto, SetStatus, Fork
<1>4. FindInv(t)'
  BY <1>1 DEF Types, TargetInv, FindInv, Found, Current, Reviewed, Settled, Before, Writing,
     LoopBody, Resolve, Turn, Goto, SetStatus
<1>5. KnownInv(t)'
  BY <1>1 DEF Types, TargetInv, KnownInv, Found, Candidate, Known, Writing, LoopBody,
     Resolve, Turn, Goto, SetStatus
<1>6. CancelInv(t)'
  BY <1>1 DEF Types, TargetInv, CancelInv, LoopBody, Resolve, Turn, LoopIsFree, Goto, SetStatus,
     unchangedUser
<1>7. QED
  BY <1>2, <1>3, <1>4, <1>5, <1>6, MoveStep DEF Resolve, Turn, LoopIsFree, unchangedUser, TargetInv

LEMMA ResolvedStep ==
    ASSUME IInv, NEW t \in Target, Resolved(t)
    PROVE  IInv'
<1>1. TargetInv(t) /\ Types
  BY DEF IInv
<1>2. Moved(t)
  BY <1>1, PipelineAssumption DEF Types, Moved, Elsewhere, Runs, Steps, Statuses, Resolved, Turn,
     Goto, SetStatus
<1>3. ToolInv(t)'
  BY <1>1 DEF Types, TargetInv, ToolInv, Runs, Resolved, Turn, Goto, SetStatus, Fork
<1>4. FindInv(t)'
  BY <1>1 DEF Types, TargetInv, FindInv, Found, Current, Reviewed, Settled, Before, Writing,
     LoopBody, Resolved, Turn, Goto, SetStatus
<1>5. KnownInv(t)'
  BY <1>1 DEF Types, TargetInv, KnownInv, Found, Candidate, Known, Writing, LoopBody,
     Resolved, Turn, Goto, SetStatus
<1>6. CancelInv(t)'
  BY <1>1 DEF Types, TargetInv, CancelInv, LoopBody, Resolved, Turn, LoopIsFree, Goto, SetStatus,
     unchangedUser
<1>7. QED
  BY <1>2, <1>3, <1>4, <1>5, <1>6, MoveStep DEF Resolved, Turn, LoopIsFree, unchangedUser, TargetInv

LEMMA ToToolsStep ==
    ASSUME IInv, NEW t \in Target, ToTools(t)
    PROVE  IInv'
<1>1. TargetInv(t) /\ Types
  BY DEF IInv
<1>2. Moved(t)
  BY <1>1, PipelineAssumption DEF Types, Moved, Elsewhere, Runs, Steps, Statuses, ToTools, Turn,
     Goto, SetStatus
<1>3. ToolInv(t)'
  BY <1>1 DEF Types, TargetInv, ToolInv, Runs, ToTools, Turn, Goto, SetStatus, Fork
<1>4. FindInv(t)'
  BY <1>1 DEF Types, TargetInv, FindInv, Found, Current, Reviewed, Settled, Before, Writing,
     LoopBody, ToTools, Turn, Goto, SetStatus
<1>5. KnownInv(t)'
  BY <1>1 DEF Types, TargetInv, KnownInv, Found, Candidate, Known, Writing, LoopBody,
     ToTools, Turn, Goto, SetStatus
<1>6. CancelInv(t)'
  BY <1>1 DEF Types, TargetInv, CancelInv, LoopBody, ToTools, Turn, LoopIsFree, Goto, SetStatus,
     unchangedUser
<1>7. QED
  BY <1>2, <1>3, <1>4, <1>5, <1>6, MoveStep DEF ToTools, Turn, LoopIsFree, unchangedUser, TargetInv

\* A tool opens the one run its target has.
LEMMA StartToolStep ==
    ASSUME IInv, NEW t \in Target, StartTool(t)
    PROVE  IInv'
<1>1. TargetInv(t) /\ Types
  BY DEF IInv
<1>2. Moved(t)
  BY <1>1, PipelineAssumption DEF Types, Moved, Elsewhere, Runs, Steps, Statuses, StartTool, Turn,
     Goto, SetStatus, OpenRun
<1>3. ToolInv(t)'
  BY <1>1 DEF Types, TargetInv, ToolInv, Runs, StartTool, Turn, Goto, SetStatus, Fork, OpenRun
<1>4. FindInv(t)'
  BY <1>1 DEF Types, TargetInv, FindInv, Found, Current, Reviewed, Settled, Before, Writing,
     LoopBody, StartTool, Turn, Goto, SetStatus, OpenRun
<1>5. KnownInv(t)'
  BY <1>1 DEF Types, TargetInv, KnownInv, Found, Candidate, Known, Writing, LoopBody,
     StartTool, Turn, Goto, SetStatus, OpenRun
<1>6. CancelInv(t)'
  BY <1>1 DEF Types, TargetInv, CancelInv, LoopBody, StartTool, Turn, LoopIsFree, Goto, SetStatus,
     unchangedUser, OpenRun
<1>7. QED
  BY <1>2, <1>3, <1>4, <1>5, <1>6, MoveStep DEF StartTool, Turn, LoopIsFree, unchangedUser, TargetInv

\* The loop starts with the first candidate.
LEMMA ToLoopStep ==
    ASSUME IInv, NEW t \in Target, ToLoop(t)
    PROVE  IInv'
<1>1. TargetInv(t) /\ Types
  BY DEF IInv
<1>2. Moved(t)
  BY <1>1, PipelineAssumption DEF Types, Moved, Elsewhere, Runs, Steps, Statuses, ToLoop, Turn,
     Goto, SetStatus
<1>3. ToolInv(t)'
  BY <1>1 DEF Types, TargetInv, ToolInv, Runs, ToLoop, Turn, Goto, SetStatus, Fork
<1>4. FindInv(t)'
  BY <1>1 DEF Types, TargetInv, FindInv, Found, Current, Reviewed, Settled, Before, Writing,
     LoopBody, ToLoop, Turn, Goto, SetStatus
<1>5. KnownInv(t)'
  BY <1>1 DEF Types, TargetInv, KnownInv, Found, Candidate, Known, Writing, LoopBody,
     ToLoop, Turn, Goto, SetStatus
<1>6. CancelInv(t)'
  BY <1>1 DEF Types, TargetInv, CancelInv, LoopBody, ToLoop, Turn, LoopIsFree, Goto, SetStatus,
     unchangedUser
<1>7. QED
  BY <1>2, <1>3, <1>4, <1>5, <1>6, MoveStep DEF ToLoop, Turn, LoopIsFree, unchangedUser, TargetInv

LEMMA PersistReviewStep ==
    ASSUME IInv, NEW t \in Target, PersistReview(t)
    PROVE  IInv'
<1>1. TargetInv(t) /\ Types
  BY DEF IInv
<1>2. Moved(t)
  BY <1>1, PipelineAssumption DEF Types, Moved, Elsewhere, Runs, Steps, Statuses, PersistReview, Turn,
     Goto, SetStatus
<1>3. ToolInv(t)'
  BY <1>1 DEF Types, TargetInv, ToolInv, Runs, PersistReview, Turn, Goto, SetStatus, Fork
<1>4. FindInv(t)'
  BY <1>1 DEF Types, TargetInv, FindInv, Found, Current, Reviewed, Settled, Before, Writing,
     LoopBody, PersistReview, Turn, Goto, SetStatus
<1>5. KnownInv(t)'
  BY <1>1 DEF Types, TargetInv, KnownInv, Found, Candidate, Known, Writing, LoopBody,
     PersistReview, Turn, Goto, SetStatus
<1>6. CancelInv(t)'
  BY <1>1 DEF Types, TargetInv, CancelInv, LoopBody, PersistReview, Turn, LoopIsFree, Goto, SetStatus,
     unchangedUser
<1>7. QED
  BY <1>2, <1>3, <1>4, <1>5, <1>6, MoveStep DEF PersistReview, Turn, LoopIsFree, unchangedUser, TargetInv

\* A target completes between two candidates, with no run open.
LEMMA CompleteStep ==
    ASSUME IInv, NEW t \in Target, Complete(t)
    PROVE  IInv'
<1>1. TargetInv(t) /\ Types
  BY DEF IInv
<1>2. Moved(t)
  BY <1>1, PipelineAssumption DEF Types, Moved, Elsewhere, Runs, Steps, Statuses, Complete, Turn,
     Goto, SetStatus, LoopEnds
<1>3. ToolInv(t)'
  BY <1>1 DEF Types, TargetInv, ToolInv, Runs, Complete, Turn, Goto, SetStatus, Fork, LoopEnds
<1>4. FindInv(t)'
  BY <1>1 DEF Types, TargetInv, FindInv, Found, Current, Reviewed, Settled, Before, Writing,
     LoopBody, Complete, Turn, Goto, SetStatus, LoopEnds
<1>5. KnownInv(t)'
  BY <1>1 DEF Types, TargetInv, KnownInv, Found, Candidate, Known, Writing, LoopBody,
     Complete, Turn, Goto, SetStatus, LoopEnds
<1>6. CancelInv(t)'
  BY <1>1 DEF Types, TargetInv, CancelInv, LoopBody, Complete, Turn, LoopIsFree, Goto, SetStatus,
     unchangedUser, LoopEnds
<1>7. QED
  BY <1>2, <1>3, <1>4, <1>5, <1>6, MoveStep DEF Complete, Turn, LoopIsFree, unchangedUser, TargetInv

\* A tool closes the run it opened, however it ended.
LEMMA FinishToolStep ==
    ASSUME IInv, NEW t \in Target, FinishTool(t)
    PROVE  IInv'
<1>1. TargetInv(t) /\ Types
  BY DEF IInv
<1> DEFINE k == at[t]
<1>a. at'[t] = [k EXCEPT !.stage = @ + 1] /\ at'[t] \in Local /\ at'[t].n <= Len(at'[t].found)
      /\ at' \in [Target -> Local] /\ \A o \in Target \ {t} : at'[o] = at[o]
  <2>1. k \in Local /\ k.n <= Len(k.found)
    BY <1>1 DEF Types
  <2>2. at'[t] = [k EXCEPT !.stage = @ + 1] /\ at' = [at EXCEPT ![t] = at'[t]]
    BY <1>1 DEF Types, FinishTool
  <2> HIDE DEF k
  <2>3. at'[t] \in Local /\ at'[t].n <= Len(at'[t].found)
    BY <2>1, <2>2 DEF Local
  <2>4. QED
    BY <1>1, <2>2, <2>3 DEF Types, k
<1>2. Moved(t)
  BY <1>1, <1>a, PipelineAssumption DEF Types, Moved, Elsewhere, Runs, Steps, Statuses, FinishTool, Turn,
     Goto, SetStatus, CloseRun
<1>3. ToolInv(t)'
  BY <1>1, <1>a DEF Types, TargetInv, ToolInv, Runs, FinishTool, Turn, Goto, SetStatus, Fork, CloseRun
<1>4. FindInv(t)'
  BY <1>1, <1>a DEF Types, TargetInv, FindInv, Found, Current, Reviewed, Settled, Before, Writing,
     LoopBody, FinishTool, Turn, Goto, SetStatus, CloseRun
<1>5. KnownInv(t)'
  BY <1>1, <1>a DEF Types, TargetInv, KnownInv, Found, Candidate, Known, Writing, LoopBody,
     FinishTool, Turn, Goto, SetStatus, CloseRun
<1>6. CancelInv(t)'
  BY <1>1, <1>a DEF Types, TargetInv, CancelInv, LoopBody, FinishTool, Turn, LoopIsFree, Goto, SetStatus,
     unchangedUser, CloseRun
<1>7. QED
  BY <1>2, <1>3, <1>4, <1>5, <1>6, MoveStep DEF FinishTool, Turn, LoopIsFree, unchangedUser, TargetInv

\* The candidates are found before the first of them is looked at.
LEMMA DetectStep ==
    ASSUME IInv, NEW t \in Target, Detect(t)
    PROVE  IInv'
<1>1. TargetInv(t) /\ Types
  BY DEF IInv
<1> DEFINE k == at[t]
<1>b. PICK m \in 0..MaxCandidates[t] : \E g \in [1..m -> Fingerprint] :
         at' = [at EXCEPT ![t].found = g, ![t].stage = @ + 1]
  BY DEF Detect
<1>c. PICK fs \in [1..m -> Fingerprint] : at' = [at EXCEPT ![t].found = fs, ![t].stage = @ + 1]
  BY <1>b
<1>d. fs \in Seq(Fingerprint) /\ Len(fs) \in Nat
  <2>1. m \in Nat
    BY PipelineAssumption
  <2>2. QED
    BY <2>1
<1>e. k.n = 0
  BY <1>1 DEF TargetInv, FindInv, Before, Detect, Turn
<1>a. at'[t] = [k EXCEPT !.found = fs, !.stage = @ + 1] /\ at'[t] \in Local /\ at'[t].n <= Len(at'[t].found)
      /\ at' \in [Target -> Local] /\ \A o \in Target \ {t} : at'[o] = at[o]
  <2>1. k \in Local /\ k.n <= Len(k.found)
    BY <1>1 DEF Types
  <2>2. at'[t] = [k EXCEPT !.found = fs, !.stage = @ + 1] /\ at' = [at EXCEPT ![t] = at'[t]]
    BY <1>1, <1>c DEF Types
  <2> HIDE DEF k
  <2>3. at'[t] \in Local /\ at'[t].n <= Len(at'[t].found)
    <3>1. at'[t].found = fs /\ at'[t].n = 0
      BY <2>1, <2>2, <1>e DEF Local, k
    <3>2. at'[t].n <= Len(at'[t].found)
      BY <1>d, <3>1
    <3>3. at'[t] \in Local
      BY <1>d, <2>1, <2>2, FoundType
    <3>4. QED
      BY <3>2, <3>3
  <2>4. QED
    BY <1>1, <2>2, <2>3 DEF Types, k
<1>2. Moved(t)
  BY <1>1, <1>a, PipelineAssumption DEF Types, Moved, Elsewhere, Runs, Steps, Statuses, Detect, Turn,
     Goto, SetStatus
<1>3. ToolInv(t)'
  BY <1>1, <1>a DEF Types, TargetInv, ToolInv, Runs, Detect, Turn, Goto, SetStatus, Fork
<1>4. FindInv(t)'
  BY <1>1, <1>a DEF Types, TargetInv, FindInv, Found, Current, Reviewed, Settled, Before, Writing,
     LoopBody, Detect, Turn, Goto, SetStatus
<1>5. KnownInv(t)'
  BY <1>1, <1>a DEF Types, TargetInv, KnownInv, Found, Candidate, Known, Writing, LoopBody,
     Detect, Turn, Goto, SetStatus
<1>6. CancelInv(t)'
  BY <1>1, <1>a DEF Types, TargetInv, CancelInv, LoopBody, Detect, Turn, LoopIsFree, Goto, SetStatus,
     unchangedUser
<1>7. QED
  BY <1>2, <1>3, <1>4, <1>5, <1>6, MoveStep DEF Detect, Turn, LoopIsFree, unchangedUser, TargetInv

\* The score is confirmed or not; the fork checks come next.
LEMMA ScoreStep ==
    ASSUME IInv, NEW t \in Target, Score(t)
    PROVE  IInv'
<1>1. TargetInv(t) /\ Types
  BY DEF IInv
<1> DEFINE k == at[t]
<1>b. PICK c \in Class : at' = [at EXCEPT ![t].class = c]
  BY DEF Score, Class
<1>a. at'[t] = [k EXCEPT !.class = c] /\ at'[t] \in Local /\ at'[t].n <= Len(at'[t].found)
      /\ at' \in [Target -> Local] /\ \A o \in Target \ {t} : at'[o] = at[o]
  <2>1. k \in Local /\ k.n <= Len(k.found)
    BY <1>1 DEF Types
  <2>2. at'[t] = [k EXCEPT !.class = c] /\ at' = [at EXCEPT ![t] = at'[t]]
    BY <1>1, <1>b DEF Types
  <2> HIDE DEF k
  <2>3. at'[t] \in Local /\ at'[t].n <= Len(at'[t].found)
    BY <2>1, <2>2 DEF Local
  <2>4. QED
    BY <1>1, <2>2, <2>3 DEF Types, k
<1>2. Moved(t)
  BY <1>1, <1>a, PipelineAssumption DEF Types, Moved, Elsewhere, Runs, Steps, Statuses, Score, Turn,
     Goto, SetStatus
<1>3. ToolInv(t)'
  BY <1>1, <1>a DEF Types, TargetInv, ToolInv, Runs, Score, Turn, Goto, SetStatus, Fork
<1>4. FindInv(t)'
  BY <1>1, <1>a DEF Types, TargetInv, FindInv, Found, Current, Reviewed, Settled, Before, Writing,
     LoopBody, Score, Turn, Goto, SetStatus
<1>5. KnownInv(t)'
  BY <1>1, <1>a DEF Types, TargetInv, KnownInv, Found, Candidate, Known, Writing, LoopBody,
     Score, Turn, Goto, SetStatus
<1>6. CancelInv(t)'
  BY <1>1, <1>a DEF Types, TargetInv, CancelInv, LoopBody, Score, Turn, LoopIsFree, Goto, SetStatus,
     unchangedUser
<1>7. QED
  BY <1>2, <1>3, <1>4, <1>5, <1>6, MoveStep DEF Score, Turn, LoopIsFree, unchangedUser, TargetInv

\* A review leaves its reply for the finding that comes next.
LEMMA ReviewStep ==
    ASSUME IInv, NEW t \in Target, Review(t)
    PROVE  IInv'
<1>1. TargetInv(t) /\ Types
  BY DEF IInv
<1> DEFINE k == at[t]
<1>b. PICK r \in Reply : at' = [at EXCEPT ![t].reply = r]
  BY PipelineAssumption DEF Review
<1>a. at'[t] = [k EXCEPT !.reply = r] /\ at'[t] \in Local /\ at'[t].n <= Len(at'[t].found)
      /\ at' \in [Target -> Local] /\ \A o \in Target \ {t} : at'[o] = at[o]
  <2>1. k \in Local /\ k.n <= Len(k.found)
    BY <1>1 DEF Types
  <2>2. at'[t] = [k EXCEPT !.reply = r] /\ at' = [at EXCEPT ![t] = at'[t]]
    BY <1>1, <1>b DEF Types
  <2> HIDE DEF k
  <2>3. at'[t] \in Local /\ at'[t].n <= Len(at'[t].found)
    BY <2>1, <2>2 DEF Local
  <2>4. QED
    BY <1>1, <2>2, <2>3 DEF Types, k
<1>2. Moved(t)
  BY <1>1, <1>a, PipelineAssumption DEF Types, Moved, Elsewhere, Runs, Steps, Statuses, Review, Turn,
     Goto, SetStatus
<1>3. ToolInv(t)'
  BY <1>1, <1>a DEF Types, TargetInv, ToolInv, Runs, Review, Turn, Goto, SetStatus, Fork
<1>4. FindInv(t)'
  BY <1>1, <1>a DEF Types, TargetInv, FindInv, Found, Current, Reviewed, Settled, Before, Writing,
     LoopBody, Review, Turn, Goto, SetStatus
<1>5. KnownInv(t)'
  BY <1>1, <1>a DEF Types, TargetInv, KnownInv, Found, Candidate, Known, Writing, LoopBody,
     Review, Turn, Goto, SetStatus
<1>6. CancelInv(t)'
  BY <1>1, <1>a DEF Types, TargetInv, CancelInv, LoopBody, Review, Turn, LoopIsFree, Goto, SetStatus,
     unchangedUser
<1>7. QED
  BY <1>2, <1>3, <1>4, <1>5, <1>6, MoveStep DEF Review, Turn, LoopIsFree, unchangedUser, TargetInv

LEMMA NextFork == Len(Forks) = 3 /\ \A i \in 1..3 : (i % Len(Forks)) + 1 \in 1..3
<1>1. Len(Forks) = 3
  BY DEF Forks
<1>2. \A i \in 1..3 : (i % 3) + 1 \in 1..3
  OBVIOUS
<1>3. QED
  BY <1>1, <1>2

\* A fork check closes its run before the next one.
LEMMA FinishForkStep ==
    ASSUME IInv, NEW t \in Target, FinishFork(t)
    PROVE  IInv'
<1>1. TargetInv(t) /\ Types
  BY DEF IInv
<1> DEFINE k == at[t]
<1>b. PICK c \in Class : at' = [at EXCEPT ![t].class = c, ![t].fork = (@ % Len(Forks)) + 1]
  BY <1>1 DEF Types, Local, Class, FinishFork
<1>c. (k.fork % Len(Forks)) + 1 \in 1..3
  BY <1>1, NextFork DEF Types, Local
<1>d. k.fork \in 1..3
  BY <1>1 DEF Types, Local
<1>a. at'[t] = [k EXCEPT !.class = c, !.fork = (@ % Len(Forks)) + 1] /\ at'[t] \in Local /\ at'[t].n <= Len(at'[t].found)
      /\ at' \in [Target -> Local] /\ \A o \in Target \ {t} : at'[o] = at[o]
  <2>1. k \in Local /\ k.n <= Len(k.found)
    BY <1>1 DEF Types
  <2>2. at'[t] = [k EXCEPT !.class = c, !.fork = (@ % Len(Forks)) + 1] /\ at' = [at EXCEPT ![t] = at'[t]]
    BY <1>1, <1>b DEF Types
  <2> HIDE DEF k
  <2>3. at'[t] \in Local /\ at'[t].n <= Len(at'[t].found)
    BY <2>1, <2>2, <1>c DEF Local
  <2>4. QED
    BY <1>1, <2>2, <2>3 DEF Types, k
<1>2. Moved(t)
  BY <1>1, <1>a, PipelineAssumption DEF Types, Moved, Elsewhere, Runs, Steps, Statuses, FinishFork, Turn,
     Goto, SetStatus, CloseRun, AfterFork, Forks
<1>3. ToolInv(t)'
  BY <1>1, <1>a DEF Types, TargetInv, ToolInv, Runs, FinishFork, Turn, Goto, SetStatus, Fork, CloseRun, AfterFork, Forks
<1>4. FindInv(t)'
  BY <1>1, <1>a DEF Types, TargetInv, FindInv, Found, Current, Reviewed, Settled, Before, Writing,
     LoopBody, FinishFork, Turn, Goto, SetStatus, CloseRun, AfterFork, Forks
<1>5. KnownInv(t)'
  BY <1>1, <1>a DEF Types, TargetInv, KnownInv, Found, Candidate, Known, Writing, LoopBody,
     FinishFork, Turn, Goto, SetStatus, CloseRun, AfterFork, Forks
<1>6. CancelInv(t)'
  BY <1>1, <1>a DEF Types, TargetInv, CancelInv, LoopBody, FinishFork, Turn, LoopIsFree, Goto, SetStatus,
     unchangedUser, CloseRun, AfterFork, Forks
<1>7. QED
  BY <1>2, <1>3, <1>4, <1>5, <1>6, MoveStep DEF FinishFork, Turn, LoopIsFree, unchangedUser, TargetInv

\* A check that is skipped, or that comes to nothing, opens no run; one that
\* runs opens the run of its check.
LEMMA CheckOnForkStep ==
    ASSUME IInv, NEW t \in Target, CheckOnFork(t)
    PROVE  IInv'
<1>1. TargetInv(t) /\ Types
  BY DEF IInv
<1> DEFINE k == at[t]
           next == (k.fork % Len(Forks)) + 1
<1>2. k \in Local /\ k.n <= Len(k.found) /\ next \in 1..3
  BY <1>1, NextFork DEF Types, Local
<1>3. /\ scan = "running" /\ pc[t] = "checking"
      /\ UNCHANGED <<scan, counts, status, finding, paged, hist, unchangedUser>>
  BY DEF CheckOnFork, Turn, LoopIsFree
<1>4. \/ /\ at' = [at EXCEPT ![t].fork = next] /\ pc' = [pc EXCEPT ![t] = AfterFork(t)]
         /\ UNCHANGED open
      \/ /\ at' = [at EXCEPT ![t] = [Spent(t) EXCEPT !.fork = (@ % Len(Forks)) + 1]]
         /\ pc' = [pc EXCEPT ![t] = AfterFork(t)] /\ UNCHANGED open
      \/ /\ at' = [at EXCEPT ![t] = Spent(t)] /\ pc' = [pc EXCEPT ![t] = "fork_run"]
         /\ open' = open \cup {<<t, Fork(t)>>}
  BY DEF CheckOnFork, Goto, OpenRun
<1>5. /\ Spent(t) \in Local /\ Spent(t).fork = k.fork /\ Spent(t).n = k.n
      /\ Spent(t).found = k.found /\ Spent(t).reply = k.reply
  <2>1. Spent(t) \in {[k EXCEPT !.pocs = @ + 1], [k EXCEPT !.sims = @ + 1]}
    BY DEF Spent
  <2> HIDE DEF k
  <2>2. QED
    BY <1>2, <2>1, SpentType
<1>6. /\ at' = [at EXCEPT ![t] = at'[t]] /\ at'[t] \in Local
      /\ at'[t].n = k.n /\ at'[t].found = k.found /\ at'[t].reply = k.reply
      /\ pc' = [pc EXCEPT ![t] = pc'[t]] /\ pc'[t] \in {"checking", "reviewing", "fork_run"}
      /\ pc'[t] # "fork_run" => UNCHANGED open
      /\ pc'[t] = "fork_run" => open' = open \cup {<<t, Fork(t)>>} /\ at'[t].fork = k.fork
  <2>1. AfterFork(t) \in {"checking", "reviewing"}
    BY DEF AfterFork
  <2>2. CASE /\ at' = [at EXCEPT ![t].fork = next] /\ pc' = [pc EXCEPT ![t] = AfterFork(t)]
             /\ UNCHANGED open
    <3>1. at'[t] = [k EXCEPT !.fork = next]
      BY <1>1, <2>2 DEF Types
    <3> HIDE DEF k, next
    <3>2. /\ at'[t] \in Local /\ at'[t].n = k.n /\ at'[t].found = k.found
          /\ at'[t].reply = k.reply
      BY <1>2, <3>1 DEF Local
    <3>3. QED
      BY <1>1, <2>1, <2>2, <3>2 DEF Types, k
  <2>3. CASE /\ at' = [at EXCEPT ![t] = [Spent(t) EXCEPT !.fork = (@ % Len(Forks)) + 1]]
             /\ pc' = [pc EXCEPT ![t] = AfterFork(t)] /\ UNCHANGED open
    <3>1. at'[t] = [Spent(t) EXCEPT !.fork = next]
      BY <1>1, <1>5, <2>3 DEF Types
    <3> HIDE DEF k, next
    <3>2. /\ at'[t] \in Local /\ at'[t].n = k.n /\ at'[t].found = k.found
          /\ at'[t].reply = k.reply
      BY <1>2, <1>5, <3>1 DEF Local
    <3>3. QED
      BY <1>1, <2>1, <2>3, <3>2 DEF Types
  <2>4. CASE /\ at' = [at EXCEPT ![t] = Spent(t)] /\ pc' = [pc EXCEPT ![t] = "fork_run"]
             /\ open' = open \cup {<<t, Fork(t)>>}
    BY <1>1, <1>5, <2>4 DEF Types
  <2>5. QED
    BY <1>4, <2>2, <2>3, <2>4
<1>7. Moved(t)
  <2>1. pc' \in [Target -> Steps] /\ status' \in [Target -> Statuses] /\ at' \in [Target -> Local]
    BY <1>1, <1>3, <1>6 DEF Types, Steps
  <2>2. at'[t].n <= Len(at'[t].found)
    BY <1>2, <1>6
  <2>3. Elsewhere(t)
    BY <1>1, <1>3, <1>6 DEF Types, Elsewhere, Runs
  <2>4. QED
    BY <2>1, <2>2, <2>3 DEF Moved
<1>8. ToolInv(t)'
  BY <1>1, <1>3, <1>6 DEF Types, TargetInv, ToolInv, Runs, Fork
<1>9. FindInv(t)'
  BY <1>1, <1>3, <1>6 DEF TargetInv, FindInv, Found, Current, Reviewed, Settled, Before, Writing,
     LoopBody
<1>10. KnownInv(t)'
  BY <1>1, <1>3, <1>6 DEF TargetInv, KnownInv, Found, Candidate, Known, Writing, LoopBody
<1>11. CancelInv(t)'
  BY <1>1, <1>3, <1>6 DEF TargetInv, CancelInv, LoopBody, unchangedUser
<1>12. QED
  BY <1>3, <1>7, <1>8, <1>9, <1>10, <1>11, MoveStep DEF unchangedUser, TargetInv

\* A candidate the table knows is not looked at any further.
LEMMA NextCandidateStep ==
    ASSUME IInv, NEW t \in Target, NextCandidate(t)
    PROVE  IInv'
<1>1. TargetInv(t) /\ Types /\ LearntInv
  BY DEF IInv
<1> DEFINE k == at[t]
           m == k.n + 1
<1>2. k \in Local /\ k.n <= Len(k.found)
  BY <1>1 DEF Types
<1>3. /\ scan = "running" /\ pc[t] = "ai" /\ ~cancelled /\ k.n # Len(k.found)
      /\ UNCHANGED <<scan, counts, status, open, finding, paged, hist, unchangedUser>>
  BY DEF NextCandidate, Turn, LoopIsFree, LoopEnds
<1>4. PICK gated \in BOOLEAN :
        /\ at' = [at EXCEPT ![t].n = m,
                     ![t].class = IF gated \/ IsSuppressed(k.found[m], t) THEN "fp" ELSE @]
        /\ pc' = [pc EXCEPT ![t] = IF gated \/ IsSuppressed(k.found[m], t)
                                   THEN "persist" ELSE "refuting"]
  BY DEF NextCandidate, Goto
<1> DEFINE suppressed == gated \/ IsSuppressed(k.found[m], t)
<1>5. m \in 1..Len(k.found) /\ m \in Nat
  <2> HIDE DEF k
  <2>1. k.n \in Nat /\ Len(k.found) \in Nat
    BY <1>2 DEF Local
  <2>2. QED
    BY <1>2, <1>3, <2>1
<1>6. /\ at'[t] = [k EXCEPT !.n = m, !.class = IF suppressed THEN "fp" ELSE @]
      /\ at' = [at EXCEPT ![t] = at'[t]]
      /\ pc' = [pc EXCEPT ![t] = pc'[t]]
      /\ pc'[t] = IF suppressed THEN "persist" ELSE "refuting"
  BY <1>1, <1>4 DEF Types
<1> HIDE DEF suppressed
<1>7. /\ at'[t] \in Local /\ at'[t].n = m /\ at'[t].found = k.found /\ at'[t].reply = k.reply
      /\ suppressed => at'[t].class = "fp"
  <2> HIDE DEF k, m
  <2>1. QED
    BY <1>2, <1>5, <1>6 DEF Local, Class
<1>8. Known(k.found[m], t) => suppressed
  <2>1. k.found[m] \in Fingerprint
    BY <1>2, <1>5 DEF Local
  <2>2. \A a \in {t, Everywhere} : <<k.found[m], a>> \in Key
    BY <2>1 DEF Key
  <2>3. QED
    BY <1>1, <2>2 DEF Known, suppressed, IsSuppressed, LearntInv
<1>9. k.reply = "off" /\ \A f \in Found(t) : f[2] \in Nat /\ f[2] <= k.n
  BY <1>1, <1>3 DEF TargetInv, KnownInv, FindInv, Found, Types, Writing
<1>10. Moved(t)
  BY <1>1, <1>3, <1>5, <1>6, <1>7 DEF Types, Moved, Elsewhere, Runs, Steps, Statuses
<1>11. ToolInv(t)'
  BY <1>1, <1>3, <1>6 DEF TargetInv, ToolInv, Runs
<1>12. FindInv(t)'
  <2>1. k.n \in Nat
    BY <1>2 DEF Local
  <2>2. \A f \in Found(t) : f[2] < m
    BY <1>9, <2>1
  <2>3. pc'[t] \in {"persist", "refuting"}
    BY <1>6
  <2>4. status[t] # "completed" /\ \A f \in Found(t) : Settled(f) /\ (f \in paged => finding[f].class = "confirmed")
    BY <1>1, <1>3 DEF TargetInv, ToolInv, FindInv, Writing
  <2>5. Found(t)' = Found(t) /\ \A f \in Found(t) : Settled(f)' = Settled(f)
    BY <1>3 DEF Found, Settled, Reviewed
  <2>6. QED
    BY <1>3, <1>7, <2>2, <2>3, <2>4, <2>5 DEF FindInv, Before, Writing, LoopBody
<1>13. KnownInv(t)'
  <2>1. pc'[t] \in {"persist", "refuting"} /\ (pc'[t] = "persist" <=> suppressed)
    BY <1>6
  <2>2. Candidate(t)' = k.found[m]
    BY <1>7 DEF Candidate
  <2>3. Known(Candidate(t), t)' <=> Known(k.found[m], t)
    BY <1>3, <2>2 DEF Known
  <2>4. \A f \in Found(t) : Known(finding[f].fp, t) =>
          finding[f].class = "fp" /\ finding[f].reply = "off" /\ f \notin paged
    BY <1>1 DEF TargetInv, KnownInv
  <2>5. Found(t)' = Found(t) /\ \A fp : Known(fp, t)' = Known(fp, t)
    BY <1>3 DEF Found, Known
  <2>6. QED
    BY <1>3, <1>5, <1>7, <1>8, <1>9, <2>1, <2>3, <2>4, <2>5 DEF KnownInv, Writing, LoopBody
<1>14. CancelInv(t)'
  BY <1>1, <1>3, <1>6 DEF TargetInv, CancelInv, LoopBody, unchangedUser
<1>15. QED
  BY <1>3, <1>10, <1>11, <1>12, <1>13, <1>14, MoveStep DEF unchangedUser, TargetInv

----------------------------------------------------------------------------
(* The steps that write findings, pages or counts.                        *)

SameRow(f) ==
    /\ finding'[f].fp = finding[f].fp /\ finding'[f].class = finding[f].class
    /\ finding'[f].reply = finding[f].reply /\ finding'[f].linked = finding[f].linked

SameRows(o) == /\ Found(o)' = Found(o)
               /\ \A f \in Found(o) : SameRow(f) /\ (f \in paged' <=> f \in paged)

SameTarget(o) == pc'[o] = pc[o] /\ status'[o] = status[o] /\ at'[o] = at[o] /\ Runs(o)' = Runs(o)

\* What a user forgets is known no longer; nothing else becomes known.
Forgets == hist'.learnt = hist.learnt /\ hist.forgotten \subseteq hist'.forgotten

\* A target that does not move, and whose findings keep their verdicts, keeps
\* its invariant.
LEMMA RowFrame ==
    ASSUME NEW o \in Target, TargetInv(o), SameTarget(o), SameRows(o), Forgets
    PROVE  ToolInv(o)' /\ FindInv(o)' /\ KnownInv(o)'
<1>1. ToolInv(o)'
  BY DEF TargetInv, ToolInv, SameTarget, Fork
<1>2. FindInv(o)'
  <2>1. Current(o)' = Current(o)
    BY DEF SameTarget, Current
  <2>2. \A f \in Found(o) : Reviewed(f)' = Reviewed(f) /\ Settled(f)' = Settled(f)
    BY DEF SameRows, SameRow, Reviewed, Settled
  <2>3. QED
    BY <2>1, <2>2 DEF TargetInv, FindInv, SameTarget, SameRows, SameRow
<1>3. KnownInv(o)'
  <2>1. \A fp : Known(fp, o)' => Known(fp, o)
    BY DEF Known, Forgets
  <2>2. Candidate(o)' = Candidate(o)
    BY DEF Candidate, SameTarget
  <2>3. QED
    BY <2>1, <2>2 DEF TargetInv, KnownInv, SameTarget, SameRows, SameRow
<1>4. QED
  BY <1>1, <1>2, <1>3

LEMMA CancelFrame ==
    ASSUME NEW o \in Target, TargetInv(o), pc'[o] = pc[o], UNCHANGED <<scan, cancelled>>,
           hist'.late[o] = hist.late[o], hist'.inLoop = hist.inLoop
    PROVE  CancelInv(o)'
BY DEF TargetInv, CancelInv

\* The calls of the users do not mind new findings.
LEMMA CallFrame ==
    ASSUME NEW u \in User, CallInv(u), call'[u] = call[u],
           \A f \in DOMAIN finding : f \in DOMAIN finding' /\ finding'[f].fp = finding[f].fp,
           \A k : Taught(k) => Taught(k)'
    PROVE  CallInv(u)'
BY DEF CallInv, KeyOf

LEMMA CurrentIs == \A t : Current(t)[1] = t /\ Current(t)[2] = at[t].n
BY DEF Current

\* _persist_finding writes one row that was not there.
LEMMA PersistFindingStep ==
    ASSUME IInv, NEW t \in Target, PersistFinding(t)
    PROVE  IInv'
<1>1. TargetInv(t) /\ Types /\ LearntInv
  BY DEF IInv
<1>a. PICK k : k = at[t]
  OBVIOUS
<1>b. PICK c : c = Current(t)
  OBVIOUS
<1>c. PICK row : row = [fp |-> k.found[k.n], class |-> k.class, reply |-> k.reply,
                        linked |-> FALSE, status |-> "open"]
  OBVIOUS
<1>2. /\ scan = "running" /\ pc[t] = "persist"
      /\ finding' = [f \in DOMAIN finding \cup {c} |-> IF f = c THEN row ELSE finding[f]]
      /\ pc' = [pc EXCEPT ![t] = IF k.reply = "off" THEN "publish" ELSE "persist_review"]
      /\ hist' = IF cancelled THEN [hist EXCEPT !.late[t] = @ + 1] ELSE hist
      /\ UNCHANGED <<scan, counts, status, at, open, paged, rows, call, cancelled>>
  BY <1>a, <1>b, <1>c DEF PersistFinding, Turn, LoopIsFree, Goto, unchangedUser
<1>3. k \in Local /\ k.n \in 1..Len(k.found) /\ k.found[k.n] \in Fingerprint
  BY <1>1, <1>2, <1>a DEF Types, TargetInv, KnownInv, LoopBody, Local
<1>4. c \in Target \X Nat /\ c[1] = t /\ c[2] = k.n /\ row \in Finding
  BY <1>3, <1>a, <1>b, <1>c DEF Current, Finding, Local
<1>5. c \notin DOMAIN finding
  <2>1. \A f \in Found(t) : f[2] < k.n
    BY <1>1, <1>2, <1>a DEF TargetInv, FindInv, LoopBody
  <2>2. k.n \in Nat
    BY <1>3 DEF Local
  <2>3. QED
    BY <1>4, <2>1, <2>2 DEF Found
<1>6. /\ DOMAIN finding' = DOMAIN finding \cup {c} /\ finding'[c] = row
      /\ \A f \in DOMAIN finding : finding'[f] = finding[f]
  BY <1>2, <1>5
<1>7. hist' \in Memory /\ Forgets /\ hist'.inLoop = hist.inLoop
      /\ hist'.late[t] = (IF cancelled THEN hist.late[t] + 1 ELSE hist.late[t])
      /\ \A o \in Target \ {t} : hist'.late[o] = hist.late[o]
  <2>1. CASE ~cancelled
    BY <1>1, <1>2, <2>1 DEF Types, Memory, Forgets
  <2>2. CASE cancelled
    <3>1. hist' = [hist EXCEPT !.late[t] = @ + 1] /\ hist \in Memory
      BY <1>1, <1>2, <2>2 DEF Types
    <3>2. hist.late[t] + 1 \in Nat
      BY <3>1 DEF Memory
    <3>3. hist' \in Memory
      BY <3>1, <3>2 DEF Memory
    <3>4. QED
      BY <2>2, <3>1, <3>3 DEF Memory, Forgets
  <2>3. QED
    BY <2>1, <2>2
<1>8. Types'
  BY <1>1, <1>2, <1>4, <1>6, <1>7 DEF Types, Steps
<1>9. ASSUME NEW o \in Target, o # t PROVE TargetInv(o)'
  <2>1. SameTarget(o)
    BY <1>1, <1>2, <1>9 DEF Types, SameTarget, Runs
  <2>2. SameRows(o)
    BY <1>2, <1>4, <1>6, <1>9 DEF SameRows, SameRow, Found
  <2>3. TargetInv(o)
    BY DEF IInv
  <2>4. QED
    BY <1>2, <1>7, <1>9, <2>1, <2>2, <2>3, RowFrame, CancelFrame DEF TargetInv, SameTarget
<1>10. pc'[t] = IF k.reply = "off" THEN "publish" ELSE "persist_review"
  BY <1>1, <1>2 DEF Types
<1>11. ToolInv(t)'
  BY <1>1, <1>2, <1>10 DEF TargetInv, ToolInv, Runs
<1>12. Found(t)' = Found(t) \cup {c} /\ Current(t)' = c /\ at'[t] = k
  BY <1>2, <1>4, <1>6, <1>a, <1>b DEF Found, Current
<1>13. row.reply = k.reply /\ row.class = k.class /\ row.linked = FALSE /\ row.fp = k.found[k.n]
  BY <1>c
<1>14. c \notin paged
  BY <1>1, <1>5 DEF Types
<1>15. FindInv(t)'
  <2>1. ASSUME NEW f \in Found(t)
        PROVE  /\ f[2] < k.n /\ Settled(f)' /\ f # c /\ (f \in paged => finding[f].class = "confirmed")
               /\ finding'[f] = finding[f]
    <3>1. f[2] < k.n /\ Settled(f) /\ (f \in paged => finding[f].class = "confirmed")
      BY <1>1, <1>2, <1>a DEF TargetInv, FindInv, LoopBody, Writing
    <3>2. f \in DOMAIN finding /\ finding'[f] = finding[f]
      BY <1>6 DEF Found
    <3>3. Settled(f)'
      BY <1>2, <3>1, <3>2 DEF Settled, Reviewed
    <3>4. QED
      BY <1>5, <3>1, <3>2, <3>3
  <2>2. Reviewed(c)' \/ k.reply # "off"
    BY <1>6, <1>13 DEF Reviewed, Class
  <2>3. pc'[t] \in Writing /\ pc'[t] \notin Before \cup LoopBody
    BY <1>10 DEF Writing, Before, LoopBody
  <2>4. \A f \in Found(t) : f[2] \in Nat
    BY <1>1 DEF Types, Found
  <2>5. k.n \in Nat
    BY <1>3 DEF Local
  <2>6. /\ c \in Found(t)' /\ c \notin paged'
        /\ pc'[t] = "publish" => Reviewed(c)'
        /\ pc'[t] # "publish" => finding'[c].reply # "off"
    BY <1>2, <1>6, <1>10, <1>12, <1>13, <1>14, <2>2
  <2>7. ASSUME NEW f \in Found(t)'
        PROVE  /\ f[2] <= k.n /\ (f \in paged' => finding'[f].class = "confirmed")
               /\ f # c => Settled(f)'
    <3>1. CASE f = c
      BY <1>2, <1>4, <1>14, <2>5, <3>1
    <3>2. CASE f # c
      <4>1. f \in Found(t)
        BY <1>12, <3>2
      <4>2. f[2] < k.n /\ f[2] \in Nat /\ Settled(f)' /\ finding'[f] = finding[f]
            /\ (f \in paged => finding[f].class = "confirmed")
        BY <2>1, <2>4, <4>1
      <4>3. f[2] <= k.n
        BY <2>5, <4>2
      <4>4. QED
        BY <1>2, <4>2, <4>3
    <3>3. QED
      BY <3>1, <3>2
  <2>8. QED
    BY <1>12, <2>3, <2>6, <2>7 DEF FindInv
<1>16. KnownInv(t)'
  <2>1. \A fp : Known(fp, t)' => Known(fp, t)
    BY <1>7 DEF Known, Forgets
  <2>2. Known(k.found[k.n], t) => k.class = "fp" /\ k.reply = "off"
    BY <1>1, <1>2, <1>a DEF TargetInv, KnownInv, Candidate
  <2>3. \A f \in Found(t) : finding'[f] = finding[f]
    BY <1>6 DEF Found
  <2>4. \A f \in Found(t) : Known(finding[f].fp, t) =>
          finding[f].class = "fp" /\ finding[f].reply = "off" /\ f \notin paged
    BY <1>1 DEF TargetInv, KnownInv
  <2>5. pc'[t] \in Writing /\ pc'[t] \notin LoopBody /\ pc'[t] # "persist"
    BY <1>10 DEF Writing, LoopBody
  <2>6. ASSUME NEW f \in Found(t)', Known(finding[f].fp, t)'
        PROVE  finding'[f].class = "fp" /\ finding'[f].reply = "off" /\ f \notin paged'
    <3>1. Known(finding'[f].fp, t)
      <4>1. \E a \in {t, Everywhere} : <<finding'[f].fp, a>> \in hist'.learnt \ hist'.forgotten
        BY <2>6 DEF Known
      <4>2. QED
        BY <1>7, <4>1 DEF Known, Forgets
    <3>2. CASE f = c
      BY <1>2, <1>6, <1>13, <1>14, <2>2, <3>1, <3>2
    <3>3. CASE f # c
      BY <1>2, <1>12, <2>3, <2>4, <3>1, <3>3
    <3>4. QED
      BY <3>2, <3>3
  <2>7. QED
    BY <2>5, <2>6 DEF KnownInv
<1>17. CancelInv(t)'
  <2>1. pc'[t] \notin LoopBody /\ pc[t] \in LoopBody
    BY <1>2, <1>10 DEF LoopBody
  <2>2. hist.late[t] \in Nat
    BY <1>1 DEF Types, Memory
  <2>3. QED
    BY <1>1, <1>2, <1>7, <2>1, <2>2 DEF TargetInv, CancelInv
<1>18. LearntInv'
  <2>2. ASSUME NEW f \in DOMAIN finding', finding'[f].status = "false_positive"
        PROVE  \E j \in Key : KeyOf(f, j)' /\ Taught(j)'
    <3>1. f # c
      BY <1>6, <2>2, <1>c
    <3>2. f \in DOMAIN finding /\ finding'[f] = finding[f]
      BY <1>6, <3>1
    <3>3. PICK j \in Key : KeyOf(f, j) /\ Taught(j)
      BY <1>1, <2>2, <3>2 DEF LearntInv
    <3>4. KeyOf(f, j)' /\ Taught(j)'
      BY <1>2, <1>7, <3>2, <3>3 DEF KeyOf, Taught, Forgets
    <3>5. QED
      BY <3>4
  <2>3. QED
    BY <1>1, <1>2, <1>7, <2>2 DEF LearntInv, Forgets
<1>19. ASSUME NEW u \in User PROVE CallInv(u)'
  <2>1. \A j : Taught(j) => Taught(j)'
    BY <1>2, <1>7 DEF Taught, Forgets
  <2>2. CallInv(u) /\ call'[u] = call[u]
    BY <1>2 DEF IInv
  <2>3. QED
    BY <1>6, <2>1, <2>2, CallFrame
<1>20. QED
  BY <1>2, <1>8, <1>9, <1>11, <1>15, <1>16, <1>17, <1>18, <1>19 DEF IInv, TargetInv, CountsMatchFindings

\* The users' calls and lessons, when a pipeline writes: no row of a finding
\* goes, no fingerprint of one changes, and nothing is marked.
LEMMA LessonFrame ==
    ASSUME IInv, UNCHANGED <<rows, call>>, Forgets,
           \A f \in DOMAIN finding : f \in DOMAIN finding' /\ finding'[f].fp = finding[f].fp,
           \A f \in DOMAIN finding' : finding'[f].status = "false_positive" =>
             f \in DOMAIN finding /\ finding[f].status = "false_positive"
    PROVE  LearntInv' /\ \A u \in User : CallInv(u)'
<1>1. \A j : Taught(j) => Taught(j)'
  BY DEF Taught, Forgets
<1>2. ASSUME NEW u \in User PROVE CallInv(u)'
  <2>1. CallInv(u) /\ call'[u] = call[u]
    BY DEF IInv
  <2>2. QED
    BY <1>1, <2>1, CallFrame
<1>3. ASSUME NEW f \in DOMAIN finding', finding'[f].status = "false_positive"
      PROVE  \E j \in Key : KeyOf(f, j)' /\ Taught(j)'
  <2>1. f \in DOMAIN finding /\ finding[f].status = "false_positive" /\ finding'[f].fp = finding[f].fp
    BY <1>3
  <2>2. PICK j \in Key : KeyOf(f, j) /\ Taught(j)
    BY <2>1 DEF IInv, LearntInv
  <2>3. KeyOf(f, j)' /\ Taught(j)'
    BY <1>1, <2>1, <2>2 DEF KeyOf
  <2>4. QED
    BY <2>3
<1>4. \A k \in hist'.learnt \ hist'.forgotten : rows'[k] > 0
  BY DEF IInv, LearntInv, Forgets
<1>5. QED
  BY <1>2, <1>3, <1>4 DEF LearntInv

\* The verdict of a review replaces the class of the finding at hand, which
\* has not been paged.
LEMMA LinkReviewStep ==
    ASSUME IInv, NEW t \in Target, LinkReview(t)
    PROVE  IInv'
<1>1. TargetInv(t) /\ Types
  BY DEF IInv
<1>a. PICK c : c = Current(t)
  OBVIOUS
<1>2. /\ scan = "running" /\ pc[t] = "persist_link"
      /\ finding' = [finding EXCEPT ![c] = Linked(@)]
      /\ pc' = [pc EXCEPT ![t] = "publish"]
      /\ UNCHANGED <<scan, counts, status, at, open, paged, hist, rows, call, cancelled>>
  BY <1>a DEF LinkReview, Turn, LoopIsFree, Goto, unchangedUser
<1>3. c \in Found(t) /\ c \notin paged /\ finding[c].reply # "off" /\ finding[c] \in Finding
  BY <1>1, <1>2, <1>a DEF TargetInv, FindInv, Writing, Types, Found
<1>4. /\ Linked(finding[c]) \in Finding
      /\ Linked(finding[c]).fp = finding[c].fp /\ Linked(finding[c]).reply = finding[c].reply
      /\ Linked(finding[c]).status = finding[c].status /\ Linked(finding[c]).linked
      /\ finding[c].reply \in Class => Linked(finding[c]).class = finding[c].reply
  <2>1. PICK r : r = finding[c]
    OBVIOUS
  <2>2. r \in Finding
    BY <1>3, <2>1
  <2>3. Linked(r) = [r EXCEPT !.linked = TRUE, !.class = IF r.reply \in Class THEN r.reply ELSE @]
    BY DEF Linked
  <2>4. /\ Linked(r) \in Finding
        /\ Linked(r).fp = r.fp /\ Linked(r).reply = r.reply /\ Linked(r).status = r.status
        /\ Linked(r).linked /\ (r.reply \in Class => Linked(r).class = r.reply)
    BY <2>2, <2>3 DEF Finding
  <2>5. QED
    BY <2>1, <2>4
<1>5. /\ DOMAIN finding' = DOMAIN finding /\ finding'[c] = Linked(finding[c])
      /\ \A f \in DOMAIN finding : f # c => finding'[f] = finding[f]
  BY <1>2, <1>3 DEF Found
<1>6. Forgets
  BY <1>2 DEF Forgets
<1>7. Types'
  BY <1>1, <1>2, <1>4, <1>5 DEF Types, Steps
<1>8. ASSUME NEW o \in Target, o # t PROVE TargetInv(o)'
  <2>1. SameTarget(o)
    BY <1>1, <1>2, <1>8 DEF Types, SameTarget, Runs
  <2>2. SameRows(o)
    BY <1>2, <1>3, <1>5, <1>8 DEF SameRows, SameRow, Found
  <2>3. TargetInv(o)
    BY DEF IInv
  <2>4. QED
    BY <1>2, <1>6, <2>1, <2>2, <2>3, RowFrame, CancelFrame DEF TargetInv, SameTarget
<1>9. pc'[t] = "publish" /\ Found(t)' = Found(t) /\ Current(t)' = c
  BY <1>1, <1>2, <1>5, <1>a DEF Types, Found, Current
<1>10. ToolInv(t)'
  BY <1>1, <1>2, <1>9 DEF TargetInv, ToolInv, Runs
<1>11. FindInv(t)'
  <2>1. Reviewed(c)'
    BY <1>4, <1>5 DEF Reviewed
  <2>2. ASSUME NEW f \in Found(t)'
        PROVE  /\ f[2] <= at[t].n /\ (f \in paged' => finding'[f].class = "confirmed")
               /\ f # c => Settled(f)'
    <3>1. /\ f[2] <= at[t].n /\ (f \in paged => finding[f].class = "confirmed")
          /\ f # c => Settled(f)
      BY <1>1, <1>2, <1>9, <1>a DEF TargetInv, FindInv, Writing
    <3>2. f # c => finding'[f] = finding[f]
      BY <1>5, <1>9 DEF Found
    <3>3. QED
      BY <1>2, <1>3, <3>1, <3>2 DEF Settled, Reviewed
  <2>3. QED
    BY <1>2, <1>3, <1>9, <2>1, <2>2 DEF FindInv, Before, Writing, LoopBody
<1>12. KnownInv(t)'
  <2>1. ~Known(finding[c].fp, t)
    BY <1>1, <1>3 DEF TargetInv, KnownInv
  <2>2. \A fp : Known(fp, t)' = Known(fp, t)
    BY <1>2 DEF Known
  <2>3. ASSUME NEW f \in Found(t)', Known(finding[f].fp, t)'
        PROVE  finding'[f].class = "fp" /\ finding'[f].reply = "off" /\ f \notin paged'
    <3>1. Known(finding'[f].fp, t)
      BY <1>2, <2>3 DEF Known
    <3>2. f # c
      BY <1>4, <1>5, <2>1, <3>1
    <3>3. f \in Found(t) /\ finding'[f] = finding[f]
      BY <1>5, <1>9, <3>2 DEF Found
    <3>4. QED
      BY <1>1, <1>2, <3>1, <3>3 DEF TargetInv, KnownInv
  <2>4. QED
    BY <1>9, <2>3 DEF KnownInv, Writing, LoopBody
<1>13. CancelInv(t)'
  BY <1>1, <1>2, <1>9 DEF TargetInv, CancelInv, LoopBody
<1>14. LearntInv' /\ \A u \in User : CallInv(u)'
  BY <1>2, <1>4, <1>5, <1>6, LessonFrame
<1>15. QED
  BY <1>2, <1>7, <1>8, <1>10, <1>11, <1>12, <1>13, <1>14 DEF IInv, TargetInv, CountsMatchFindings

\* A finding is paged by the class it has been given last.
LEMMA PublishStep ==
    ASSUME IInv, NEW t \in Target, Publish(t)
    PROVE  IInv'
<1>1. TargetInv(t) /\ Types
  BY DEF IInv
<1>a. PICK c : c = Current(t)
  OBVIOUS
<1>b. PICK k : k = at[t]
  OBVIOUS
<1>2. /\ scan = "running" /\ pc[t] = "publish"
      /\ paged' = IF finding[c].class = "confirmed" THEN paged \cup {c} ELSE paged
      /\ at' = [at EXCEPT ![t].class = "needs", ![t].reply = "off"]
      /\ pc' = [pc EXCEPT ![t] = "ai"]
      /\ UNCHANGED <<scan, counts, status, open, finding, hist, rows, call, cancelled>>
  BY <1>a DEF Publish, IsCritical, Turn, LoopIsFree, Goto, unchangedUser
<1>3. c \in Found(t) /\ c \notin paged /\ Reviewed(c) /\ c \in DOMAIN finding
  BY <1>1, <1>2, <1>a DEF TargetInv, FindInv, Writing, Found
<1>4. /\ at'[t] \in Local /\ at'[t].n = k.n /\ at'[t].found = k.found /\ at'[t].reply = "off"
      /\ pc'[t] = "ai" /\ k \in Local /\ k.n <= Len(k.found)
  <2>1. k \in Local /\ k.n <= Len(k.found)
    BY <1>1, <1>b DEF Types
  <2>2. at'[t] = [k EXCEPT !.class = "needs", !.reply = "off"]
    BY <1>1, <1>2, <1>b DEF Types
  <2>3. "needs" \in Class /\ "off" \in Reply
    BY DEF Class, Reply
  <2>4. /\ at'[t] \in Local /\ at'[t].n = k.n /\ at'[t].found = k.found /\ at'[t].reply = "off"
    BY <2>1, <2>2, <2>3 DEF Local
  <2>5. QED
    BY <1>1, <1>2, <2>1, <2>4 DEF Types
<1>5. Types'
  <2>1. at' \in [Target -> Local] /\ \A o \in Target : at'[o].n <= Len(at'[o].found)
    BY <1>1, <1>2, <1>4 DEF Types
  <2>2. QED
    BY <1>1, <1>2, <1>3, <2>1 DEF Types, Steps
<1>6. ASSUME NEW o \in Target, o # t PROVE TargetInv(o)'
  <2>1. SameTarget(o)
    BY <1>1, <1>2, <1>6 DEF Types, SameTarget, Runs
  <2>2. SameRows(o)
    BY <1>2, <1>3, <1>6 DEF SameRows, SameRow, Found
  <2>3. TargetInv(o) /\ Forgets
    BY <1>2 DEF IInv, Forgets
  <2>4. QED
    BY <1>2, <2>1, <2>2, <2>3, RowFrame, CancelFrame DEF TargetInv, SameTarget
<1>7. ToolInv(t)'
  BY <1>1, <1>2, <1>4 DEF TargetInv, ToolInv, Runs
<1>8. Found(t)' = Found(t) /\ status[t] # "completed"
  BY <1>1, <1>2 DEF Found, TargetInv, ToolInv
<1>9. FindInv(t)'
  <2>1. ASSUME NEW f \in Found(t)
        PROVE  f[2] <= k.n /\ (f \in paged' => finding[f].class = "confirmed") /\ Settled(f)'
    <3>1. /\ f[2] <= k.n /\ (f \in paged => finding[f].class = "confirmed")
          /\ f # c => Settled(f)
      BY <1>1, <1>2, <1>a, <1>b DEF TargetInv, FindInv, Writing
    <3>2. QED
      BY <1>2, <1>3, <3>1 DEF Settled, Reviewed
  <2>2. QED
    BY <1>2, <1>4, <1>8, <2>1 DEF FindInv, Before, Writing, LoopBody
<1>10. KnownInv(t)'
  <2>1. ASSUME NEW f \in Found(t), Known(finding[f].fp, t)
        PROVE  finding[f].class = "fp" /\ finding[f].reply = "off" /\ f \notin paged'
    <3>1. finding[f].class = "fp" /\ finding[f].reply = "off" /\ f \notin paged
      BY <1>1, <2>1 DEF TargetInv, KnownInv
    <3>2. QED
      BY <1>2, <3>1
  <2>2. \A fp : Known(fp, t)' = Known(fp, t)
    BY <1>2 DEF Known
  <2>3. QED
    BY <1>2, <1>4, <1>8, <2>1, <2>2 DEF KnownInv, Writing, LoopBody
<1>11. CancelInv(t)'
  BY <1>1, <1>2, <1>4 DEF TargetInv, CancelInv, LoopBody
<1>12. LearntInv' /\ \A u \in User : CallInv(u)'
  BY <1>2, LessonFrame DEF Forgets
<1>13. QED
  BY <1>2, <1>5, <1>6, <1>7, <1>9, <1>10, <1>11, <1>12 DEF IInv, TargetInv, CountsMatchFindings

\* A target that ends, counted or failed, leaves its findings as they are.
LEMMA EndStep ==
    ASSUME IInv, NEW t \in Target, scan = "running",
           pc' = [pc EXCEPT ![t] = "done"], at' = [at EXCEPT ![t] = Fresh],
           \/ pc[t] = "counting" /\ UNCHANGED status
           \/ status' = [status EXCEPT ![t] = "failed"],
           hist' \in Memory, hist'.learnt = hist.learnt, hist'.forgotten = hist.forgotten,
           hist'.inLoop = hist.inLoop, hist'.late = hist.late,
           UNCHANGED <<scan, open, finding, paged, rows, call, cancelled>>
    PROVE  IInv'
<1>1. TargetInv(t) /\ Types
  BY DEF IInv
<1>2. Fresh \in Local /\ Fresh.n <= Len(Fresh.found) /\ Fresh.reply = "off"
  BY DEF Fresh, Local, Class, Reply
<1>3. pc'[t] = "done" /\ at'[t] = Fresh /\ Forgets
  BY <1>1 DEF Types, Forgets
<1>4. Types'
  <2>1. at' \in [Target -> Local] /\ \A o \in Target : at'[o].n <= Len(at'[o].found)
    BY <1>1, <1>2 DEF Types
  <2>2. pc' \in [Target -> Steps] /\ status' \in [Target -> Statuses]
    BY <1>1 DEF Types, Steps, Statuses
  <2>3. QED
    BY <1>1, <2>1, <2>2 DEF Types
<1>5. ASSUME NEW o \in Target, o # t PROVE TargetInv(o)'
  <2>1. SameTarget(o)
    BY <1>1, <1>5 DEF Types, SameTarget, Runs
  <2>2. SameRows(o)
    BY DEF SameRows, SameRow, Found
  <2>3. TargetInv(o)
    BY DEF IInv
  <2>4. QED
    BY <1>3, <2>1, <2>2, <2>3, RowFrame, CancelFrame DEF TargetInv, SameTarget
<1>6. status'[t] = "completed" => pc[t] = "counting" /\ status[t] = "completed"
  BY <1>1 DEF Types
<1>7. ToolInv(t)'
  BY <1>1, <1>3, <1>6 DEF TargetInv, ToolInv, Runs
<1>8. FindInv(t)'
  <2>1. \A f \in Found(t) : f \in paged => finding[f].class = "confirmed"
    BY <1>1 DEF TargetInv, FindInv
  <2>2. status'[t] = "completed" => \A f \in Found(t) : Settled(f)
    BY <1>1, <1>6 DEF TargetInv, FindInv, Writing
  <2>3. Found(t)' = Found(t) /\ \A f \in Found(t) : Settled(f)' = Settled(f)
    BY DEF Found, Settled, Reviewed
  <2>4. QED
    BY <1>3, <2>1, <2>2, <2>3 DEF FindInv, Before, Writing, LoopBody
<1>9. KnownInv(t)'
  <2>1. Found(t)' = Found(t) /\ \A fp : Known(fp, t)' = Known(fp, t)
    BY DEF Found, Known
  <2>2. QED
    BY <1>1, <1>2, <1>3, <2>1 DEF TargetInv, KnownInv, LoopBody
<1>10. CancelInv(t)'
  BY <1>1, <1>3 DEF TargetInv, CancelInv, LoopBody
<1>11. LearntInv' /\ \A u \in User : CallInv(u)'
  BY <1>3, LessonFrame
<1>12. QED
  BY <1>4, <1>5, <1>7, <1>8, <1>9, <1>10, <1>11 DEF IInv, TargetInv, CountsMatchFindings

LEMMA CountStep ==
    ASSUME IInv, NEW t \in Target, Count(t)
    PROVE  IInv'
BY EndStep DEF IInv, Types, Count, Turn, LoopIsFree, Goto, unchangedUser

LEMMA RaiseStep ==
    ASSUME IInv, NEW t \in Target, Raise(t)
    PROVE  IInv'
<1>1. hist \in Memory /\ hist' = [hist EXCEPT !.accidents = @ + 1]
  BY DEF Raise, IInv, Types
<1>2. /\ hist' \in Memory /\ hist'.learnt = hist.learnt /\ hist'.forgotten = hist.forgotten
      /\ hist'.inLoop = hist.inLoop /\ hist'.late = hist.late
  BY <1>1 DEF Memory
<1>3. QED
  BY <1>2, EndStep DEF Raise, LoopIsFree, SetStatus, Goto, unchangedUser

\* What holds of the targets does not depend on how the scan ended.
LEMMA FinalizeStep ==
    ASSUME IInv, Finalize
    PROVE  IInv'
<1>1. /\ UNCHANGED <<status, pc, at, open, paged, finding, hist, rows, call, cancelled>>
      /\ counts' = Tally /\ scan' # "running"
  BY DEF Finalize, FinalCounts, pipeVars, unchangedUser
<1>2. Types' /\ LearntInv' /\ \A u \in User : CallInv(u)'
  BY <1>1, LessonFrame DEF IInv, Types, Forgets
<1>3. ASSUME NEW o \in Target PROVE TargetInv(o)'
  <2>1. TargetInv(o) /\ SameTarget(o) /\ SameRows(o) /\ Forgets
    BY <1>1 DEF IInv, SameTarget, SameRows, SameRow, Forgets, Found, Runs
  <2>2. CancelInv(o)'
    BY <1>1, <2>1 DEF TargetInv, CancelInv
  <2>3. QED
    BY <2>1, <2>2, RowFrame DEF TargetInv
<1>4. Tally' = Tally
  BY <1>1 DEF Tally
<1>5. QED
  BY <1>1, <1>2, <1>3, <1>4 DEF IInv, CountsMatchFindings

\* A crash ends every target where it is; no finding of a completed one is
\* touched.
LEMMA CrashStep ==
    ASSUME IInv, Crash
    PROVE  IInv'
<1>1. /\ UNCHANGED <<status, open, paged, counts, finding, rows>>
      /\ hist' = [hist EXCEPT !.accidents = @ + 1]
      /\ scan' = IF scan = "running" THEN "failed" ELSE scan
      /\ cancelled' = FALSE
      /\ pc' = [t \in Target |-> "done"] /\ at' = [t \in Target |-> Fresh]
      /\ call' = [u \in User |-> Idle]
  BY DEF Crash
<1>2. Types /\ LearntInv /\ CountsMatchFindings
  BY DEF IInv
<1>3. Fresh \in Local /\ Fresh.n <= Len(Fresh.found) /\ Fresh.reply = "off"
  BY DEF Fresh, Local, Class, Reply
<1>4. /\ hist' \in Memory /\ hist'.learnt = hist.learnt /\ hist'.forgotten = hist.forgotten
      /\ hist'.inLoop = hist.inLoop /\ hist'.late = hist.late
  <2>1. hist \in Memory
    BY <1>2 DEF Types
  <2>2. QED
    BY <1>1, <2>1 DEF Memory
<1>5. Types'
  BY <1>1, <1>2, <1>3, <1>4 DEF Types, Steps
<1>6. ASSUME NEW t \in Target PROVE TargetInv(t)'
  <2>1. TargetInv(t) /\ pc'[t] = "done" /\ at'[t] = Fresh
    BY <1>1 DEF IInv
  <2>2. Found(t)' = Found(t) /\ Runs(t)' = Runs(t)
        /\ (\A f : Settled(f)' = Settled(f)) /\ (\A fp : Known(fp, t)' = Known(fp, t))
    BY <1>1, <1>4 DEF Found, Runs, Settled, Reviewed, Known
  <2>3. ToolInv(t)'
    BY <1>1, <2>1, <2>2 DEF TargetInv, ToolInv
  <2>4. FindInv(t)'
    <3>1. \A f \in Found(t) : f \in paged => finding[f].class = "confirmed"
      BY <2>1 DEF TargetInv, FindInv
    <3>2. status[t] = "completed" => \A f \in Found(t) : Settled(f)
      BY <2>1 DEF TargetInv, ToolInv, FindInv, Writing
    <3>3. QED
      BY <1>1, <2>1, <2>2, <3>1, <3>2 DEF FindInv, Before, Writing, LoopBody
  <2>5. KnownInv(t)'
    BY <1>1, <1>3, <2>1, <2>2 DEF TargetInv, KnownInv, LoopBody
  <2>6. CancelInv(t)'
    BY <1>1, <1>4, <2>1 DEF TargetInv, CancelInv
  <2>7. QED
    BY <2>3, <2>4, <2>5, <2>6 DEF TargetInv
<1>7. LearntInv'
  BY <1>1, <1>2, <1>4 DEF LearntInv, KeyOf, Taught
<1>8. ASSUME NEW u \in User PROVE CallInv(u)'
  BY <1>1 DEF CallInv, Idle, Request
<1>9. CountsMatchFindings'
  BY <1>1, <1>2 DEF CountsMatchFindings, Tally
<1>10. QED
  BY <1>5, <1>6, <1>7, <1>8, <1>9 DEF IInv

----------------------------------------------------------------------------
(* The steps of the users.                                                *)

\* A user's step moves no target and changes no verdict.
LEMMA UserFrame ==
    ASSUME IInv, UNCHANGED <<scan, cancelled, status, pc, at, open, paged, counts>>,
           DOMAIN finding' = DOMAIN finding, \A f \in DOMAIN finding : SameRow(f), Forgets,
           hist'.late = hist.late, hist'.inLoop = hist.inLoop
    PROVE  (\A t \in Target : TargetInv(t)') /\ CountsMatchFindings'
<1>1. ASSUME NEW o \in Target PROVE TargetInv(o)'
  <2>1. TargetInv(o) /\ SameTarget(o) /\ SameRows(o)
    BY DEF IInv, SameTarget, SameRows, Found, Runs
  <2>2. QED
    BY <2>1, RowFrame, CancelFrame DEF TargetInv
<1>2. Tally' = Tally
  <2>1. \A c : {f \in DOMAIN finding' : finding'[f].class = c}
               = {f \in DOMAIN finding : finding[f].class = c}
    BY DEF SameRow
  <2>2. QED
    BY <2>1 DEF Tally
<1>3. QED
  BY <1>1, <1>2 DEF IInv, CountsMatchFindings

LEMMA CancelStep ==
    ASSUME IInv, Cancel
    PROVE  IInv'
<1>1. /\ scan = "running" /\ ~cancelled /\ cancelled'
      /\ hist' = [hist EXCEPT !.inLoop = {t \in Target : pc[t] \in LoopBody}]
      /\ UNCHANGED <<scan, counts, status, pc, at, open, paged, finding, rows, call>>
  BY DEF Cancel, unchangedPipe, pipeVars
<1>2. Types
  BY DEF IInv
<1>3. /\ hist' \in Memory /\ hist'.learnt = hist.learnt /\ hist'.forgotten = hist.forgotten
      /\ hist'.inLoop = {t \in Target : pc[t] \in LoopBody} /\ hist'.late = hist.late
  BY <1>1, <1>2 DEF Types, Memory
<1>4. Types'
  <2>1. cancelled' \in BOOLEAN
    BY DEF Cancel
  <2>2. QED
    BY <1>1, <1>2, <1>3, <2>1 DEF Types
<1>5. ASSUME NEW t \in Target PROVE TargetInv(t)'
  <2>1. TargetInv(t) /\ SameTarget(t) /\ SameRows(t) /\ Forgets
    BY <1>1, <1>3 DEF IInv, SameTarget, SameRows, SameRow, Forgets, Found, Runs
  <2>2. CancelInv(t)'
    BY <1>1, <1>3, <2>1 DEF TargetInv, CancelInv
  <2>3. QED
    BY <2>1, <2>2, RowFrame DEF TargetInv
<1>6. LearntInv' /\ \A u \in User : CallInv(u)'
  BY <1>1, <1>3, LessonFrame DEF Forgets
<1>7. QED
  BY <1>1, <1>4, <1>5, <1>6 DEF IInv, CountsMatchFindings

LEMMA AskStep ==
    ASSUME IInv, NEW u \in User, Ask(u)
    PROVE  IInv'
<1>1. PICK f \in DOMAIN finding, a \in {Everywhere} \cup Target :
        /\ a \in {f[1], Everywhere}
        /\ call' = [call EXCEPT ![u] = [op |-> "look", f |-> f, key |-> <<finding[f].fp, a>>]]
  <2>1. PICK f \in DOMAIN finding : \E a \in {f[1], Everywhere} :
          call' = [call EXCEPT ![u] = [op |-> "look", f |-> f, key |-> <<finding[f].fp, a>>]]
    BY DEF Ask
  <2>2. f[1] \in Target
    BY DEF IInv, Types
  <2>3. QED
    BY <2>1, <2>2
<1>2. /\ hist' = [hist EXCEPT !.requests = @ + 1]
      /\ UNCHANGED <<scan, counts, status, pc, at, open, paged, cancelled, finding, rows>>
  BY DEF Ask, unchangedPipe, pipeVars
<1>3. Types /\ LearntInv
  BY DEF IInv
<1>4. /\ hist' \in Memory /\ hist'.learnt = hist.learnt /\ hist'.forgotten = hist.forgotten
      /\ hist'.inLoop = hist.inLoop /\ hist'.late = hist.late
  <2>1. hist \in Memory
    BY <1>3 DEF Types
  <2>2. QED
    BY <1>2, <2>1 DEF Memory
<1>5. f \in Target \X Nat /\ <<finding[f].fp, a>> \in Key
  BY <1>3 DEF Types, Key, Finding
<1>6. /\ call'[u] = [op |-> "look", f |-> f, key |-> <<finding[f].fp, a>>]
      /\ call'[u] \in Request /\ \A v \in User : v # u => call'[v] = call[v]
      /\ call' \in [User -> {Idle} \cup Request]
  BY <1>1, <1>3, <1>5 DEF Types, Request
<1>7. Types'
  BY <1>2, <1>3, <1>4, <1>6 DEF Types
<1>8. ASSUME NEW v \in User PROVE CallInv(v)'
  <2>1. CASE v = u
    BY <1>1, <1>2, <1>6, <2>1 DEF CallInv, KeyOf
  <2>2. CASE v # u
    BY <1>2, <1>4, <1>6, <2>2 DEF IInv, CallInv, KeyOf, Taught
  <2>3. QED
    BY <2>1, <2>2
<1>9. LearntInv'
  BY <1>2, <1>3, <1>4 DEF LearntInv, KeyOf, Taught
<1>10. (\A t \in Target : TargetInv(t)') /\ CountsMatchFindings'
  BY <1>2, <1>4, UserFrame DEF Forgets, SameRow
<1>11. QED
  BY <1>7, <1>8, <1>9, <1>10 DEF IInv

\* dedup.suppress looks: a row that is there needs no insert.
LEMMA LookStep ==
    ASSUME IInv, NEW u \in User, Look(u)
    PROVE  IInv'
<1>1. /\ call[u].op = "look" /\ call' = [call EXCEPT ![u].op = AfterLook(call[u].key)]
      /\ UNCHANGED <<scan, counts, status, pc, at, open, paged, cancelled, finding, rows, hist>>
  BY DEF Look, unchangedPipe, pipeVars
<1>2. Types /\ LearntInv /\ CallInv(u)
  BY DEF IInv
<1>3. call[u] \in Request
  BY <1>1, <1>2 DEF Types, Idle
<1>4. AfterLook(call[u].key) \in {"mark", "insert"}
      /\ (AfterLook(call[u].key) = "mark" => Taught(call[u].key))
  BY DEF AfterLook, Taught
<1>5. /\ call'[u] \in Request /\ call'[u].f = call[u].f /\ call'[u].key = call[u].key
      /\ call'[u].op = AfterLook(call[u].key)
      /\ \A v \in User : v # u => call'[v] = call[v]
      /\ call' \in [User -> {Idle} \cup Request]
  <2>1. call'[u] = [call[u] EXCEPT !.op = AfterLook(call[u].key)]
    BY <1>1, <1>2 DEF Types
  <2>2. /\ call'[u] \in Request /\ call'[u].f = call[u].f /\ call'[u].key = call[u].key
        /\ call'[u].op = AfterLook(call[u].key)
    BY <1>3, <1>4, <2>1 DEF Request
  <2>3. QED
    BY <1>1, <1>2, <2>2 DEF Types
<1>6. Types' /\ LearntInv'
  BY <1>1, <1>2, <1>5 DEF Types, LearntInv, KeyOf, Taught
<1>7. ASSUME NEW v \in User PROVE CallInv(v)'
  <2>1. CASE v = u
    BY <1>1, <1>2, <1>3, <1>4, <1>5, <2>1 DEF CallInv, KeyOf, Taught
  <2>2. CASE v # u
    BY <1>1, <1>5, <2>2 DEF IInv, CallInv, KeyOf, Taught
  <2>3. QED
    BY <2>1, <2>2
<1>8. (\A t \in Target : TargetInv(t)') /\ CountsMatchFindings'
  BY <1>1, UserFrame DEF Forgets, SameRow
<1>9. QED
  BY <1>6, <1>7, <1>8 DEF IInv

LEMMA InsertStep ==
    ASSUME IInv, NEW u \in User, Insert(u)
    PROVE  IInv'
<1>1. /\ call[u].op = "insert" /\ call' = [call EXCEPT ![u].op = "mark"]
      /\ rows' = [rows EXCEPT ![call[u].key] = @ + 1]
      /\ UNCHANGED <<scan, counts, status, pc, at, open, paged, cancelled, finding, hist>>
  BY DEF Insert, unchangedPipe, pipeVars
<1>2. Types /\ LearntInv /\ CallInv(u)
  BY DEF IInv
<1>3. call[u] \in Request /\ call[u].key \in Key
  BY <1>1, <1>2 DEF Types, Idle, Request
<1>4. /\ call'[u] \in Request /\ call'[u].f = call[u].f /\ call'[u].key = call[u].key
      /\ \A v \in User : v # u => call'[v] = call[v]
      /\ call' \in [User -> {Idle} \cup Request]
  <2>1. call'[u] = [call[u] EXCEPT !.op = "mark"]
    BY <1>1, <1>2 DEF Types
  <2>2. call'[u] \in Request /\ call'[u].f = call[u].f /\ call'[u].key = call[u].key
    BY <1>3, <2>1 DEF Request
  <2>3. QED
    BY <1>1, <1>2, <2>2 DEF Types
<1>5. /\ rows' \in [Key -> Nat] /\ rows'[call[u].key] > 0
      /\ \A j \in Key : rows[j] > 0 => rows'[j] > 0
  BY <1>1, <1>2, <1>3 DEF Types
<1>6. \A j \in Key : Taught(j) => Taught(j)'
  BY <1>1, <1>5 DEF Taught
<1>7. Types'
  BY <1>1, <1>2, <1>4, <1>5 DEF Types
<1>8. LearntInv'
  <2>1. hist.learnt \subseteq Key
    BY <1>2 DEF Types, Memory
  <2>2. QED
    BY <1>1, <1>2, <1>5, <1>6, <2>1 DEF LearntInv, KeyOf
<1>9. ASSUME NEW v \in User PROVE CallInv(v)'
  <2>1. CASE v = u
    BY <1>1, <1>2, <1>3, <1>4, <1>5, <2>1 DEF CallInv, KeyOf, Taught
  <2>2. CASE v # u
    <3>1. CallInv(v) /\ call'[v] = call[v] /\ (call[v] \in Request => call[v].key \in Key)
      BY <1>4, <2>2 DEF IInv, Request
    <3>2. QED
      BY <1>1, <1>6, <3>1 DEF CallInv, KeyOf
  <2>3. QED
    BY <2>1, <2>2
<1>10. (\A t \in Target : TargetInv(t)') /\ CountsMatchFindings'
  BY <1>1, UserFrame DEF Forgets, SameRow
<1>11. QED
  BY <1>7, <1>8, <1>9, <1>10 DEF IInv

\* A change of the status of a finding is seen by no other part.
LEMMA StatusFrame ==
    ASSUME Types, NEW g \in DOMAIN finding, NEW s \in {"open", "false_positive"},
           finding' = [finding EXCEPT ![g].status = s]
    PROVE  /\ DOMAIN finding' = DOMAIN finding
           /\ \A f \in DOMAIN finding : SameRow(f) /\ finding'[f] \in Finding
           /\ \A f \in DOMAIN finding : f # g => finding'[f] = finding[f]
           /\ finding'[g].status = s
<1>1. PICK r : r = finding[g]
  OBVIOUS
<1>2. r \in Finding
  BY <1>1 DEF Types
<1>3. PICK q : q = [r EXCEPT !.status = s]
  OBVIOUS
<1>4. q \in Finding /\ q.fp = r.fp /\ q.class = r.class /\ q.reply = r.reply
      /\ q.linked = r.linked /\ q.status = s
  BY <1>2, <1>3 DEF Finding
<1>5. DOMAIN finding' = DOMAIN finding /\ finding'[g] = q
      /\ \A f \in DOMAIN finding : f # g => finding'[f] = finding[f]
  BY <1>1, <1>3
<1>6. QED
  BY <1>1, <1>4, <1>5 DEF Types, SameRow

\* The status of a finding is committed after the suppression is.
LEMMA MarkStep ==
    ASSUME IInv, NEW u \in User, Mark(u)
    PROVE  IInv'
<1>a. PICK g : g = call[u].f
  OBVIOUS
<1>1. /\ call[u].op = "mark" /\ call' = [call EXCEPT ![u] = Idle]
      /\ finding' = [finding EXCEPT ![g].status = "false_positive"]
      /\ UNCHANGED <<scan, counts, status, pc, at, open, paged, cancelled, rows, hist>>
  BY <1>a DEF Mark, unchangedPipe, pipeVars
<1>2. Types /\ LearntInv /\ CallInv(u)
  BY DEF IInv
<1>3. call[u] \in Request /\ call[u].key \in Key
  BY <1>1, <1>2 DEF Types, Idle, Request
<1>4. g \in DOMAIN finding /\ KeyOf(g, call[u].key) /\ Taught(call[u].key)
  BY <1>1, <1>2, <1>3, <1>a DEF CallInv
<1>5. /\ DOMAIN finding' = DOMAIN finding
      /\ \A f \in DOMAIN finding : SameRow(f) /\ finding'[f] \in Finding
      /\ \A f \in DOMAIN finding : f # g => finding'[f] = finding[f]
  BY <1>1, <1>2, <1>4, StatusFrame
<1>6. call'[u] = Idle /\ call' \in [User -> {Idle} \cup Request]
      /\ \A v \in User : v # u => call'[v] = call[v]
  BY <1>1, <1>2 DEF Types
<1>7. Types'
  BY <1>1, <1>2, <1>5, <1>6 DEF Types
<1>8. \A j : Taught(j)' = Taught(j)
  BY <1>1 DEF Taught
<1>9. \A j : \A f \in DOMAIN finding : KeyOf(f, j)' = KeyOf(f, j)
  BY <1>5 DEF KeyOf, SameRow
<1>10. LearntInv'
  <2>1. ASSUME NEW f \in DOMAIN finding', finding'[f].status = "false_positive"
        PROVE  \E j \in Key : KeyOf(f, j) /\ Taught(j)
    <3>1. CASE f = g
      BY <1>3, <1>4, <3>1
    <3>2. CASE f # g
      BY <1>2, <1>5, <2>1, <3>2 DEF LearntInv
    <3>3. QED
      BY <3>1, <3>2
  <2>2. QED
    BY <1>1, <1>2, <1>5, <1>8, <1>9, <2>1 DEF LearntInv
<1>11. ASSUME NEW v \in User PROVE CallInv(v)'
  <2>1. CASE v = u
    BY <1>6, <2>1 DEF CallInv, Idle, Request
  <2>2. CASE v # u
    BY <1>1, <1>5, <1>6, <1>8, <1>9, <2>2 DEF IInv, CallInv
  <2>3. QED
    BY <2>1, <2>2
<1>12. (\A t \in Target : TargetInv(t)') /\ CountsMatchFindings'
  BY <1>1, <1>5, UserFrame DEF Forgets
<1>13. QED
  BY <1>7, <1>10, <1>11, <1>12 DEF IInv

LEMMA ReopenStep ==
    ASSUME IInv, NEW u \in User, Reopen(u)
    PROVE  IInv'
<1>1. PICK g \in DOMAIN finding : finding' = [finding EXCEPT ![g].status = "open"]
  BY DEF Reopen
<1>2. UNCHANGED <<scan, counts, status, pc, at, open, paged, cancelled, rows, hist, call>>
  BY DEF Reopen, unchangedPipe, pipeVars
<1>3. Types
  BY DEF IInv
<1>4. /\ DOMAIN finding' = DOMAIN finding
      /\ \A f \in DOMAIN finding : SameRow(f) /\ finding'[f] \in Finding
      /\ \A f \in DOMAIN finding : f # g => finding'[f] = finding[f]
      /\ finding'[g].status = "open"
  BY <1>1, <1>3, StatusFrame
<1>5. Types'
  BY <1>2, <1>3, <1>4 DEF Types
<1>6. LearntInv' /\ \A v \in User : CallInv(v)'
  BY <1>2, <1>4, LessonFrame DEF Forgets, SameRow
<1>7. (\A t \in Target : TargetInv(t)') /\ CountsMatchFindings'
  BY <1>2, <1>4, UserFrame DEF Forgets
<1>8. QED
  BY <1>5, <1>6, <1>7 DEF IInv

\* What a user forgets may be looked for no more, and is remembered as such.
LEMMA ForgetStep ==
    ASSUME IInv, NEW u \in User, Forget(u)
    PROVE  IInv'
<1>1. PICK k \in Key : /\ rows[k] > 0 /\ rows' = [rows EXCEPT ![k] = @ - 1]
                       /\ hist' = [hist EXCEPT !.forgotten = @ \cup {k}]
  BY DEF Forget
<1>2. UNCHANGED <<scan, counts, status, pc, at, open, paged, cancelled, finding, call>>
  BY DEF Forget, unchangedPipe, pipeVars
<1>3. Types /\ LearntInv
  BY DEF IInv
<1>4. /\ hist' \in Memory /\ hist'.learnt = hist.learnt
      /\ hist'.forgotten = hist.forgotten \cup {k}
      /\ hist'.inLoop = hist.inLoop /\ hist'.late = hist.late
  BY <1>1, <1>3 DEF Types, Memory
<1>5. rows' \in [Key -> Nat] /\ \A j : j # k => rows'[j] = rows[j]
  BY <1>1, <1>3 DEF Types
<1>6. Types'
  BY <1>2, <1>3, <1>4, <1>5 DEF Types
<1>7. \A j : Taught(j) => Taught(j)'
  BY <1>4, <1>5 DEF Taught
<1>8. LearntInv'
  BY <1>2, <1>3, <1>4, <1>5, <1>7 DEF LearntInv, KeyOf
<1>9. ASSUME NEW v \in User PROVE CallInv(v)'
  <2>1. CallInv(v)
    BY DEF IInv
  <2>2. QED
    BY <1>2, <1>7, <2>1, CallFrame
<1>10. (\A t \in Target : TargetInv(t)') /\ CountsMatchFindings'
  BY <1>2, <1>4, UserFrame DEF Forgets, SameRow
<1>11. QED
  BY <1>6, <1>8, <1>9, <1>10 DEF IInv

----------------------------------------------------------------------------
(* The theorems.                                                          *)

LEMMA StepInv ==
    ASSUME IInv, [Next]_vars
    PROVE  IInv'
<1>1. CASE UNCHANGED vars
  <2>1. (\A t \in Target : TargetInv(t)') /\ CountsMatchFindings'
    BY <1>1, UserFrame DEF vars, Forgets, SameRow
  <2>2. LearntInv' /\ \A u \in User : CallInv(u)'
    BY <1>1, LessonFrame DEF vars, Forgets
  <2>3. Types'
    BY <1>1 DEF vars, IInv, Types
  <2>4. QED
    BY <2>1, <2>2, <2>3 DEF IInv
<1>2. CASE \E t \in Target : Step(t)
  BY <1>2, BeginStep, ResolveStep, ResolvedStep, ToToolsStep, StartToolStep, FinishToolStep,
     DetectStep, ToLoopStep, NextCandidateStep, ScoreStep, CheckOnForkStep, FinishForkStep,
     ReviewStep, PersistFindingStep, PersistReviewStep, LinkReviewStep, PublishStep,
     CompleteStep, CountStep DEF Step
<1>3. CASE \E t \in Target : Raise(t)
  BY <1>3, RaiseStep
<1>4. CASE Finalize \/ Crash \/ Cancel
  BY <1>4, FinalizeStep, CrashStep, CancelStep
<1>5. CASE \E u \in User : Ask(u) \/ Look(u) \/ Insert(u) \/ Mark(u) \/ Reopen(u) \/ Forget(u)
  BY <1>5, AskStep, LookStep, InsertStep, MarkStep, ReopenStep, ForgetStep
<1>6. QED
  BY <1>1, <1>2, <1>3, <1>4, <1>5 DEF Next

\* In every reachable state a run is open only while its tool is at work or
\* after a failure, findings are numbered as their candidates, what is marked
\* is learnt, and a cancelled target is at its last finding.
THEOREM Invariance == Spec => []IInv
<1>1. Init => IInv
  BY InitInv
<1>2. IInv /\ [Next]_vars => IInv'
  BY StepInv
<1>3. QED
  BY <1>1, <1>2, PTL DEF Spec

\* process_target: a completed target leaves no tool run RUNNING behind.
THEOREM ToolRunsCorrect == Spec => []ToolRunsAreClosed
<1>1. IInv => ToolRunsAreClosed
  BY DEF IInv, TargetInv, ToolInv, Runs, ToolRunsAreClosed
<1>2. QED
  BY <1>1, Invariance, PTL

\* run_scan_pipeline: the counts of a scan that ended by itself are those of
\* its findings, whatever users reopened or marked meanwhile.
THEOREM CountsCorrect == Spec => []CountsMatchFindings
<1>1. IInv => CountsMatchFindings
  BY DEF IInv
<1>2. QED
  BY <1>1, Invariance, PTL

\* process_target's loop: after a cancel a target writes at most the finding
\* it was at.
THEOREM CancelStopsCorrect == Spec => []CancelStopsLoop
<1>1. IInv => CancelStopsLoop
  BY DEF IInv, TargetInv, CancelInv, CancelStopsLoop
<1>2. QED
  BY <1>1, Invariance, PTL

\* apply_suppression: a fingerprint known before the scan and not forgotten
\* ends as a false positive, unreviewed and unpaged.
THEOREM LearntCorrect == Spec => []LearntIsApplied
<1>1. IInv => LearntIsApplied
  <2> SUFFICES ASSUME IInv, NEW f \in DOMAIN finding, NEW a \in {f[1], Everywhere},
                      <<finding[f].fp, a>> \in hist.learnt \ hist.forgotten
               PROVE  finding[f].class = "fp" /\ finding[f].reply = "off" /\ f \notin paged
    BY DEF LearntIsApplied
  <2>1. f[1] \in Target /\ f \in Found(f[1])
    BY DEF IInv, Types, Found
  <2>2. KnownInv(f[1])
    BY <2>1 DEF IInv, TargetInv
  <2>3. QED
    BY <2>1, <2>2 DEF KnownInv, Known
<1>2. QED
  BY <1>1, Invariance, PTL

\* set_status: no crash between its two commits loses what the user taught.
THEOREM MarkedCorrect == Spec => []MarkedIsLearnt
<1>1. IInv => MarkedIsLearnt
  BY DEF IInv, LearntInv, KeyOf, Taught, MarkedIsLearnt
<1>2. QED
  BY <1>1, Invariance, PTL

\* _persist_finding: the findings of a completed target carry the verdict of
\* their review.
THEOREM ReviewedCorrect == Spec => []FinishedIsReviewed
<1>1. IInv => FinishedIsReviewed
  <2> SUFFICES ASSUME IInv, NEW f \in DOMAIN finding, status[f[1]] = "completed"
               PROVE  Reviewed(f)
    BY DEF FinishedIsReviewed, Reviewed
  <2>1. f[1] \in Target /\ f \in Found(f[1])
    BY DEF IInv, Types, Found
  <2>2. FindInv(f[1]) /\ pc[f[1]] \notin Writing
    BY <2>1 DEF IInv, TargetInv, ToolInv, Writing
  <2>3. QED
    BY <2>1, <2>2 DEF FindInv, Settled
<1>2. QED
  BY <1>1, Invariance, PTL

\* process_target: what is critical after its review, and nothing else, was
\* paged by the time the target is complete.
THEOREM PagedCorrect == Spec => []CriticalIsPaged
<1>1. IInv => CriticalIsPaged
  <2> SUFFICES ASSUME IInv, NEW f \in DOMAIN finding
               PROVE  /\ f \in paged => finding[f].class = "confirmed"
                      /\ status[f[1]] = "completed" /\ finding[f].class = "confirmed" => f \in paged
    BY DEF CriticalIsPaged, IInv, Types
  <2>1. f[1] \in Target /\ f \in Found(f[1])
    BY DEF IInv, Types, Found
  <2>2. FindInv(f[1]) /\ (status[f[1]] = "completed" => pc[f[1]] \notin Writing)
    BY <2>1 DEF IInv, TargetInv, ToolInv, Writing
  <2>3. QED
    BY <2>1, <2>2 DEF FindInv, Settled
<1>2. QED
  BY <1>1, Invariance, PTL

----------------------------------------------------------------------------
(* That the pipeline follows the contract of its scan.                     *)

Final == {"completed", "failed"}
Worked == {t \in Target : status[t] \in Final}

\* A target is worked off when its coroutine is at its end, and every one that
\* is at its end was, unless the scan was cancelled or is over.
EndInv(t) ==
    /\ pc[t] = "counting" => status[t] = "completed"
    /\ status[t] \in Final => pc[t] \in {"counting", "done"}
    /\ scan = "running" /\ pc[t] = "done" => cancelled \/ status[t] \in Final

EndsInv == IInv /\ \A t \in Target : EndInv(t)

ContractStep == [Contract!Changed /\ Contract!Next]_(Contract!vars)

LEMMA SeenOfScan ==
    /\ Contract!vars =
         <<[s \in {"scan"} |-> scan], [s \in {"scan"} |-> Target], [s \in {"scan"} |-> Worked]>>
    /\ Contract!vars' =
         <<[s \in {"scan"} |-> scan'], [s \in {"scan"} |-> Target], [s \in {"scan"} |-> Worked']>>
BY DEF Contract!vars, Worked, Final

LEMMA NothingSeen == ASSUME scan' = scan, Worked' = Worked PROVE ContractStep
BY SeenOfScan DEF ContractStep

LEMMA TargetWorkedOff ==
    ASSUME scan = "running", scan' = scan, NEW t \in Target, Worked' = Worked \cup {t}
    PROVE  ContractStep
<1>1. Contract!Work("scan", t)
  BY DEF Contract!Work, Worked, Final
<1>2. Contract!Next
  BY <1>1 DEF Contract!Next
<1>3. QED
  BY <1>2 DEF ContractStep, Contract!Changed, Contract!vars

LEMMA ScanEnds ==
    ASSUME scan = "running", Worked' = Worked,
           scan' \in {"cancelled", "failed"} \/ (scan' = "completed" /\ Target \subseteq Worked)
    PROVE  ContractStep
<1>1. \/ Contract!Stop("scan") \/ Contract!Fail("scan") \/ Contract!Complete("scan")
  BY DEF Contract!Stop, Contract!Fail, Contract!Complete, Contract!Move, Worked, Final
<1>2. Contract!Next
  BY <1>1 DEF Contract!Next
<1>3. QED
  BY <1>2 DEF ContractStep, Contract!Changed, Contract!vars

\* A target goes on without being at its end.
Onwards(t) ==
    /\ UNCHANGED <<scan, cancelled>>
    /\ pc[t] \notin {"counting", "done"}
    /\ \E there \in Steps \ {"counting", "done"}, s \in Statuses \ Final :
         pc' = [pc EXCEPT ![t] = there] /\ status' = [status EXCEPT ![t] = s]

LEMMA OnwardsStep ==
    ASSUME EndsInv, NEW t \in Target, Onwards(t)
    PROVE  ContractStep /\ \A o \in Target : EndInv(o)'
<1>1. PICK there \in Steps \ {"counting", "done"}, s \in Statuses \ Final :
        pc' = [pc EXCEPT ![t] = there] /\ status' = [status EXCEPT ![t] = s]
  BY DEF Onwards
<1>2. status[t] \notin Final /\ status \in [Target -> Statuses] /\ pc \in [Target -> Steps]
  BY DEF EndsInv, EndInv, Onwards, IInv, Types
<1>3. Worked' = Worked
  BY <1>1, <1>2 DEF Worked
<1>4. QED
  BY <1>1, <1>2, <1>3, NothingSeen DEF EndsInv, EndInv, Onwards

\* The steps of a target up to its last candidate.
LEMMA Underway ==
    ASSUME EndsInv, NEW t \in Target,
           \/ Begin(t) /\ ~cancelled
           \/ Resolve(t) \/ Resolved(t) \/ ToTools(t) \/ StartTool(t) \/ FinishTool(t) \/ Detect(t)
           \/ ToLoop(t) \/ NextCandidate(t) \/ Score(t) \/ CheckOnFork(t) \/ FinishFork(t)
           \/ Review(t) \/ PersistFinding(t) \/ PersistReview(t) \/ LinkReview(t) \/ Publish(t)
    PROVE  Onwards(t)
<1> DEFINE Moves(from, there) ==
             /\ UNCHANGED <<scan, cancelled, status>> /\ pc[t] = from
             /\ pc' = [pc EXCEPT ![t] = there]
<1>1. status \in [Target -> Statuses] /\ pc \in [Target -> Steps]
  BY DEF EndsInv, IInv, Types
<1>2. ASSUME NEW from \in Steps \ {"counting", "done"}, NEW there \in Steps \ {"counting", "done"},
             Moves(from, there)
      PROVE  Onwards(t)
  <2>1. status[t] \in Statuses \ Final /\ status' = [status EXCEPT ![t] = status[t]]
    BY <1>1, <1>2 DEF EndsInv, EndInv
  <2>2. QED
    BY <1>2, <2>1 DEF Onwards
<1>3. CASE \/ Begin(t) /\ ~cancelled
           \/ Resolve(t) \/ Resolved(t) \/ ToTools(t) \/ ToLoop(t)
  BY <1>3 DEF Begin, Resolve, Resolved, ToTools, ToLoop, Turn, Goto, SetStatus, unchangedUser,
     Onwards, Steps, Statuses, Final
<1>4. CASE StartTool(t) \/ FinishTool(t)
  <2>1. Moves("tools", "tool") \/ Moves("tool", "tools")
    BY <1>4 DEF StartTool, FinishTool, Turn, Goto, unchangedUser
  <2>2. QED
    BY <2>1, <1>2 DEF Steps
<1>5. CASE Detect(t)
  <2>1. Moves("tools", "tools")
    BY <1>1, <1>5 DEF Detect, Turn, unchangedUser
  <2>2. QED
    BY <2>1, <1>2 DEF Steps
<1>6. CASE NextCandidate(t)
  <2>1. Moves("ai", "persist") \/ Moves("ai", "refuting")
    BY <1>6 DEF NextCandidate, Turn, Goto, unchangedUser
  <2>2. QED
    BY <2>1, <1>2 DEF Steps
<1>7. CASE Score(t) \/ Review(t)
  <2>1. Moves("refuting", "checking") \/ Moves("reviewing", "persist")
    BY <1>7 DEF Score, Review, Turn, Goto, unchangedUser
  <2>2. QED
    BY <2>1, <1>2 DEF Steps
<1>8. CASE CheckOnFork(t)
  <2>1. \E there \in {"reviewing", "checking", "fork_run"} : Moves("checking", there)
    BY <1>8 DEF CheckOnFork, AfterFork, Turn, Goto, unchangedUser
  <2>2. QED
    BY <2>1, <1>2 DEF Steps
<1>9. CASE FinishFork(t)
  <2>1. Moves("fork_run", "reviewing") \/ Moves("fork_run", "checking")
    BY <1>9 DEF FinishFork, AfterFork, Turn, Goto, unchangedUser
  <2>2. QED
    BY <2>1, <1>2 DEF Steps
<1>10. CASE PersistFinding(t) \/ PersistReview(t)
  <2>1. \/ Moves("persist", "publish") \/ Moves("persist", "persist_review")
        \/ Moves("persist_review", "persist_link")
    BY <1>10 DEF PersistFinding, PersistReview, Turn, Goto, unchangedUser
  <2>2. QED
    BY <2>1, <1>2 DEF Steps
<1>11. CASE LinkReview(t) \/ Publish(t)
  <2>1. Moves("persist_link", "publish") \/ Moves("publish", "ai")
    BY <1>11 DEF LinkReview, Publish, Turn, Goto, unchangedUser
  <2>2. QED
    BY <2>1, <1>2 DEF Steps
<1>12. QED
  BY <1>3, <1>4, <1>5, <1>6, <1>7, <1>8, <1>9, <1>10, <1>11

\* A target is left out, worked off, counted or has failed.
LEMMA TargetEnds ==
    ASSUME EndsInv, NEW t \in Target,
           (Begin(t) /\ cancelled) \/ Complete(t) \/ Count(t) \/ Raise(t)
    PROVE  ContractStep /\ \A o \in Target : EndInv(o)'
<1>1. status \in [Target -> Statuses] /\ pc \in [Target -> Steps]
  BY DEF EndsInv, IInv, Types
<1>2. CASE Begin(t) /\ cancelled
  <2>1. UNCHANGED <<scan, cancelled, status>> /\ pc' = [pc EXCEPT ![t] = "done"]
    BY <1>2 DEF Begin, Goto, unchangedUser
  <2>2. Worked' = Worked
    BY <2>1 DEF Worked
  <2>3. QED
    BY <1>1, <1>2, <2>1, <2>2, NothingSeen DEF EndsInv, EndInv
<1>3. CASE Complete(t)
  <2>1. /\ scan = "running" /\ UNCHANGED <<scan, cancelled>>
        /\ pc' = [pc EXCEPT ![t] = "counting"] /\ status' = [status EXCEPT ![t] = "completed"]
    BY <1>3 DEF Complete, Turn, LoopIsFree, Goto, SetStatus, unchangedUser
  <2>2. Worked' = Worked \cup {t}
    BY <1>1, <2>1 DEF Worked, Final
  <2>3. QED
    BY <1>1, <2>1, <2>2, TargetWorkedOff DEF EndsInv, EndInv, Final
<1>4. CASE Count(t)
  <2>1. /\ UNCHANGED <<scan, cancelled, status>> /\ pc[t] = "counting"
        /\ pc' = [pc EXCEPT ![t] = "done"]
    BY <1>4 DEF Count, Turn, Goto, unchangedUser
  <2>2. Worked' = Worked
    BY <2>1 DEF Worked
  <2>3. QED
    BY <1>1, <2>1, <2>2, NothingSeen DEF EndsInv, EndInv, Final
<1>5. CASE Raise(t)
  <2>1. /\ scan = "running" /\ UNCHANGED <<scan, cancelled>>
        /\ pc' = [pc EXCEPT ![t] = "done"] /\ status' = [status EXCEPT ![t] = "failed"]
    BY <1>5 DEF Raise, LoopIsFree, Goto, SetStatus, unchangedUser
  <2>2. Worked' = Worked \cup {t}
    BY <1>1, <2>1 DEF Worked, Final
  <2>3. QED
    BY <1>1, <2>1, <2>2, TargetWorkedOff DEF EndsInv, EndInv, Final
<1>6. QED
  BY <1>2, <1>3, <1>4, <1>5

\* The scan ends, or someone calls an endpoint.
LEMMA ScanStep ==
    ASSUME EndsInv,
           \/ Finalize \/ Crash \/ Cancel \/ UNCHANGED vars
           \/ \E u \in User : Ask(u) \/ Look(u) \/ Insert(u) \/ Mark(u) \/ Reopen(u) \/ Forget(u)
    PROVE  ContractStep /\ \A o \in Target : EndInv(o)'
<1>1. CASE Finalize
  <2>1. /\ scan = "running" /\ UNCHANGED <<cancelled, status, pc>>
        /\ \A t \in Target : pc[t] = "done"
        /\ scan' = IF cancelled THEN "cancelled" ELSE "completed"
    BY <1>1 DEF Finalize, pipeVars, unchangedUser
  <2>2. Worked' = Worked /\ (~cancelled => Target \subseteq Worked)
    BY <2>1 DEF Worked, EndsInv, EndInv
  <2>3. ContractStep
    BY <2>1, <2>2, ScanEnds
  <2>4. QED
    BY <2>1, <2>3 DEF EndsInv, EndInv
<1>2. CASE Crash
  <2>1. /\ UNCHANGED status /\ pc' = [t \in Target |-> "done"]
        /\ scan' = IF scan = "running" THEN "failed" ELSE scan
    BY <1>2 DEF Crash
  <2>2. Worked' = Worked
    BY <2>1 DEF Worked
  <2>3. ContractStep
    BY <2>1, <2>2, ScanEnds, NothingSeen
  <2>4. QED
    BY <2>1, <2>3 DEF EndsInv, EndInv
<1>3. CASE \/ Cancel \/ UNCHANGED vars
           \/ \E u \in User : Ask(u) \/ Look(u) \/ Insert(u) \/ Mark(u) \/ Reopen(u) \/ Forget(u)
  <2>1. UNCHANGED <<scan, status, pc>> /\ (cancelled' = cancelled \/ cancelled' = TRUE)
    <3>1. CASE Cancel \/ UNCHANGED vars
      BY <3>1 DEF Cancel, vars, unchangedPipe, pipeVars
    <3>2. CASE \E u \in User : Ask(u) \/ Look(u) \/ Insert(u) \/ Mark(u) \/ Reopen(u) \/ Forget(u)
      BY <3>2 DEF Ask, Look, Insert, Mark, Reopen, Forget, unchangedPipe, pipeVars
    <3>3. QED
      BY <1>3, <3>1, <3>2
  <2>2. Worked' = Worked
    BY <2>1 DEF Worked
  <2>3. QED
    BY <2>1, <2>2, NothingSeen DEF EndsInv, EndInv
<1>4. QED
  BY <1>1, <1>2, <1>3

\* From the state in which a scan is RUNNING, what its pipeline does is what
\* ScanContract allows: no target that was worked off is taken back, none is
\* after the end of the scan, and "completed" waits for all.
THEOREM ContractCorrect == Spec => FollowsContract
<1>1. Init => EndsInv
  BY InitInv DEF EndsInv, Init, EndInv, Final
<1>2. EndsInv /\ [Next]_vars => EndsInv' /\ ContractStep
  <2> SUFFICES ASSUME EndsInv, [Next]_vars PROVE EndsInv' /\ ContractStep
    OBVIOUS
  <2>1. IInv'
    BY StepInv DEF EndsInv
  <2>2. CASE \E t \in Target : Step(t) \/ Raise(t)
    <3>1. PICK t \in Target : Step(t) \/ Raise(t)
      BY <2>2
    <3>2. Onwards(t) \/ (ContractStep /\ \A o \in Target : EndInv(o)')
      BY <3>1, Underway, TargetEnds DEF Step
    <3>3. QED
      BY <2>1, <3>2, OnwardsStep DEF EndsInv
  <2>3. CASE \/ Finalize \/ Crash \/ Cancel \/ UNCHANGED vars
             \/ \E u \in User : Ask(u) \/ Look(u) \/ Insert(u) \/ Mark(u) \/ Reopen(u) \/ Forget(u)
    BY <2>1, <2>3, ScanStep DEF EndsInv
  <2>4. QED
    BY <2>2, <2>3 DEF Next
<1>3. QED
  BY <1>1, <1>2, PTL DEF Spec, FollowsContract, ContractStep

=============================================================================

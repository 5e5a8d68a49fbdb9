--------------------------- MODULE Monitor_proofs ---------------------------
(* Proofs about Monitor, for every number of addresses, values, rows and    *)
(* threads and every bound.                                                 *)
EXTENDS Monitor, SequenceTheorems, FiniteSetTheorems, WellFoundedInduction, TLAPS

\* A thread that is at some point of a check has begun one.
LEMMA AtType ==
    ASSUME TypeOK, NEW c \in Thread, check[c].pc \notin {"idle", "add"}
    PROVE  check[c] \in Begun
BY DEF TypeOK, Check, Idle

LEMMA RowType ==
    ASSUME TypeOK, NEW w \in Rows
    PROVE  /\ w \in Id
           /\ watch[w] \in [addr : Addr, base : State, checked : BOOLEAN]
BY DEF TypeOK, Rows

\* A new row takes an id that is free.
LEMMA NewIdIsFree == NewId \notin Rows
<1>1. CASE Rows = {}
  BY <1>1
<1>2. CASE Rows # {}
  <2> DEFINE Above == {n \in Nat : \A v \in Rows : v <= n}
  <2>1. Rows \subseteq 1..MaxWatch /\ MaxWatch \in Nat
    BY MonitorAssumption DEF Rows, Id
  <2>2. MaxWatch \in Above
    BY <2>1
  <2>3. PICK m \in Above : \A n \in Above : m <= n
    <3> HIDE DEF Above
    <3>1. Above \in SUBSET Nat
      BY DEF Above
    <3> DEFINE Less == OpToRel(<, Nat)
    <3>2. PICK m \in Above : \A n \in Above : <<n, m>> \notin Less
      BY <2>2, <3>1, NatLessThanWellFounded, WFMin
    <3>3. \A n \in Above : ~(n < m)
      BY <3>1, <3>2 DEF OpToRel
    <3>4. QED
      BY <3>1, <3>3
  <2>4. m \in Rows
    <3> SUFFICES ASSUME m \notin Rows PROVE FALSE
      OBVIOUS
    <3>1. \A v \in Rows : v <= m - 1
      <4> TAKE v \in Rows
      <4>1. v \in Nat /\ m \in Nat /\ v <= m /\ v # m
        BY <2>1, <2>3
      <4>2. QED
        BY <4>1
    <3>2. m - 1 \in Above
      <4>1. PICK v \in Rows : TRUE
        BY <1>2
      <4>2. v \in Nat /\ 1 <= v /\ v <= m - 1 /\ m \in Nat
        BY <2>1, <2>3, <3>1
      <4>3. m - 1 \in Nat
        BY <4>2
      <4>4. QED
        BY <3>1, <4>3
    <3>3. QED
      BY <2>3, <3>2
  <2>5. \A v \in Rows : v <= m
    BY <2>3
  <2> DEFINE Top == CHOOSE w \in Rows : \A v \in Rows : v <= w
  <2>6. Top \in Rows /\ \A v \in Rows : v <= Top
    BY <2>4, <2>5
  <2>7. NewId = 1 + Top
    BY <1>2 DEF NewId
  <2> HIDE DEF Top
  <2>8. Top \in Nat
    BY <2>1, <2>6
  <2>9. ~(1 + Top <= Top)
    BY <2>8
  <2>10. QED
    BY <2>6, <2>7, <2>9
<1>3. QED
  BY <1>1, <1>2

----------------------------------------------------------------------------
(* Type correctness.                                                       *)

LEMMA TypeInit == Init => TypeOK
<1> SUFFICES ASSUME Init PROVE TypeOK
  OBVIOUS
<1>1. scan \in Seq(ScanRow) /\ Len(scan) = 0
  BY DEF Init
<1>2. check \in [Thread -> Check]
  BY DEF Init, Check
<1>3. \A c \in Checker : check[c].pc = "idle"
  BY DEF Init, Idle, Thread
<1>4. watch \in [Id -> [addr : Addr, base : State, checked : BOOLEAN] \cup {NoRow}]
  BY DEF Init
<1>5. loop \in {"none", "sleep", "sweep"} /\ running \in BOOLEAN
  BY MonitorAssumption DEF Init
<1>6. \A c \in Checker : check[c] \notin Begun
  BY <1>3 DEF Begun
<1>7. QED
  BY <1>1, <1>2, <1>4, <1>5, <1>6 DEF Init, TypeOK, State

\* What a check observes is a state of an address.
LEMMA Observations ==
    ASSUME NEW o \in State, NEW b \in State
    PROVE  NewBaseline(b, o) \in State
BY DEF NewBaseline, State

\* A step of one thread that leaves the scans alone.
LEMMA ThreadStep ==
    ASSUME TypeOK, NEW c \in Thread, NEW k \in Check,
           k \in Begun => k.scan \in 0..Len(scan),
           check' = [check EXCEPT ![c] = k], UNCHANGED scan
    PROVE  /\ check' \in [Thread -> Check]
           /\ \A d \in Checker : check'[d] \in Begun => check'[d].scan \in 0..Len(scan')
BY DEF TypeOK

\* An event that names a scan.
LEMMA EventType ==
    ASSUME TypeOK, NEW k \in Begun, k.scan \in 0..Len(scan), NEW f \in Field, UNCHANGED scan,
           event' = event \cup {[watch |-> k.watch, field |-> f, old |-> k.prev[f],
                                 new |-> k.obs[f], scan |-> k.scan]}
    PROVE  event' \subseteq [watch : Id, field : Field \cup {"error"}, old : Seen, new : Seen,
                             scan : 0..Len(scan')]
<1>1. k.watch \in Id /\ k.prev[f] \in Seen /\ k.obs[f] \in Seen
  BY DEF Begun, State
<1>2. QED
  BY <1>1 DEF TypeOK

\* A scan moves to another state.
LEMMA ScanMoves ==
    ASSUME TypeOK, NEW n, NEW s \in {"bare", "queued", "started"},
           scan' = [scan EXCEPT ![n].state = s]
    PROVE  scan' \in Seq(ScanRow) /\ Len(scan') = Len(scan)
<1>1. scan \in Seq(ScanRow)
  BY DEF TypeOK
<1>2. CASE n \in DOMAIN scan
  <2>1. scan[n] \in ScanRow /\ n \in 1..Len(scan)
    BY <1>1, <1>2
  <2>2. [scan[n] EXCEPT !.state = s] \in ScanRow
    BY <2>1 DEF ScanRow
  <2>3. scan' = [scan EXCEPT ![n] = [scan[n] EXCEPT !.state = s]]
    OBVIOUS
  <2>4. QED
    BY <1>1, <2>1, <2>2, <2>3, ExceptSeq
<1>3. CASE n \notin DOMAIN scan
  <2>1. scan' = scan
    BY <1>1, <1>3
  <2>2. QED
    BY <1>1, <2>1
<1>4. QED
  BY <1>2, <1>3

\* A check does not begin with a scan.
LEMMA ReadingType ==
    ASSUME TypeOK, NEW w \in Rows
    PROVE  Reading(w) \in Begun /\ Reading(w).scan = 0
<1>1. Blank \in State
  BY DEF Blank, State, Seen
<1>2. QED
  BY <1>1, RowType DEF Reading, Begun

LEMMA TypeNext == TypeOK /\ [Next]_vars => TypeOK'
<1> SUFFICES ASSUME TypeOK, [Next]_vars PROVE TypeOK'
  OBVIOUS
<1> USE DEF table, manager, bounds
<1>a. Checker \subseteq Thread /\ Adder \subseteq Thread /\ Checker \cap Adder = {}
  BY MonitorAssumption DEF Thread, Checker
<1>1. ASSUME NEW a \in Addr, NEW f \in Field, ChainChanges(a, f) PROVE TypeOK'
  BY <1>1 DEF ChainChanges, TypeOK, State
<1>2. ASSUME NEW c \in Adder, NEW a \in Addr, AddRead(c, a) PROVE TypeOK'
  BY <1>2, <1>a DEF AddRead, TypeOK, Check
<1>3. ASSUME NEW c \in Adder, AddCommit(c) PROVE TypeOK'
  <2>1. check[c].addr \in Addr
    BY <1>3, <1>a DEF AddCommit, TypeOK, Check, Begun, Idle
  <2>2. Blank \in State
    BY DEF Blank, State, Seen
  <2>3. watch' \in [Id -> [addr : Addr, base : State, checked : BOOLEAN] \cup {NoRow}]
    BY <1>3, <2>1, <2>2 DEF AddCommit, TypeOK
  <2>4. QED
    BY <1>3, <1>a, <2>3 DEF AddCommit, TypeOK, Check
<1>4. ASSUME NEW w \in Id, DeleteWatch(w) PROVE TypeOK'
  BY <1>4 DEF DeleteWatch, TypeOK
<1>5. ASSUME NEW c \in Checker, RpcDown(c) PROVE TypeOK'
  <2>1. check[c] \in Begun
    BY <1>5, <1>a, AtType DEF RpcDown
  <2>2. check[c].scan \in 0..Len(scan)
    BY <2>1 DEF TypeOK
  <2> DEFINE k == [check[c] EXCEPT !.pc = "return"]
  <2>3. k \in Begun /\ k.scan = check[c].scan
    BY <2>1 DEF Begun
  <2>4. check' = [check EXCEPT ![c] = k]
    BY <1>5 DEF RpcDown
  <2> HIDE DEF k
  <2>5. event' \subseteq [watch : Id, field : Field \cup {"error"}, old : Seen, new : Seen,
                          scan : 0..Len(scan')]
    <3>1. check[c].watch \in Id /\ "none" \in Seen
      BY <2>1 DEF Begun, Seen
    <3>2. Len(scan) \in Nat
      BY DEF TypeOK
    <3>3. QED
      BY <1>5, <3>1, <3>2 DEF RpcDown, TypeOK
  <2>6. QED
    BY <1>5, <1>a, <2>2, <2>3, <2>4, <2>5, ThreadStep DEF RpcDown, TypeOK, Check
<1>6. ASSUME NEW c \in Checker, ReadCode(c) PROVE TypeOK'
  <2>1. check[c] \in Begun
    BY <1>6, <1>a, AtType DEF ReadCode
  <2>2. check[c].scan \in 0..Len(scan)
    BY <2>1 DEF TypeOK
  <2>3. PICK v \in Seen : check' = [check EXCEPT ![c].pc = "proxy", ![c].obs.code = v]
    <3>1. chain[check[c].addr].code \in Seen
      BY <2>1 DEF TypeOK, Begun, State, Field
    <3>2. QED
      BY <1>6, <3>1 DEF ReadCode, Seen
  <2> DEFINE k == [check[c] EXCEPT !.pc = "proxy", !.obs = [check[c].obs EXCEPT !.code = v]]
  <2>4. k \in Begun /\ k.scan = check[c].scan
    BY <2>1 DEF Begun, State
  <2>5. check' = [check EXCEPT ![c] = k]
    BY <2>3, <1>a DEF TypeOK
  <2> HIDE DEF k
  <2>6. QED
    BY <1>6, <1>a, <2>2, <2>4, <2>5, ThreadStep DEF ReadCode, TypeOK, Check
<1>7. ASSUME NEW c \in Checker, ReadProxy(c) PROVE TypeOK'
  <2>1. check[c] \in Begun
    BY <1>7, <1>a, AtType DEF ReadProxy
  <2>2. check[c].scan \in 0..Len(scan)
    BY <2>1 DEF TypeOK
  <2>3. PICK i \in Seen, a \in Seen, p \in {"scan", "report"} :
           LET obs == [check[c].obs EXCEPT !.impl = i, !.admin = a]
           IN  check' = [check EXCEPT ![c] = [check[c] EXCEPT !.obs = obs,
                                !.todo = Moved(check[c], obs), !.pc = p]]
    <3>1. chain[check[c].addr].impl \in Seen /\ chain[check[c].addr].admin \in Seen
      BY <2>1 DEF TypeOK, Begun, State, Field
    <3>2. PICK i \in {"none", chain[check[c].addr].impl},
               a \in {"none", chain[check[c].addr].admin} :
             LET obs == [check[c].obs EXCEPT !.impl = i, !.admin = a]
             IN  check' = [check EXCEPT ![c] = [check[c] EXCEPT !.obs = obs,
                              !.todo = Moved(check[c], obs),
                              !.pc = IF CallsForScan(Moved(check[c], obs))
                                     THEN "scan" ELSE "report"]]
      BY <1>7 DEF ReadProxy
    <3>3. i \in Seen /\ a \in Seen
      BY <3>1, <3>2 DEF Seen
    <3> DEFINE calls == CallsForScan(Moved(check[c], [check[c].obs EXCEPT !.impl = i, !.admin = a]))
    <3>4. CASE calls
      BY <3>2, <3>3, <3>4
    <3>5. CASE ~calls
      BY <3>2, <3>3, <3>5
    <3>6. QED
      BY <3>4, <3>5
  <2> DEFINE obs == [check[c].obs EXCEPT !.impl = i, !.admin = a]
  <2> DEFINE k == [check[c] EXCEPT !.obs = obs, !.todo = Moved(check[c], obs), !.pc = p]
  <2>4. obs \in State
    BY <2>1 DEF Begun, State
  <2>5. Moved(check[c], obs) \subseteq Field
    BY DEF Moved
  <2>6. check' = [check EXCEPT ![c] = k]
    BY <2>3
  <2>7. k \in Begun /\ k.scan = check[c].scan
    <3> HIDE DEF obs
    <3>1. QED
      BY <2>1, <2>4, <2>5 DEF Begun
  <2> HIDE DEF k
  <2>8. QED
    BY <1>7, <1>a, <2>2, <2>6, <2>7, ThreadStep DEF ReadProxy, TypeOK, Check
<1>8. ASSUME NEW c \in Checker, InsertScan(c) PROVE TypeOK'
  <2>1. check[c] \in Begun
    BY <1>8, <1>a, AtType DEF InsertScan
  <2> DEFINE row == [addr |-> check[c].addr, saw |-> check[c].obs, state |-> "bare"]
  <2>2. row \in ScanRow
    BY <2>1 DEF Begun, ScanRow
  <2>3. scan' \in Seq(ScanRow) /\ Len(scan') = Len(scan) + 1 /\ Len(scan) \in Nat
    BY <1>8, <2>2 DEF InsertScan, TypeOK
  <2>4. check' \in [Thread -> Check]
    <3> DEFINE n == Len(scan')
               k == [check[c] EXCEPT !.pc = "target", !.scan = n]
    <3>n. n \in Nat
      BY <2>3
    <3>2. check' = [check EXCEPT ![c] = k]
      BY <1>8 DEF InsertScan
    <3> HIDE DEF n
    <3>1. k \in Begun
      BY <2>1, <3>n DEF Begun
    <3> HIDE DEF k
    <3>3. QED
      BY <3>1, <3>2 DEF TypeOK, Check
  <2>5. \A d \in Checker : check'[d] \in Begun => check'[d].scan \in 0..Len(scan')
    <3> DEFINE n == Len(scan')
    <3>1. check' = [check EXCEPT ![c] = [check[c] EXCEPT !.pc = "target", !.scan = n]]
      BY <1>8 DEF InsertScan
    <3>2. check'[c] = [check[c] EXCEPT !.pc = "target", !.scan = n]
      BY <1>a, <3>1 DEF TypeOK
    <3>3. n \in Nat /\ n = Len(scan) + 1 /\ Len(scan) \in Nat
      BY <2>3
    <3> HIDE DEF n
    <3>4. check'[c].scan = n
      BY <2>1, <3>2 DEF Begun
    <3>5. \A d \in Checker \ {c} : check'[d] = check[d]
      BY <1>a, <3>1
    <3>6. \A d \in Checker : check'[d] \in Begun => check'[d].scan \in 0..n
      BY <3>3, <3>4, <3>5 DEF TypeOK
    <3>7. QED
      BY <3>6 DEF n
  <2>6. event \subseteq [watch : Id, field : Field \cup {"error"}, old : Seen, new : Seen,
                         scan : 0..Len(scan')]
    <3>1. 0..Len(scan) \subseteq 0..Len(scan')
      BY <2>3
    <3>2. QED
      BY <3>1 DEF TypeOK
  <2>7. QED
    BY <1>8, <2>3, <2>4, <2>5, <2>6 DEF InsertScan, TypeOK
<1>9. ASSUME NEW c \in Checker, InsertTarget(c) PROVE TypeOK'
  <2>1. check[c] \in Begun
    BY <1>9, <1>a, AtType DEF InsertTarget
  <2>2. scan' \in Seq(ScanRow) /\ Len(scan') = Len(scan)
    BY <1>9, ScanMoves DEF InsertTarget
  <2>3. check' \in [Thread -> Check]
    BY <1>9, <2>1 DEF InsertTarget, TypeOK, Check, Begun
  <2>4. \A d \in Checker : check'[d] \in Begun => check'[d].scan \in 0..Len(scan')
    BY <1>9, <1>a, <2>1, <2>2 DEF InsertTarget, TypeOK, Begun
  <2>5. QED
    BY <1>9, <2>2, <2>3, <2>4 DEF InsertTarget, TypeOK
<1>10. ASSUME NEW c \in Checker, NEW f \in Field, ReportEvent(c, f) PROVE TypeOK'
  <2>1. check[c] \in Begun
    BY <1>10, <1>a, AtType DEF ReportEvent
  <2>2. check[c].scan \in 0..Len(scan)
    BY <2>1 DEF TypeOK
  <2> DEFINE k == [check[c] EXCEPT !.todo = check[c].todo \ {f}]
  <2>3. k \in Begun /\ k.scan = check[c].scan
    BY <2>1 DEF Begun
  <2>4. check' = [check EXCEPT ![c] = k]
    BY <1>10 DEF ReportEvent
  <2> HIDE DEF k
  <2>5. event' \subseteq [watch : Id, field : Field \cup {"error"}, old : Seen, new : Seen,
                          scan : 0..Len(scan')]
    BY <1>10, <2>1, <2>2, EventType DEF ReportEvent
  <2>6. QED
    BY <1>10, <1>a, <2>2, <2>3, <2>4, <2>5, ThreadStep DEF ReportEvent, TypeOK, Check
<1>11. ASSUME NEW c \in Checker, SaveBaseline(c) PROVE TypeOK'
  <2>1. check[c] \in Begun
    BY <1>11, <1>a, AtType DEF SaveBaseline
  <2>2. check[c].scan \in 0..Len(scan)
    BY <2>1 DEF TypeOK
  <2> DEFINE k == [check[c] EXCEPT !.pc = "return"]
  <2>3. k \in Begun /\ k.scan = check[c].scan
    BY <2>1 DEF Begun
  <2>4. check' = [check EXCEPT ![c] = k]
    BY <1>11 DEF SaveBaseline
  <2> HIDE DEF k
  <2>5. watch' \in [Id -> [addr : Addr, base : State, checked : BOOLEAN] \cup {NoRow}]
    <3>1. CASE check[c].watch \notin Rows
      BY <1>11, <3>1 DEF SaveBaseline, TypeOK
    <3>2. CASE check[c].watch \in Rows
      <4> DEFINE w == check[c].watch
      <4>1. watch[w] \in [addr : Addr, base : State, checked : BOOLEAN] /\ w \in Id
        BY <3>2, RowType
      <4>2. NewBaseline(watch[w].base, check[c].obs) \in State
        BY <2>1, <4>1, Observations DEF Begun
      <4> DEFINE b == NewBaseline(watch[w].base, check[c].obs)
                 r == [watch[w] EXCEPT !.base = b, !.checked = TRUE]
      <4>3. watch' = [watch EXCEPT ![w] = r]
        BY <1>11, <3>2, <4>1 DEF SaveBaseline, TypeOK
      <4> HIDE DEF b
      <4>4. r \in [addr : Addr, base : State, checked : BOOLEAN]
        BY <4>1, <4>2 DEF b
      <4> HIDE DEF r
      <4>5. QED
        BY <4>3, <4>4 DEF TypeOK
    <3>3. QED
      BY <3>1, <3>2
  <2>6. QED
    BY <1>11, <1>a, <2>2, <2>3, <2>4, <2>5, ThreadStep DEF SaveBaseline, TypeOK, Check
<1>12. ASSUME NEW c \in Checker, StartScan(c) PROVE TypeOK'
  <2>1. scan' \in Seq(ScanRow) /\ Len(scan') = Len(scan)
    <3>1. CASE check[c].scan # 0
      BY <1>12, <3>1, ScanMoves DEF StartScan
    <3>2. CASE check[c].scan = 0
      BY <1>12, <3>2 DEF StartScan, TypeOK
    <3>3. QED
      BY <3>1, <3>2
  <2>2. check' \in [Thread -> Check]
    BY <1>12 DEF StartScan, TypeOK, Check
  <2>3. \A d \in Checker : check'[d] \in Begun => check'[d].scan \in 0..Len(scan')
    BY <1>12, <1>a, <2>1 DEF StartScan, TypeOK, Begun, Idle
  <2>4. QED
    BY <1>12, <2>1, <2>2, <2>3 DEF StartScan, TypeOK
<1>13. ASSUME NEW c \in Checker, CheckRaises(c) PROVE TypeOK'
  <2>1. check' = [check EXCEPT ![c] = Idle] /\ Idle \in Check /\ Idle \notin Begun
    BY <1>13 DEF CheckRaises, Check, Begun, Idle
  <2>2. /\ check' \in [Thread -> Check]
        /\ \A d \in Checker : check'[d] \in Begun => check'[d].scan \in 0..Len(scan')
    BY <1>13, <1>a, <2>1, ThreadStep DEF CheckRaises
  <2>3. QED
    BY <1>13, <2>2 DEF CheckRaises, TypeOK
<1>14. ASSUME LoopWakes PROVE TypeOK'
  BY <1>14 DEF LoopWakes, TypeOK, Rows
<1>15. ASSUME NEW w \in Id, LoopChecks(w) PROVE TypeOK'
  <2>1. PICK k \in Check : /\ check' = [check EXCEPT !["loop"] = k]
                           /\ k \in Begun => k.scan \in 0..Len(scan)
    <3>1. CASE w \in Rows
      <4>1. Reading(w) \in Begun /\ Reading(w).scan = 0 /\ Len(scan) \in Nat
        BY <3>1, ReadingType DEF TypeOK
      <4>2. check' = [check EXCEPT !["loop"] = Reading(w)]
        BY <1>15, <3>1 DEF LoopChecks
      <4>3. Reading(w) \in Check /\ Reading(w).scan \in 0..Len(scan)
        BY <4>1 DEF Check
      <4>4. QED
        BY <4>2, <4>3
    <3>2. CASE w \notin Rows
      <4>1. Idle \in Check /\ Idle \notin Begun
        BY DEF Check, Begun, Idle
      <4>2. QED
        BY <1>15, <3>2, <4>1 DEF LoopChecks
    <3>3. QED
      BY <3>1, <3>2
  <2>2. "loop" \in Thread
    BY DEF Thread, Checker
  <2>3. /\ check' \in [Thread -> Check]
        /\ \A d \in Checker : check'[d] \in Begun => check'[d].scan \in 0..Len(scan')
    BY <1>15, <2>1, <2>2, ThreadStep DEF LoopChecks
  <2>4. QED
    BY <1>15, <2>3 DEF LoopChecks, TypeOK
<1>16. ASSUME LoopSleeps PROVE TypeOK'
  BY <1>16 DEF LoopSleeps, TypeOK
<1>17. ASSUME NEW c \in Caller, NEW w \in Id, CallerChecks(c, w) PROVE TypeOK'
  <2>1. Reading(w) \in Begun /\ Reading(w).scan = 0 /\ Len(scan) \in Nat
    BY <1>17, ReadingType DEF CallerChecks, TypeOK
  <2> DEFINE k == Reading(w)
  <2>2. /\ k \in Check
        /\ k.scan \in 0..Len(scan)
        /\ check' = [check EXCEPT ![c] = k]
    BY <1>17, <2>1 DEF CallerChecks, Check
  <2>a. c \in Thread
    BY DEF Thread, Checker
  <2> HIDE DEF k
  <2>b. /\ check' \in [Thread -> Check]
        /\ \A d \in Checker : check'[d] \in Begun => check'[d].scan \in 0..Len(scan')
    BY <1>17, <2>2, <2>a, ThreadStep DEF CallerChecks
  <2>3. QED
    BY <1>17, <2>b DEF CallerChecks, TypeOK
<1>18. ASSUME MonitorStart \/ MonitorStop PROVE TypeOK'
  BY <1>18 DEF MonitorStart, MonitorStop, TypeOK
<1>19. ASSUME Crash PROVE TypeOK'
  <2>1. Idle \in Check /\ Idle \notin Begun
    BY DEF Check, Begun, Idle
  <2>2. QED
    <3>1. /\ check' \in [Thread -> Check]
          /\ \A d \in Checker : check'[d] \notin Begun
      BY <1>19, <1>a, <2>1 DEF Crash
    <3>2. QED
      <4>1. crashes' \in Nat
        BY <1>19 DEF Crash, TypeOK
      <4>2. QED
        BY <1>19, <3>1, <4>1 DEF Crash, TypeOK
<1>20. ASSUME Restart PROVE TypeOK'
  <2>1. scan' \in Seq(ScanRow) /\ Len(scan') = Len(scan)
    <3>1. scan \in Seq(ScanRow) /\ DOMAIN scan = 1..Len(scan) /\ Len(scan) \in Nat
      BY DEF TypeOK
    <3>2. \A i \in 1..Len(scan) : [scan[i] EXCEPT !.state = "started"] \in ScanRow
      <4> TAKE i \in 1..Len(scan)
      <4>1. scan[i] \in ScanRow
        BY <3>1
      <4>2. QED
        BY <4>1 DEF ScanRow
    <3>3. scan' \in [1..Len(scan) -> ScanRow]
      BY <1>20, <3>1, <3>2 DEF Restart
    <3>4. QED
      BY <3>1, <3>3
  <2>2. QED
    BY <1>20, <2>1, MonitorAssumption DEF Restart, TypeOK
<1>21. CASE UNCHANGED vars
  BY <1>21 DEF vars, TypeOK
<1>22. QED
  BY <1>1, <1>2, <1>3, <1>4, <1>5, <1>6, <1>7, <1>8, <1>9, <1>10, <1>11, <1>12, <1>13,
     <1>14, <1>15, <1>16, <1>17, <1>18, <1>19, <1>20, <1>21
  DEF Next, User, Fault, CheckStep

\* Every variable of Monitor keeps its type, and a check names a scan that
\* exists.
THEOREM TypeCorrect == Spec => []TypeOK
BY TypeInit, TypeNext, PTL DEF Spec

----------------------------------------------------------------------------
(* A rescan that is not started is in somebody's hands, when no session    *)
(* raises.                                                                 *)

Holding == {"target", "report", "return"}

\* A step that lets go of no rescan.
LEMMA StillHeard ==
    ASSUME RescanIsHeard, up' => up, UNCHANGED scan,
           \A d \in Checker : check[d].pc \in Holding =>
               check'[d].pc \in Holding /\ check'[d].scan = check[d].scan
    PROVE  RescanIsHeard'
BY DEF RescanIsHeard, Holding

LEMMA HeardNext ==
    ASSUME MaxFaults = 0
    PROVE  TypeOK /\ RescanIsHeard /\ [Next]_vars => RescanIsHeard'
<1> SUFFICES ASSUME TypeOK, RescanIsHeard, [Next]_vars PROVE RescanIsHeard'
  OBVIOUS
<1> USE DEF table, manager, bounds
<1>a. Checker \subseteq Thread /\ Adder \subseteq Thread /\ Checker \cap Adder = {}
  BY MonitorAssumption DEF Thread, Checker
<1>b. DOMAIN check = Thread
  BY DEF TypeOK
<1>1. ASSUME NEW a \in Addr, NEW f \in Field, ChainChanges(a, f) PROVE RescanIsHeard'
  BY <1>1 DEF ChainChanges, RescanIsHeard
<1>2. ASSUME NEW c \in Adder, NEW a \in Addr, AddRead(c, a) PROVE RescanIsHeard'
  BY <1>2, <1>a, <1>b, StillHeard DEF AddRead
<1>3. ASSUME NEW c \in Adder, AddCommit(c) PROVE RescanIsHeard'
  BY <1>3, <1>a, <1>b, StillHeard DEF AddCommit
<1>4. ASSUME NEW w \in Id, DeleteWatch(w) PROVE RescanIsHeard'
  BY <1>4 DEF DeleteWatch, RescanIsHeard
<1>5. ASSUME NEW c \in Checker, RpcDown(c) PROVE RescanIsHeard'
  BY <1>5, <1>b, StillHeard DEF RpcDown, Holding
<1>6. ASSUME NEW c \in Checker, ReadCode(c) PROVE RescanIsHeard'
  <2>1. check[c].pc \notin Holding /\ UNCHANGED <<scan, up>>
    BY <1>6 DEF ReadCode, Holding
  <2>2. \A d \in Checker \ {c} : check'[d] = check[d]
    BY <1>6, <1>a, <1>b DEF ReadCode
  <2>3. QED
    BY <2>1, <2>2, StillHeard
<1>7. ASSUME NEW c \in Checker, ReadProxy(c) PROVE RescanIsHeard'
  <2>1. check[c].pc \notin Holding /\ UNCHANGED <<scan, up>>
    BY <1>7 DEF ReadProxy, Holding
  <2>2. \A d \in Checker \ {c} : check'[d] = check[d]
    BY <1>7, <1>a, <1>b DEF ReadProxy
  <2>3. QED
    BY <2>1, <2>2, StillHeard
<1>8. ASSUME NEW c \in Checker, InsertScan(c) PROVE RescanIsHeard'
  <2>1. /\ scan \in Seq(ScanRow) /\ Len(scan') = Len(scan) + 1 /\ Len(scan) \in Nat
        /\ DOMAIN scan' = 1..Len(scan')
        /\ \A i \in 1..Len(scan) : scan'[i] = scan[i]
    BY <1>8 DEF InsertScan, TypeOK
  <2>2. check[c] \in Begun
    BY <1>8, <1>a, AtType DEF InsertScan
  <2>3. check'[c].pc = "target" /\ check'[c].scan = Len(scan')
    BY <1>8, <1>a, <1>b, <2>2 DEF InsertScan, Begun
  <2>4. \A d \in Checker : check[d].pc \in Holding => check'[d] = check[d]
    BY <1>8, <1>a, <1>b DEF InsertScan, Holding
  <2>5. SUFFICES ASSUME up, NEW i \in 1..Len(scan'), scan'[i].state # "started"
                 PROVE  \E d \in Checker : check'[d].pc \in Holding /\ check'[d].scan = i
    BY <1>8, <2>1 DEF InsertScan, RescanIsHeard, Holding
  <2>6. CASE i = Len(scan')
    BY <2>3, <2>6 DEF Holding
  <2>7. CASE i # Len(scan')
    <3>1. i \in 1..Len(scan) /\ i \in DOMAIN scan /\ scan[i].state # "started"
      BY <2>1, <2>5, <2>7
    <3>2. QED
      BY <2>4, <2>5, <3>1 DEF RescanIsHeard, Holding
  <2>8. QED
    BY <2>6, <2>7
<1>9. ASSUME NEW c \in Checker, InsertTarget(c) PROVE RescanIsHeard'
  <2>1. check[c] \in Begun
    BY <1>9, <1>a, AtType DEF InsertTarget
  <2>2. \A d \in Checker : check[d].pc \in Holding =>
            check'[d].pc \in Holding /\ check'[d].scan = check[d].scan
    BY <1>9, <1>a, <1>b, <2>1 DEF InsertTarget, Holding, Begun
  <2>3. /\ DOMAIN scan' = DOMAIN scan /\ UNCHANGED up
        /\ \A i \in DOMAIN scan : i # check[c].scan => scan'[i] = scan[i]
    BY <1>9 DEF InsertTarget
  <2>4. check[c].pc \in Holding
    BY <1>9 DEF InsertTarget, Holding
  <2>5. SUFFICES ASSUME up, NEW i \in DOMAIN scan, scan'[i].state # "started"
                 PROVE  \E d \in Checker : check'[d].pc \in Holding /\ check'[d].scan = i
    BY <2>3 DEF RescanIsHeard, Holding
  <2>6. CASE i = check[c].scan
    BY <2>2, <2>4, <2>6
  <2>7. CASE i # check[c].scan
    BY <2>2, <2>3, <2>5, <2>7 DEF RescanIsHeard, Holding
  <2>8. QED
    BY <2>6, <2>7
<1>10. ASSUME NEW c \in Checker, NEW f \in Field, ReportEvent(c, f) PROVE RescanIsHeard'
  <2>1. check[c] \in Begun
    BY <1>10, <1>a, AtType DEF ReportEvent
  <2>2. check'[c].pc = check[c].pc /\ check'[c].scan = check[c].scan
    BY <1>10, <1>a, <1>b, <2>1 DEF ReportEvent, Begun
  <2>3. \A d \in Checker \ {c} : check'[d] = check[d]
    BY <1>10, <1>a, <1>b DEF ReportEvent
  <2>4. QED
    BY <1>10, <2>2, <2>3, StillHeard DEF ReportEvent
<1>11. ASSUME NEW c \in Checker, SaveBaseline(c) PROVE RescanIsHeard'
  <2>1. check[c] \in Begun
    BY <1>11, <1>a, AtType DEF SaveBaseline
  <2>2. check'[c].pc = "return" /\ check'[c].scan = check[c].scan
    BY <1>11, <1>a, <1>b, <2>1 DEF SaveBaseline, Begun
  <2>3. \A d \in Checker \ {c} : check'[d] = check[d]
    BY <1>11, <1>a, <1>b DEF SaveBaseline
  <2>4. QED
    BY <1>11, <2>2, <2>3, StillHeard DEF SaveBaseline, Holding
<1>12. ASSUME NEW c \in Checker, StartScan(c) PROVE RescanIsHeard'
  <2>1. check[c] \in Begun /\ check[c].pc = "return" /\ UNCHANGED up
    BY <1>12, <1>a, AtType DEF StartScan
  <2>2. /\ DOMAIN scan' = DOMAIN scan /\ DOMAIN scan = 1..Len(scan) /\ Len(scan) \in Nat
        /\ \A i \in DOMAIN scan : i # check[c].scan => scan'[i] = scan[i]
    BY <1>12 DEF StartScan, TypeOK
  <2>3. \A d \in Checker \ {c} : check'[d] = check[d]
    BY <1>12, <1>a, <1>b DEF StartScan
  <2>4. SUFFICES ASSUME up, NEW i \in DOMAIN scan, scan'[i].state # "started"
                 PROVE  \E d \in Checker : check'[d].pc \in Holding /\ check'[d].scan = i
    BY <2>1, <2>2 DEF RescanIsHeard, Holding
  <2>5. i # check[c].scan
    <3> SUFFICES ASSUME i = check[c].scan PROVE FALSE
      OBVIOUS
    <3>1. scan' = [scan EXCEPT ![i].state = "started"]
      BY <1>12, <2>2 DEF StartScan
    <3>2. scan[i] \in ScanRow
      BY <2>2 DEF TypeOK
    <3>3. scan'[i].state = "started"
      BY <3>1, <3>2 DEF ScanRow
    <3>4. QED
      BY <2>4, <3>3
  <2>6. PICK d \in Checker : check[d].pc \in Holding /\ check[d].scan = i
    BY <2>2, <2>4, <2>5 DEF RescanIsHeard, Holding
  <2>7. QED
    BY <2>3, <2>5, <2>6
<1>13. ASSUME NEW c \in Checker, CheckRaises(c) PROVE RescanIsHeard'
  <2>1. faults \in Nat /\ faults < 0
    BY <1>13 DEF CheckRaises, TypeOK
  <2>2. QED
    BY <2>1
<1>14. ASSUME LoopWakes \/ LoopSleeps \/ MonitorStart \/ MonitorStop PROVE RescanIsHeard'
  BY <1>14 DEF LoopWakes, LoopSleeps, MonitorStart, MonitorStop, RescanIsHeard
<1>15. ASSUME NEW w \in Id, LoopChecks(w) PROVE RescanIsHeard'
  <2>1. check["loop"].pc \notin Holding /\ UNCHANGED <<scan, up>>
    BY <1>15 DEF LoopChecks, Idle, Holding
  <2>2. \A d \in Checker \ {"loop"} : check'[d] = check[d]
    BY <1>15, <1>a, <1>b DEF LoopChecks
  <2>3. QED
    BY <2>1, <2>2, StillHeard
<1>16. ASSUME NEW c \in Caller, NEW w \in Id, CallerChecks(c, w) PROVE RescanIsHeard'
  <2>1. check[c].pc \notin Holding /\ UNCHANGED <<scan, up>>
    BY <1>16 DEF CallerChecks, Idle, Holding
  <2>2. \A d \in Checker \ {c} : check'[d] = check[d]
    BY <1>16, <1>a, <1>b DEF CallerChecks
  <2>3. QED
    BY <2>1, <2>2, StillHeard
<1>17. ASSUME Crash PROVE RescanIsHeard'
  BY <1>17 DEF Crash, RescanIsHeard
<1>18. ASSUME Restart PROVE RescanIsHeard'
  <2>1. scan \in Seq(ScanRow) /\ DOMAIN scan' = DOMAIN scan
    BY <1>18 DEF Restart, TypeOK
  <2>2. \A i \in DOMAIN scan : scan'[i].state = "started"
    <3> TAKE i \in DOMAIN scan
    <3>1. scan[i] \in ScanRow /\ scan'[i] = [scan[i] EXCEPT !.state = "started"]
      BY <1>18, <2>1 DEF Restart
    <3>2. QED
      BY <3>1 DEF ScanRow
  <2>3. QED
    BY <2>1, <2>2 DEF RescanIsHeard
<1>19. CASE UNCHANGED vars
  BY <1>19 DEF vars, RescanIsHeard
<1>20. QED
  BY <1>1, <1>2, <1>3, <1>4, <1>5, <1>6, <1>7, <1>8, <1>9, <1>10, <1>11, <1>12, <1>13,
     <1>14, <1>15, <1>16, <1>17, <1>18, <1>19
  DEF Next, User, Fault, CheckStep

\* When no session with the database raises, a rescan that is not started is
\* in the hands of the check that created it, or the server is down: neither
\* monitor_stop, a deleted row nor a second check loses one.
THEOREM HeardCorrect ==
    ASSUME MaxFaults = 0
    PROVE  Spec => []RescanIsHeard
<1>1. Init => RescanIsHeard
  BY DEF Init, RescanIsHeard
<1>2. TypeOK /\ RescanIsHeard /\ [Next]_vars => RescanIsHeard'
  BY HeardNext
<1>3. QED
  BY <1>1, <1>2, TypeCorrect, PTL DEF Spec

----------------------------------------------------------------------------
(* When one thread checks, the others take no part in a check.             *)

LEMMA OnlyThread == Only \in Thread /\ Adder \subseteq Thread /\ Only \notin Adder
<1>1. CASE Caller = {}
  BY <1>1, MonitorAssumption DEF Only, Checker, Thread
<1>2. CASE Caller # {}
  <2>1. Only \in Caller
    BY <1>2 DEF Only
  <2>2. QED
    BY <2>1, MonitorAssumption DEF Checker, Thread
<1>3. QED
  BY <1>1, <1>2

LEMMA OnlyIs ==
    ASSUME OneChecks
    PROVE  (\A c \in Caller : c = Only) /\ (AutoStart => Only = "loop")
<1>1. CASE Caller = {}
  BY <1>1 DEF Only
<1>2. CASE ~AutoStart /\ \E c \in Caller : Caller = {c}
  BY <1>2 DEF Only
<1>3. QED
  BY <1>1, <1>2 DEF OneChecks

\* The one thread begins a check, or finds that the row has gone.
Begins(w) ==
    /\ check[Only] = Idle
    /\ check' = [check EXCEPT ![Only] = IF w \in Rows THEN Reading(w) ELSE Idle]
    /\ UNCHANGED <<chain, table, bounds>>

LEMMA OnlyNext ==
    ASSUME OneChecks, TypeOK, NoLoopInv, Next
    PROVE  \/ \E a \in Addr, f \in Field : ChainChanges(a, f)
           \/ \E c \in Adder : AddCommit(c) \/ \E a \in Addr : AddRead(c, a)
           \/ \E w \in Id : DeleteWatch(w) \/ Begins(w)
           \/ CheckStep(Only) \/ CheckRaises(Only)
           \/ LoopWakes \/ LoopSleeps \/ MonitorStart \/ MonitorStop \/ Crash \/ Restart
<1>1. ASSUME NEW c \in Checker, CheckStep(c) \/ CheckRaises(c) PROVE c = Only
  <2>1. check[c] # Idle
    BY <1>1 DEF CheckStep, CheckRaises, RpcDown, ReadCode, ReadProxy, InsertScan, InsertTarget,
       ReportEvent, SaveBaseline, StartScan, Idle
  <2>2. CASE c = "loop"
    BY <2>1, <2>2, OnlyIs DEF NoLoopInv
  <2>3. CASE c \in Caller
    BY <2>3, OnlyIs
  <2>4. QED
    BY <2>2, <2>3 DEF Checker
<1>2. ASSUME NEW w \in Id, LoopChecks(w) PROVE Begins(w)
  <2>1. Only = "loop"
    BY <1>2, OnlyIs DEF LoopChecks, NoLoopInv
  <2>2. QED
    BY <1>2, <2>1 DEF LoopChecks, Begins
<1>3. ASSUME NEW c \in Caller, NEW w \in Id, CallerChecks(c, w) PROVE Begins(w)
  <2>1. c = Only
    BY OnlyIs
  <2>2. QED
    BY <1>3, <2>1 DEF CallerChecks, Begins
<1>4. QED
  BY <1>1, <1>2, <1>3 DEF Next, User, Fault

LEMMA NoLoopNext == TypeOK /\ NoLoopInv /\ [Next]_vars => NoLoopInv'
<1> SUFFICES ASSUME TypeOK, NoLoopInv, [Next]_vars, ~AutoStart
             PROVE  loop' = "none" /\ check'["loop"] = Idle
  BY DEF NoLoopInv
<1> USE DEF table, manager, bounds
<1>a. loop = "none" /\ check["loop"] = Idle
  BY DEF NoLoopInv
<1>b. /\ "loop" \in Thread /\ "loop" \notin Adder \cup Caller /\ DOMAIN check = Thread
      /\ Checker = Caller \cup {"loop"}
  BY MonitorAssumption DEF Thread, Checker, TypeOK
<1>1. ASSUME NEW c \in Checker, CheckStep(c) \/ CheckRaises(c)
      PROVE  loop' = "none" /\ check'["loop"] = Idle
  <2>1. c # "loop"
    BY <1>1, <1>a DEF CheckStep, CheckRaises, RpcDown, ReadCode, ReadProxy, InsertScan,
       InsertTarget, ReportEvent, SaveBaseline, StartScan, Idle
  <2>2. CASE CheckStep(c)
    BY <2>1, <2>2, <1>a, <1>b DEF CheckStep, RpcDown, ReadCode, ReadProxy, InsertScan,
       InsertTarget, ReportEvent, SaveBaseline, StartScan
  <2>3. CASE CheckRaises(c)
    BY <2>1, <2>3, <1>a, <1>b DEF CheckRaises
  <2>4. QED
    BY <1>1, <2>2, <2>3
<1>2. ASSUME LoopWakes \/ LoopSleeps \/ (\E w \in Id : LoopChecks(w))
      PROVE  FALSE
  BY <1>2, <1>a DEF LoopWakes, LoopSleeps, LoopChecks
<1>3. ASSUME \/ \E a \in Addr, f \in Field : ChainChanges(a, f)
             \/ \E w \in Id : DeleteWatch(w)
             \/ MonitorStart \/ MonitorStop \/ Crash \/ Restart
      PROVE  loop' = "none" /\ check'["loop"] = Idle
  BY <1>3, <1>a, <1>b
  DEF ChainChanges, DeleteWatch, MonitorStart, MonitorStop, Crash, Restart
<1>4. ASSUME \/ \E c \in Adder : AddCommit(c) \/ \E a \in Addr : AddRead(c, a)
             \/ \E c \in Caller, w \in Id : CallerChecks(c, w)
      PROVE  loop' = "none" /\ check'["loop"] = Idle
  BY <1>4, <1>a, <1>b DEF AddCommit, AddRead, CallerChecks
<1>5. CASE UNCHANGED vars
  BY <1>5, <1>a DEF vars
<1>6. QED
  BY <1>1, <1>2, <1>3, <1>4, <1>5 DEF Next, User, Fault

LEMMA NoLoopInit == Init => NoLoopInv
BY DEF Init, NoLoopInv, Thread, Checker

----------------------------------------------------------------------------
(* Moves of a baseline are reported, when one thread checks.               *)

\* A step that leaves the rows alone, keeps the events, and leaves the
\* check alone or ends it.
LEMMA StillReported ==
    ASSUME ReportInv, UNCHANGED watch, event \subseteq event',
           check'[Only] = check[Only] \/ check'[Only].pc \notin InFlight
    PROVE  ReportInv'
<1>1. RowInv'
  BY DEF ReportInv, RowInv, Rows
<1>2. ASSUME check'[Only] = check[Only], check[Only].pc \in InFlight
      PROVE  CheckInv(check[Only])'
  <2>1. CheckInv(check[Only])
    BY <1>2 DEF ReportInv
  <2>2. QED
    BY <1>2, <2>1 DEF CheckInv, Rows
<1>3. QED
  BY <1>1, <1>2 DEF ReportInv

\* A step of the check that goes on with the same row, reading and list
\* of moves.
LEMMA SameCheck ==
    ASSUME ReportInv, UNCHANGED <<watch, event>>,
           LET k == check[Only]
               m == check'[Only]
           IN  /\ k.pc \in {"scan", "target", "report"} /\ m.pc \in {"scan", "target", "report"}
               /\ m.watch = k.watch /\ m.first = k.first /\ m.prev = k.prev
               /\ m.obs = k.obs /\ m.todo = k.todo
    PROVE  ReportInv'
<1>1. RowInv'
  BY DEF ReportInv, RowInv, Rows
<1>2. CheckInv(check[Only])
  BY DEF ReportInv, InFlight
<1>3. CheckInv(check[Only])'
  BY <1>2 DEF CheckInv, Rows
<1>4. QED
  BY <1>1, <1>3 DEF ReportInv

LEMMA ReportNext ==
    ASSUME OneChecks
    PROVE  IInv /\ [Next]_vars => ReportInv'
<1> SUFFICES ASSUME TypeOK, NoLoopInv, ReportInv, [Next]_vars PROVE ReportInv'
  BY DEF IInv
<1> USE DEF table, manager, bounds
<1>a. Only \in Thread /\ Adder \subseteq Thread /\ Only \notin Adder
  BY OnlyThread
<1>b. DOMAIN check = Thread
  BY DEF TypeOK
<1>1. ASSUME NEW a \in Addr, NEW f \in Field, ChainChanges(a, f) PROVE ReportInv'
  BY <1>1, StillReported DEF ChainChanges
<1>2. ASSUME NEW c \in Adder, NEW a \in Addr, AddRead(c, a) PROVE ReportInv'
  BY <1>2, <1>a, <1>b, StillReported DEF AddRead
<1>3. ASSUME NEW c \in Adder, AddCommit(c) PROVE ReportInv'
  <2> DEFINE n == NewId
             row == [addr |-> check[c].addr, base |-> Blank, checked |-> FALSE]
  <2>1. n \notin Rows /\ watch' = [watch EXCEPT ![n] = row]
    BY <1>3, NewIdIsFree DEF AddCommit
  <2>2. check'[Only] = check[Only] /\ UNCHANGED event
    BY <1>3, <1>a, <1>b DEF AddCommit
  <2>3. DOMAIN watch = Id
    BY DEF TypeOK
  <2>4. row.base = Blank
    OBVIOUS
  <2> HIDE DEF n, row
  <2>5. \A w \in Rows : w \in Rows' /\ watch'[w] = watch[w]
    BY <2>1 DEF Rows
  <2>6. \A w \in Rows' : w \in Rows \/ watch'[w] = row
    BY <2>1, <2>3 DEF Rows
  <2>7. RowInv'
    BY <2>4, <2>5, <2>6 DEF ReportInv, RowInv
  <2>8. ASSUME check[Only].pc \in InFlight PROVE CheckInv(check[Only])'
    <3>1. CheckInv(check[Only])
      BY <1>a, <2>8 DEF ReportInv
    <3>2. \A f \in {"impl", "admin"} : row.base[f] = "none"
      BY <2>4 DEF Blank, Field
    <3>3. QED
      BY <2>2, <2>5, <2>6, <3>1, <3>2 DEF CheckInv
  <2>9. QED
    BY <1>a, <2>2, <2>7, <2>8 DEF ReportInv
<1>4. ASSUME NEW w \in Id, DeleteWatch(w) PROVE ReportInv'
  <2>1. /\ w \in Rows /\ watch' = [watch EXCEPT ![w] = NoRow]
        /\ event' = {e \in event : e.watch # w} /\ UNCHANGED check
    BY <1>4 DEF DeleteWatch
  <2>2. \A v \in Rows' : v \in Rows /\ v # w /\ watch'[v] = watch[v]
    BY <2>1 DEF Rows, TypeOK
  <2>3. RowInv'
    BY <2>2 DEF ReportInv, RowInv
  <2>4. ASSUME check[Only].pc \in InFlight PROVE CheckInv(check[Only])'
    <3>1. CheckInv(check[Only])
      BY <1>a, <2>4 DEF ReportInv
    <3>2. QED
      BY <2>1, <2>2, <3>1 DEF CheckInv
  <2>5. QED
    BY <1>a, <2>1, <2>3, <2>4 DEF ReportInv
<1>5. ASSUME RpcDown(Only) PROVE ReportInv'
  <2>1. check[Only] \in Begun
    BY <1>5, <1>a, AtType DEF RpcDown
  <2>2. check'[Only].pc = "return"
    BY <1>5, <1>a, <1>b, <2>1 DEF RpcDown, Begun
  <2>3. QED
    BY <1>5, <2>2, StillReported DEF RpcDown, InFlight
<1>6. ASSUME ReadCode(Only) PROVE ReportInv'
  <2>1. check[Only] \in Begun /\ check[Only].pc \in InFlight
    BY <1>6, <1>a, AtType DEF ReadCode, InFlight
  <2>2. PICK v : check' = [check EXCEPT ![Only].pc = "proxy", ![Only].obs.code = v]
    BY <1>6 DEF ReadCode
  <2>3. /\ check'[Only].pc = "proxy" /\ check'[Only].watch = check[Only].watch
        /\ check'[Only].first = check[Only].first
        /\ check'[Only].prev = check[Only].prev
    BY <1>a, <1>b, <2>1, <2>2 DEF Begun
  <2>4. CheckInv(check[Only])
    BY <1>a, <2>1 DEF ReportInv
  <2>5. CheckInv(check[Only])'
    BY <1>6, <2>3, <2>4 DEF ReadCode, CheckInv, Rows
  <2>6. QED
    BY <1>6, <1>a, <2>5 DEF ReadCode, ReportInv, RowInv, Rows
<1>7. ASSUME ReadProxy(Only) PROVE ReportInv'
  <2>1. check[Only] \in Begun /\ check[Only].pc \in InFlight
    BY <1>7, <1>a, AtType DEF ReadProxy, InFlight
  <2> DEFINE k == check[Only]
             m == check'[Only]
  <2>2. /\ m.watch = k.watch /\ m.first = k.first /\ m.prev = k.prev
        /\ m.todo = Moved(k, m.obs)
    <3>1. PICK i, a : LET obs  == [k.obs EXCEPT !.impl = i, !.admin = a]
                          todo == Moved(k, obs)
                      IN  check' = [check EXCEPT ![Only] = [k EXCEPT !.obs = obs,
                              !.todo = todo,
                              !.pc = IF CallsForScan(todo) THEN "scan" ELSE "report"]]
      BY <1>7 DEF ReadProxy
    <3> DEFINE obs == [k.obs EXCEPT !.impl = i, !.admin = a]
    <3>2. m = [k EXCEPT !.obs = obs, !.todo = Moved(k, obs),
                        !.pc = IF CallsForScan(Moved(k, obs)) THEN "scan" ELSE "report"]
      BY <3>1, <1>a, <1>b
    <3> HIDE DEF obs
    <3>3. QED
      BY <2>1, <3>2 DEF Begun
  <2>3. CheckInv(k)
    BY <1>a, <2>1 DEF ReportInv
  <2>4. UNCHANGED <<watch, event>>
    BY <1>7 DEF ReadProxy
  <2>5. ASSUME NEW f \in {"impl", "admin"}, m.watch \in Rows,
               watch[m.watch].base[f] # "none",
               m.obs[f] \notin {"none", watch[m.watch].base[f]}
        PROVE  f \in m.todo
    <3>1. k.prev[f] = watch[m.watch].base[f] /\ k.prev[f] # "none"
      BY <2>2, <2>3, <2>5 DEF CheckInv
    <3>2. ~k.first
      BY <2>3, <3>1 DEF CheckInv, Blank, Field
    <3>3. f \in Field /\ f # "code"
      BY DEF Field
    <3>4. QED
      BY <2>2, <2>5, <3>1, <3>2, <3>3 DEF Moved
  <2>6. CheckInv(k)'
    BY <2>2, <2>3, <2>4, <2>5 DEF CheckInv, Rows
  <2>7. QED
    BY <1>a, <2>4, <2>6 DEF ReportInv, RowInv, Rows
<1>8. ASSUME InsertScan(Only) PROVE ReportInv'
  <2>1. check[Only] \in Begun
    BY <1>8, <1>a, AtType DEF InsertScan
  <2>2. QED
    BY <1>8, <1>a, <1>b, <2>1, SameCheck DEF InsertScan, Begun
<1>9. ASSUME InsertTarget(Only) PROVE ReportInv'
  <2>1. check[Only] \in Begun
    BY <1>9, <1>a, AtType DEF InsertTarget
  <2>2. QED
    BY <1>9, <1>a, <1>b, <2>1, SameCheck DEF InsertTarget, Begun
<1>10. ASSUME NEW f \in Field, ReportEvent(Only, f) PROVE ReportInv'
  <2> DEFINE k == check[Only]
             m == check'[Only]
             e == [watch |-> k.watch, field |-> f, old |-> k.prev[f],
                   new |-> k.obs[f], scan |-> k.scan]
  <2>1. k \in Begun /\ k.pc = "report"
    BY <1>10, <1>a, AtType DEF ReportEvent
  <2>2. /\ m.watch = k.watch /\ m.first = k.first /\ m.prev = k.prev /\ m.obs = k.obs
        /\ m.todo = k.todo \ {f} /\ m.pc = "report"
    BY <1>10, <1>a, <1>b, <2>1 DEF ReportEvent, Begun
  <2>3. UNCHANGED watch /\ event' = event \cup {e}
    BY <1>10 DEF ReportEvent
  <2>4. e.watch = k.watch /\ e.field = f /\ e.old = k.prev[f] /\ e.new = k.obs[f]
    OBVIOUS
  <2>5. CheckInv(k)
    BY <1>a, <2>1 DEF ReportInv, InFlight
  <2> HIDE DEF e
  <2>6. CheckInv(k)'
    BY <2>1, <2>2, <2>3, <2>4, <2>5 DEF CheckInv, Rows
  <2>7. QED
    BY <1>a, <2>3, <2>6 DEF ReportInv, RowInv, Rows
<1>11. ASSUME SaveBaseline(Only) PROVE ReportInv'
  <2>1. check[Only] \in Begun
    BY <1>11, <1>a, AtType DEF SaveBaseline
  <2>2. check'[Only].pc = "return"
    BY <1>11, <1>a, <1>b, <2>1 DEF SaveBaseline, Begun
  <2>3. RowInv'
    <3>1. CASE check[Only].watch \notin Rows
      BY <1>11, <3>1 DEF SaveBaseline, ReportInv, RowInv, Rows
    <3>2. CASE check[Only].watch \in Rows
      <4> DEFINE w == check[Only].watch
      <4>1. watch[w] \in [addr : Addr, base : State, checked : BOOLEAN] /\ w \in Id
        BY <3>2, RowType
      <4>2. /\ watch'[w].checked = TRUE
            /\ \A v \in Id \ {w} : watch'[v] = watch[v]
        BY <1>11, <3>2, <4>1 DEF SaveBaseline, TypeOK
      <4>3. QED
        BY <4>2 DEF ReportInv, RowInv, Rows
    <3>3. QED
      BY <3>1, <3>2
  <2>4. QED
    BY <1>a, <2>2, <2>3 DEF ReportInv, InFlight
<1>12. ASSUME StartScan(Only) \/ CheckRaises(Only) PROVE ReportInv'
  <2>1. check'[Only] = Idle /\ UNCHANGED <<watch, event>>
    BY <1>12, <1>a, <1>b DEF StartScan, CheckRaises
  <2>2. QED
    BY <2>1, StillReported DEF Idle, InFlight
<1>13. ASSUME LoopWakes \/ LoopSleeps \/ MonitorStart \/ MonitorStop \/ Restart PROVE ReportInv'
  BY <1>13, StillReported DEF LoopWakes, LoopSleeps, MonitorStart, MonitorStop, Restart
<1>14. ASSUME NEW w \in Id, Begins(w) PROVE ReportInv'
  <2>1. UNCHANGED <<watch, event>>
    BY <1>14 DEF Begins
  <2>2. CASE w \notin Rows
    <3>1. check'[Only] = Idle
      BY <1>14, <1>a, <1>b, <2>2 DEF Begins
    <3>2. QED
      BY <2>1, <3>1, StillReported DEF Idle, InFlight
  <2>3. CASE w \in Rows
    <3> DEFINE m == check'[Only]
    <3>1. m = Reading(w)
      BY <1>14, <1>a, <1>b, <2>3 DEF Begins
    <3>2. /\ m.pc = "code" /\ m.watch = w /\ m.prev = watch[w].base
          /\ m.first = ~watch[w].checked
      BY <3>1 DEF Reading
    <3>3. m.first => m.prev = Blank
      BY <2>3, <3>2 DEF ReportInv, RowInv
    <3>4. CheckInv(check[Only])'
      BY <2>1, <3>2, <3>3 DEF CheckInv, Rows
    <3>5. QED
      BY <1>a, <2>1, <3>4 DEF ReportInv, RowInv, Rows
  <2>4. QED
    BY <2>2, <2>3
<1>15. ASSUME Crash PROVE ReportInv'
  BY <1>15, <1>a, StillReported DEF Crash, Idle, InFlight
<1>16. CASE UNCHANGED vars
  BY <1>16, StillReported DEF vars
<1>17. QED
  BY <1>a, <1>1, <1>2, <1>3, <1>4, <1>5, <1>6, <1>7, <1>8, <1>9, <1>10, <1>11, <1>12, <1>13,
     <1>14, <1>15, <1>16, OnlyNext
  DEF CheckStep

\* The invariant: a move that the check has seen is recorded or is
\* about to be, as long as the row's baseline is the one the check began with.
THEOREM Invariance ==
    ASSUME OneChecks
    PROVE  Spec => []IInv
<1>1. Init => ReportInv
  BY OnlyThread DEF Init, ReportInv, RowInv, Rows, InFlight, Idle
<1>2. IInv /\ [Next]_vars => IInv'
  BY ReportNext, TypeNext, NoLoopNext DEF IInv
<1>3. Init => IInv
  BY <1>1, TypeInit, NoLoopInit DEF IInv
<1>4. QED
  BY <1>2, <1>3, PTL DEF Spec

\* A baseline never moves from a known implementation or admin to another one
\* before the move is recorded as an event of the row, when one
\* thread checks.
THEOREM ReportedCorrect ==
    ASSUME OneChecks
    PROVE  Spec => BaselineIsReported
<1> DEFINE Reported ==
      \A w \in Rows : \A f \in {"impl", "admin"} :
        LET x == watch[w].base[f]
            y == watch'[w].base[f]
        IN  x # "none" /\ y # x /\ watch'[w].addr = watch[w].addr =>
              \E e \in event : e.watch = w /\ e.field = f /\ e.old = x /\ e.new = y
<1>1. IInv /\ [Next]_vars => [Reported]_vars
  <2> SUFFICES ASSUME TypeOK, NoLoopInv, ReportInv, Next PROVE Reported
    BY DEF IInv
  <2> USE DEF table, manager, bounds
  <2>a. Only \in Thread
    BY OnlyThread
  <2>1. ASSUME UNCHANGED watch PROVE Reported
    BY <2>1
  <2>2. ASSUME NEW c \in Adder, AddCommit(c) PROVE Reported
    <3>1. \A w \in Rows : watch'[w] = watch[w]
      BY <2>2, NewIdIsFree DEF AddCommit
    <3>2. QED
      BY <3>1
  <2>3. ASSUME NEW w \in Id, DeleteWatch(w) PROVE Reported
    <3>1. watch'[w].addr = "none" /\ watch[w].addr # "none" /\ w \in Rows
      BY <2>3, RowType, MonitorAssumption DEF DeleteWatch, NoRow, TypeOK
    <3>2. \A v \in Rows \ {w} : watch'[v] = watch[v]
      BY <2>3 DEF DeleteWatch, Rows
    <3>3. QED
      BY <3>1, <3>2
  <2>4. ASSUME SaveBaseline(Only) PROVE Reported
    <3> DEFINE k == check[Only]
    <3>1. k.pc = "report" /\ k.todo = {} /\ CheckInv(k)
      BY <2>4, <2>a DEF SaveBaseline, ReportInv, InFlight
    <3>2. CASE k.watch \notin Rows
      BY <2>4, <3>2 DEF SaveBaseline
    <3>3. CASE k.watch \in Rows
      <4>1. watch[k.watch] \in [addr : Addr, base : State, checked : BOOLEAN] /\ k.watch \in Id
        BY <3>3, RowType
      <4>2. /\ watch'[k.watch].base = NewBaseline(watch[k.watch].base, k.obs)
            /\ \A v \in Id \ {k.watch} : watch'[v] = watch[v]
        BY <2>4, <3>3, <4>1 DEF SaveBaseline, TypeOK
      <4>3. ASSUME NEW f \in {"impl", "admin"}, watch[k.watch].base[f] # "none",
                   watch'[k.watch].base[f] # watch[k.watch].base[f]
            PROVE  \E e \in event : /\ e.watch = k.watch /\ e.field = f
                                     /\ e.old = watch[k.watch].base[f]
                                     /\ e.new = watch'[k.watch].base[f]
        <5>1. /\ watch'[k.watch].base[f] = k.obs[f]
              /\ k.obs[f] \notin {"none", watch[k.watch].base[f]}
          BY <4>2, <4>3 DEF NewBaseline, Field
        <5>2. QED
          BY <3>1, <3>3, <4>3, <5>1 DEF CheckInv
      <4>4. QED
        BY <4>2, <4>3 DEF Rows
    <3>4. QED
      BY <3>2, <3>3
  <2>5. \/ UNCHANGED watch \/ SaveBaseline(Only)
        \/ \E c \in Adder : AddCommit(c)
        \/ \E w \in Id : DeleteWatch(w)
    BY OnlyNext DEF CheckStep, ChainChanges, AddRead, RpcDown, ReadCode,
       ReadProxy, InsertScan, InsertTarget, ReportEvent, StartScan, CheckRaises, LoopWakes,
       LoopSleeps, Begins, MonitorStart, MonitorStop, Crash, Restart
  <2>6. QED
    BY <2>1, <2>2, <2>3, <2>4, <2>5
<1>2. QED
  BY <1>1, Invariance, PTL DEF Spec, BaselineIsReported

----------------------------------------------------------------------------
(* Rescans are few, when one thread checks.                                *)

(* Facts about cardinalities.                                              *)

LEMMA AdderCount == Cardinality(Adder) \in Nat
BY MonitorAssumption, FS_CardinalityType

LEMMA Smaller ==
    ASSUME NEW S, NEW T, IsFiniteSet(S), T \subseteq S
    PROVE  /\ IsFiniteSet(T) /\ Cardinality(S) \in Nat /\ Cardinality(T) \in Nat
           /\ Cardinality(T) <= Cardinality(S)
BY FS_Subset, FS_CardinalityType

LEMMA AtMostBoth ==
    ASSUME NEW S, NEW T, NEW X, IsFiniteSet(S), IsFiniteSet(X), T \subseteq S \cup X
    PROVE  /\ Cardinality(S) \in Nat /\ Cardinality(X) \in Nat /\ Cardinality(T) \in Nat
           /\ Cardinality(T) <= Cardinality(S) + Cardinality(X)
<1>1. IsFiniteSet(S \cup X) /\ IsFiniteSet(S \cap X)
      /\ Cardinality(S \cup X) = Cardinality(S) + Cardinality(X) - Cardinality(S \cap X)
  BY FS_Union, FS_Intersection
<1>2. IsFiniteSet(T) /\ Cardinality(T) <= Cardinality(S \cup X)
  BY <1>1, FS_Subset
<1>3. /\ Cardinality(S) \in Nat /\ Cardinality(X) \in Nat /\ Cardinality(T) \in Nat
      /\ Cardinality(S \cap X) \in Nat
  BY <1>1, <1>2, FS_CardinalityType
<1>4. QED
  BY <1>1, <1>2, <1>3

\* Two disjoint parts of a set.
LEMMA DisjointParts ==
    ASSUME NEW S, NEW T, NEW X, IsFiniteSet(S), T \subseteq S, X \subseteq S, T \cap X = {}
    PROVE  /\ Cardinality(S) \in Nat /\ Cardinality(X) \in Nat /\ Cardinality(T) \in Nat
           /\ Cardinality(T) + Cardinality(X) <= Cardinality(S)
<1>1. IsFiniteSet(T) /\ IsFiniteSet(X)
  BY FS_Subset
<1>2. IsFiniteSet(T \cup X) /\ Cardinality(T \cup X) = Cardinality(T) + Cardinality(X) - 0
  BY <1>1, FS_Union, FS_EmptySet
<1>3. Cardinality(T \cup X) <= Cardinality(S) /\ Cardinality(S) \in Nat
  BY FS_Subset, FS_CardinalityType
<1>4. Cardinality(T) \in Nat /\ Cardinality(X) \in Nat
  BY <1>1, FS_CardinalityType
<1>5. QED
  BY <1>2, <1>3, <1>4

LEMMA NonEmpty ==
    ASSUME NEW S, IsFiniteSet(S), S # {}
    PROVE  Cardinality(S) \in Nat /\ Cardinality(S) >= 1
BY FS_EmptySet, FS_CardinalityType

LEMMA TriggerCount ==
    ASSUME NEW F, F \subseteq Trigger
    PROVE  IsFiniteSet(F) /\ Cardinality(F) \in Nat /\ Cardinality(F) <= 2
<1>1. IsFiniteSet({"impl"}) /\ Cardinality({"impl"}) = 1
  BY FS_Singleton
<1>2. IsFiniteSet({"impl"} \cup {"code"}) /\ Cardinality({"impl"} \cup {"code"}) = 2
  BY <1>1, FS_AddElement
<1>3. Trigger = {"impl"} \cup {"code"}
  BY DEF Trigger
<1>4. QED
  BY <1>2, <1>3, FS_Subset, FS_CardinalityType

\* The fields F of one row, and one field of the rows G.
LEMMA FieldsOfRow ==
    ASSUME NEW w, NEW F, F \subseteq Trigger
    PROVE  IsFiniteSet({w} \X F) /\ Cardinality({w} \X F) = Cardinality(F)
<1>1. IsFiniteSet({w}) /\ Cardinality({w}) = 1 /\ IsFiniteSet(F) /\ Cardinality(F) \in Nat
  BY FS_Singleton, TriggerCount
<1>2. /\ IsFiniteSet({w} \X F)
      /\ Cardinality({w} \X F) = Cardinality({w}) * Cardinality(F)
  BY <1>1, FS_Product
<1>3. QED
  BY <1>1, <1>2

LEMMA FieldOfRows ==
    ASSUME NEW f, NEW G, IsFiniteSet(G)
    PROVE  IsFiniteSet(G \X {f}) /\ Cardinality(G \X {f}) = Cardinality(G)
<1>1. IsFiniteSet({f}) /\ Cardinality({f}) = 1 /\ Cardinality(G) \in Nat
  BY FS_Singleton, FS_CardinalityType
<1>2. /\ IsFiniteSet(G \X {f})
      /\ Cardinality(G \X {f}) = Cardinality(G) * Cardinality({f})
  BY <1>1, FS_Product
<1>3. QED
  BY <1>1, <1>2

\* The rows, and what is unseen, are finitely many.
LEMMA RowsFinite == IsFiniteSet(Rows)
<1>1. Rows \subseteq 1..MaxWatch /\ IsFiniteSet(1..MaxWatch)
  BY MonitorAssumption, FS_Interval DEF Rows, Id
<1>2. QED
  BY <1>1, FS_Subset

LEMMA UnseenFinite ==
    ASSUME NEW k
    PROVE  IsFiniteSet(Unseen(k)) /\ Cardinality(Unseen(k)) \in Nat
<1>1. IsFiniteSet(Rows \X Trigger)
  BY RowsFinite, TriggerCount, FS_Product
<1>2. Unseen(k) \subseteq Rows \X Trigger
  BY DEF Unseen
<1>3. QED
  BY <1>1, <1>2, FS_Subset, FS_CardinalityType

LEMMA CopiesFinite ==
    ASSUME NEW a
    PROVE  /\ IsFiniteSet(Copies(a)) /\ Cardinality(Copies(a)) \in Nat
           /\ IsFiniteSet(Adding(a)) /\ Cardinality(Adding(a)) \in Nat
           /\ Cardinality(Adding(a)) <= Cardinality(Adder)
<1>1. Copies(a) \subseteq Rows /\ Adding(a) \subseteq Adder
  BY DEF Copies, Adding
<1>2. QED
  BY <1>1, RowsFinite, MonitorAssumption, Smaller

----------------------------------------------------------------------------
(* No address has more rows than there are threads that add one.           *)

LEMMA CopiesShrink ==
    ASSUME CopiesAreFew,
           \A a \in Addr : Copies(a)' \subseteq Copies(a) /\ Adding(a)' \subseteq Adding(a)
    PROVE  CopiesAreFew'
<1> SUFFICES ASSUME NEW a \in Addr
             PROVE  Cardinality(Copies(a)') + Cardinality(Adding(a)') <= Cardinality(Adder)
  BY DEF CopiesAreFew
<1>1. Cardinality(Copies(a)) + Cardinality(Adding(a)) <= Cardinality(Adder)
  BY DEF CopiesAreFew
<1>2. /\ Cardinality(Copies(a)) \in Nat /\ Cardinality(Copies(a)') \in Nat
      /\ Cardinality(Copies(a)') <= Cardinality(Copies(a))
  BY CopiesFinite, Smaller
<1>3. /\ Cardinality(Adding(a)) \in Nat /\ Cardinality(Adding(a)') \in Nat
      /\ Cardinality(Adding(a)') <= Cardinality(Adding(a))
  BY CopiesFinite, Smaller
<1>4. QED
  BY <1>1, <1>2, <1>3, AdderCount

\* A step of the adders' no concern.
LEMMA CopiesStay ==
    ASSUME CopiesAreFew, UNCHANGED watch, \A d \in Adder : check'[d] = check[d]
    PROVE  CopiesAreFew'
<1>1. \A a \in Addr : Copies(a)' \subseteq Copies(a) /\ Adding(a)' \subseteq Adding(a)
  BY DEF Copies, Adding, Rows
<1>2. QED
  BY <1>1, CopiesShrink

LEMMA CopiesNext == TypeOK /\ CopiesAreFew /\ [Next]_vars => CopiesAreFew'
<1> SUFFICES ASSUME TypeOK, CopiesAreFew, [Next]_vars PROVE CopiesAreFew'
  OBVIOUS
<1> USE DEF table, manager, bounds
<1>a. /\ DOMAIN check = Thread /\ DOMAIN watch = Id /\ Adder \subseteq Thread
      /\ \A c \in Checker : c \notin Adder
  BY MonitorAssumption DEF TypeOK, Thread, Checker
<1>1. ASSUME NEW c \in Adder, NEW a \in Addr, AddRead(c, a) PROVE CopiesAreFew'
  <2>1. \A b \in Addr : Copies(b)' \subseteq Copies(b)
    BY <1>1 DEF AddRead, Copies, Rows
  <2>2. check' = [check EXCEPT ![c] = [pc |-> "add", addr |-> a]]
    BY <1>1 DEF AddRead
  <2>3. \A b \in Addr \ {a} : Adding(b)' \subseteq Adding(b)
    BY <1>a, <2>2 DEF Adding
  <2>4. Copies(a) = {} /\ Copies(a)' = {}
    BY <1>1 DEF AddRead, Copies, Rows
  <2>5. Cardinality(Copies(a)') = 0
    BY <2>4, FS_EmptySet
  <2>6. Cardinality(Adding(a)') \in Nat /\ Cardinality(Adding(a)') <= Cardinality(Adder)
    <3>1. Adding(a)' \subseteq Adder
      BY DEF Adding
    <3>2. QED
      BY <3>1, MonitorAssumption, Smaller
  <2>7. \A b \in Addr \ {a} :
           Cardinality(Copies(b)') + Cardinality(Adding(b)') <= Cardinality(Adder)
    <3> TAKE b \in Addr \ {a}
    <3>1. Cardinality(Copies(b)) + Cardinality(Adding(b)) <= Cardinality(Adder)
      BY DEF CopiesAreFew
    <3>2. /\ Cardinality(Copies(b)) \in Nat /\ Cardinality(Copies(b)') \in Nat
          /\ Cardinality(Copies(b)') <= Cardinality(Copies(b))
      BY <2>1, CopiesFinite, Smaller
    <3>3. /\ Cardinality(Adding(b)) \in Nat /\ Cardinality(Adding(b)') \in Nat
          /\ Cardinality(Adding(b)') <= Cardinality(Adding(b))
      BY <2>3, CopiesFinite, Smaller
    <3>4. QED
      BY <3>1, <3>2, <3>3, AdderCount
  <2>8. QED
    BY <2>5, <2>6, <2>7, AdderCount DEF CopiesAreFew
<1>2. ASSUME NEW c \in Adder, AddCommit(c) PROVE CopiesAreFew'
  <2>1. PICK a \in Addr : check[c] = [pc |-> "add", addr |-> a]
    <3>1. check[c] \in Check /\ check[c].pc = "add"
      BY <1>2, <1>a DEF TypeOK, AddCommit
    <3>2. check[c] \in [pc : {"add"}, addr : Addr]
      BY <3>1 DEF Check, Idle, Begun
    <3>3. QED
      BY <3>2
  <2> DEFINE n == NewId
             row == [addr |-> a, base |-> Blank, checked |-> FALSE]
  <2>2. /\ n \notin Rows /\ watch' = [watch EXCEPT ![n] = row]
        /\ check' = [check EXCEPT ![c] = Idle]
    BY <1>2, <2>1, NewIdIsFree DEF AddCommit
  <2> HIDE DEF n
  <2>3. row.addr = a
    OBVIOUS
  <2> HIDE DEF row
  <2>4. \A v \in Id : v # n => watch'[v] = watch[v]
    BY <1>a, <2>2
  <2>5. n \in Id => watch'[n] = row
    BY <1>a, <2>2
  <2>6. \A b \in Addr \ {a} : Copies(b)' \subseteq Copies(b)
    BY <2>3, <2>4, <2>5 DEF Copies, Rows
  <2>7. Copies(a)' \subseteq Copies(a) \cup {n}
    BY <2>4 DEF Copies, Rows
  <2>8. \A b \in Addr : Adding(b)' \subseteq Adding(b)
    BY <1>a, <2>2 DEF Adding, Idle
  <2>9. c \in Adding(a)
    BY <2>1 DEF Adding
  <2>10. c \notin Adding(a)'
    BY <1>a, <2>2 DEF Adding, Idle
  <2>11. Cardinality(Copies(a)') + Cardinality(Adding(a)') <= Cardinality(Adder)
    <3>1. /\ Cardinality(Copies(a)) \in Nat /\ Cardinality(Copies(a)') \in Nat
          /\ Cardinality(Copies(a)') <= Cardinality(Copies(a)) + Cardinality({n})
      BY <2>7, CopiesFinite, FS_Singleton, AtMostBoth
    <3>2. /\ IsFiniteSet({c}) /\ Cardinality({c}) = 1 /\ Cardinality({n}) = 1
          /\ {c} \subseteq Adding(a) /\ Adding(a)' \cap {c} = {}
      BY <2>9, <2>10, FS_Singleton
    <3>3. /\ Cardinality(Adding(a)) \in Nat /\ Cardinality(Adding(a)') \in Nat
          /\ Cardinality(Adding(a)') + Cardinality({c}) <= Cardinality(Adding(a))
      BY <2>8, <3>2, CopiesFinite, DisjointParts
    <3>4. Cardinality(Copies(a)) + Cardinality(Adding(a)) <= Cardinality(Adder)
      BY DEF CopiesAreFew
    <3>5. QED
      BY <3>1, <3>2, <3>3, <3>4, AdderCount
  <2>12. \A b \in Addr \ {a} :
            Cardinality(Copies(b)') + Cardinality(Adding(b)') <= Cardinality(Adder)
    <3> TAKE b \in Addr \ {a}
    <3>1. Cardinality(Copies(b)) + Cardinality(Adding(b)) <= Cardinality(Adder)
      BY DEF CopiesAreFew
    <3>2. /\ Cardinality(Copies(b)) \in Nat /\ Cardinality(Copies(b)') \in Nat
          /\ Cardinality(Copies(b)') <= Cardinality(Copies(b))
      BY <2>6, CopiesFinite, Smaller
    <3>3. /\ Cardinality(Adding(b)) \in Nat /\ Cardinality(Adding(b)') \in Nat
          /\ Cardinality(Adding(b)') <= Cardinality(Adding(b))
      BY <2>8, CopiesFinite, Smaller
    <3>4. QED
      BY <3>1, <3>2, <3>3, AdderCount
  <2>13. QED
    BY <2>11, <2>12 DEF CopiesAreFew
<1>3. ASSUME NEW w \in Id, DeleteWatch(w) PROVE CopiesAreFew'
  <2>1. w \in Rows /\ watch' = [watch EXCEPT ![w] = NoRow] /\ UNCHANGED check
    BY <1>3 DEF DeleteWatch
  <2>2. \A a \in Addr : Copies(a)' \subseteq Copies(a) /\ Adding(a)' \subseteq Adding(a)
    BY <1>a, <2>1 DEF Copies, Adding, Rows
  <2>3. QED
    BY <2>2, CopiesShrink
<1>4. ASSUME NEW c \in Checker, SaveBaseline(c) PROVE CopiesAreFew'
  <2>1. \A d \in Adder : check'[d] = check[d]
    BY <1>4, <1>a DEF SaveBaseline
  <2>2. \A a \in Addr : Adding(a)' \subseteq Adding(a)
    BY <2>1 DEF Adding
  <2>3. \A v \in Id : v \in Rows' => v \in Rows /\ watch'[v].addr = watch[v].addr
    <3> DEFINE w == check[c].watch
    <3>1. CASE w \notin Rows
      BY <1>4, <3>1 DEF SaveBaseline, Rows
    <3>2. CASE w \in Rows
      <4>1. watch[w] \in [addr : Addr, base : State, checked : BOOLEAN] /\ w \in Id
        BY <3>2, RowType
      <4>2. /\ watch'[w].addr = watch[w].addr
            /\ \A v \in Id \ {w} : watch'[v] = watch[v]
        BY <1>4, <1>a, <3>2, <4>1 DEF SaveBaseline
      <4>3. QED
        BY <3>2, <4>2 DEF Rows
    <3>3. QED
      BY <3>1, <3>2
  <2>4. \A a \in Addr : Copies(a)' \subseteq Copies(a)
    BY <2>3 DEF Copies, Rows
  <2>5. QED
    BY <2>2, <2>4, CopiesShrink
<1>5. ASSUME Crash PROVE CopiesAreFew'
  <2>1. \A a \in Addr : Adding(a)' \subseteq Adding(a)
    BY <1>5 DEF Crash, Adding, Idle, Thread
  <2>2. \A a \in Addr : Copies(a)' \subseteq Copies(a)
    BY <1>5 DEF Crash, Copies, Rows
  <2>3. QED
    BY <2>1, <2>2, CopiesShrink
<1>6. ASSUME NEW c \in Checker,
             \/ RpcDown(c) \/ ReadCode(c) \/ InsertScan(c)
             \/ InsertTarget(c) \/ StartScan(c) \/ CheckRaises(c)
      PROVE  CopiesAreFew'
  BY <1>6, <1>a, CopiesStay
  DEF RpcDown, ReadCode, InsertScan, InsertTarget, StartScan, CheckRaises
<1>7. ASSUME NEW c \in Checker, NEW f \in Field, ReportEvent(c, f) PROVE CopiesAreFew'
  BY <1>7, <1>a, CopiesStay DEF ReportEvent
<1>8. ASSUME NEW c \in Checker, ReadProxy(c) PROVE CopiesAreFew'
  BY <1>8, <1>a, CopiesStay DEF ReadProxy
<1>9. ASSUME NEW w \in Id, \/ LoopChecks(w) \/ \E c \in Caller : CallerChecks(c, w)
      PROVE  CopiesAreFew'
  BY <1>9, <1>a, CopiesStay DEF LoopChecks, CallerChecks, Checker
<1>10. ASSUME \/ LoopWakes \/ LoopSleeps \/ MonitorStart \/ MonitorStop \/ Restart
              \/ \E a \in Addr, f \in Field : ChainChanges(a, f)
       PROVE  CopiesAreFew'
  BY <1>10, CopiesStay
  DEF LoopWakes, LoopSleeps, MonitorStart, MonitorStop, Restart, ChainChanges
<1>11. CASE UNCHANGED vars
  BY <1>11, CopiesStay DEF vars
<1>12. QED
  BY <1>1, <1>2, <1>3, <1>4, <1>5, <1>6, <1>7, <1>8, <1>9, <1>10, <1>11
  DEF Next, User, Fault, CheckStep

(* What the steps of the check do to it.                                   *)

\* A step after which the check goes on, with the row it has read.
GoesOn(k, m) ==
    /\ k \in Begun /\ m \in Begun /\ k.pc \in InFlight /\ m.pc \in InFlight
    /\ m.watch = k.watch /\ m.addr = k.addr /\ m.prev = k.prev

\* A step reads the field f, if it is one that calls for a rescan.
Reads(k, m, f) ==
    /\ m.scan = k.scan
    /\ m.obs[f] \in {"none", chain[k.addr][f]}
    /\ \A g \in Trigger \ {f} : m.obs[g] = k.obs[g]

LEMMA ReadCodeStep ==
    ASSUME TypeOK, ReadCode(Only)
    PROVE  LET k == check[Only]
               m == check'[Only]
           IN  /\ GoesOn(k, m) /\ Reads(k, m, "code")
               /\ k.pc = "code" /\ m.pc = "proxy" /\ m.obs.impl = k.obs.impl
<1> DEFINE k == check[Only]
           m == check'[Only]
<1>a. Only \in Thread /\ DOMAIN check = Thread /\ check \in [Thread -> Check]
  BY OnlyThread DEF TypeOK
<1>1. k \in Begun /\ k.pc = "code"
  BY <1>a, AtType DEF ReadCode
<1>2. PICK v \in {"none", chain[k.addr].code} :
         check' = [check EXCEPT ![Only].pc = "proxy", ![Only].obs.code = v]
  BY DEF ReadCode
<1>3. v \in Seen
  BY <1>1 DEF TypeOK, State, Seen, Begun, Field
<1>4. m = [k EXCEPT !.pc = "proxy", !.obs = [k.obs EXCEPT !.code = v]]
  BY <1>a, <1>2
<1> DEFINE o == [k.obs EXCEPT !.code = v]
<1>5. k.obs \in State
  BY <1>1 DEF Begun
<1>6. o \in State /\ o.code = v /\ o.impl = k.obs.impl
  BY <1>3, <1>5 DEF State, Field
<1> HIDE DEF o
<1>7. m = [k EXCEPT !.pc = "proxy", !.obs = o]
  BY <1>4 DEF o
<1>8. /\ m \in Begun /\ m.pc = "proxy" /\ m.obs = o /\ m.watch = k.watch /\ m.addr = k.addr
      /\ m.prev = k.prev /\ m.scan = k.scan
  BY <1>1, <1>6, <1>7 DEF Begun
<1>9. QED
  BY <1>1, <1>2, <1>6, <1>8 DEF GoesOn, Reads, Trigger, InFlight

LEMMA ReadProxyStep ==
    ASSUME TypeOK, ReadProxy(Only)
    PROVE  LET k == check[Only]
               m == check'[Only]
           IN  /\ GoesOn(k, m) /\ Reads(k, m, "impl")
               /\ k.pc = "proxy" /\ m.pc \in {"scan", "report"}
               /\ m.pc = "scan" => Found(m) # {}
<1> DEFINE k == check[Only]
           m == check'[Only]
<1>a. Only \in Thread /\ DOMAIN check = Thread /\ check \in [Thread -> Check]
  BY OnlyThread DEF TypeOK
<1>1. k \in Begun /\ k.pc = "proxy"
  BY <1>a, AtType DEF ReadProxy
<1>2. PICK i \in {"none", chain[k.addr].impl}, a \in {"none", chain[k.addr].admin} :
         LET obs  == [k.obs EXCEPT !.impl = i, !.admin = a]
             todo == Moved(k, obs)
         IN  check' = [check EXCEPT ![Only] = [k EXCEPT !.obs = obs, !.todo = todo,
                           !.pc = IF CallsForScan(todo) THEN "scan" ELSE "report"]]
  BY DEF ReadProxy
<1>3. i \in Seen /\ a \in Seen
  BY <1>1 DEF TypeOK, State, Seen, Begun, Field
<1> DEFINE o == [k.obs EXCEPT !.impl = i, !.admin = a]
           t == Moved(k, o)
           p == IF CallsForScan(t) THEN "scan" ELSE "report"
<1>4. m = [k EXCEPT !.obs = o, !.todo = t, !.pc = p]
  BY <1>a, <1>2
<1>5. k.obs \in State
  BY <1>1 DEF Begun
<1>6. o \in State /\ o.impl = i /\ o.code = k.obs.code
  BY <1>3, <1>5 DEF State, Field
<1>7. t \subseteq Field
  BY DEF Moved
<1>8. p \in {"scan", "report"} /\ (p = "scan" => t \cap {"impl", "code"} # {})
  BY DEF CallsForScan
<1>9. \A f \in t : k.prev[f] # "none" /\ o[f] \notin {"none", k.prev[f]}
  BY DEF Moved
<1> HIDE DEF o, t, p
<1>10. /\ m \in Begun /\ m.pc = p /\ m.obs = o /\ m.watch = k.watch /\ m.addr = k.addr
       /\ m.prev = k.prev /\ m.scan = k.scan
  BY <1>1, <1>4, <1>6, <1>7, <1>8 DEF Begun
<1>11. m.pc = "scan" => Found(m) # {}
  BY <1>8, <1>9, <1>10 DEF Found, Trigger
<1>12. QED
  BY <1>1, <1>2, <1>6, <1>8, <1>10, <1>11 DEF GoesOn, Reads, Trigger, InFlight

LEMMA InsertScanStep ==
    ASSUME TypeOK, InsertScan(Only)
    PROVE  LET k == check[Only]
               m == check'[Only]
           IN  /\ GoesOn(k, m) /\ m.obs = k.obs
               /\ k.pc = "scan" /\ m.pc = "target"
               /\ Len(scan) \in Nat /\ Len(scan') = Len(scan) + 1 /\ m.scan = Len(scan) + 1
<1> DEFINE k == check[Only]
           m == check'[Only]
<1>a. Only \in Thread /\ DOMAIN check = Thread
  BY OnlyThread DEF TypeOK
<1>1. k \in Begun /\ k.pc = "scan"
  BY <1>a, AtType DEF InsertScan
<1> DEFINE row == [addr |-> k.addr, saw |-> k.obs, state |-> "bare"]
<1>2. /\ scan' = Append(scan, row)
      /\ check' = [check EXCEPT ![Only].pc = "target", ![Only].scan = Len(scan')]
  BY DEF InsertScan
<1>3. scan \in Seq(ScanRow)
  BY DEF TypeOK
<1>4. row \in ScanRow
  BY <1>1 DEF ScanRow, Begun
<1> HIDE DEF row
<1>5. Len(scan) \in Nat /\ Len(scan') = Len(scan) + 1
  BY <1>2, <1>3, <1>4
<1> DEFINE n == Len(scan')
<1>6. m = [k EXCEPT !.pc = "target", !.scan = n] /\ n \in Nat
  BY <1>a, <1>2, <1>5
<1> HIDE DEF n
<1>7. /\ m \in Begun /\ m.pc = "target" /\ m.obs = k.obs /\ m.watch = k.watch /\ m.addr = k.addr
      /\ m.prev = k.prev /\ m.scan = n
  BY <1>1, <1>6 DEF Begun
<1>8. QED
  BY <1>1, <1>5, <1>7 DEF GoesOn, InFlight, n

LEMMA ReportStep ==
    ASSUME TypeOK, InsertTarget(Only) \/ \E f \in Field : ReportEvent(Only, f)
    PROVE  LET k == check[Only]
               m == check'[Only]
           IN  /\ GoesOn(k, m) /\ m.obs = k.obs /\ m.scan = k.scan
               /\ k.pc \in {"target", "report"} /\ m.pc = "report"
               /\ Len(scan') = Len(scan)
<1> DEFINE k == check[Only]
           m == check'[Only]
<1>a. Only \in Thread /\ DOMAIN check = Thread
  BY OnlyThread DEF TypeOK
<1>1. k \in Begun /\ k.pc \in {"target", "report"}
  BY <1>a, AtType DEF InsertTarget, ReportEvent
<1>2. Len(scan') = Len(scan)
  <2>1. CASE InsertTarget(Only)
    BY <2>1, ScanMoves DEF InsertTarget
  <2>2. CASE \E f \in Field : ReportEvent(Only, f)
    BY <2>2 DEF ReportEvent
  <2>3. QED
    BY <2>1, <2>2
<1>3. CASE InsertTarget(Only)
  <2>1. m = [k EXCEPT !.pc = "report"]
    BY <1>a, <1>3 DEF InsertTarget
  <2>2. QED
    BY <1>1, <1>2, <2>1 DEF GoesOn, InFlight, Begun
<1>4. ASSUME NEW f \in Field, ReportEvent(Only, f)
      PROVE  m = [k EXCEPT !.todo = k.todo \ {f}] /\ k.pc = "report"
  BY <1>a, <1>4 DEF ReportEvent
<1>5. CASE \E f \in Field : ReportEvent(Only, f)
  <2>1. PICK f \in Field : m = [k EXCEPT !.todo = k.todo \ {f}] /\ k.pc = "report"
    BY <1>4, <1>5
  <2>2. QED
    BY <1>1, <1>2, <2>1 DEF GoesOn, InFlight, Begun
<1>6. QED
  BY <1>3, <1>5

----------------------------------------------------------------------------
(* What a check in flight keeps.                                           *)

FlightOK == check[Only].pc \in InFlight => FlightInv(check[Only])

\* The other rows of the address stay as few as they were.
LEMMA OthersStay ==
    ASSUME NEW k, NEW S, S \subseteq Others(k), Cardinality(Others(k)) < Cardinality(Adder)
    PROVE  Cardinality(S) < Cardinality(Adder)
<1>1. Others(k) \subseteq Rows
  BY DEF Others
<1>2. IsFiniteSet(Others(k))
  BY <1>1, RowsFinite, FS_Subset
<1>3. /\ Cardinality(Others(k)) \in Nat /\ Cardinality(S) \in Nat
      /\ Cardinality(S) <= Cardinality(Others(k))
  BY <1>2, Smaller
<1>4. QED
  BY <1>3, AdderCount

\* A step that leaves the check alone and gives no row a baseline.
LEMMA FlightStays ==
    ASSUME FlightOK, check'[Only] = check[Only],
           \A w \in Rows' : watch'[w].base = Blank \/ (w \in Rows /\ watch'[w] = watch[w])
    PROVE  FlightOK'
<1> SUFFICES ASSUME check[Only].pc \in InFlight PROVE FlightInv(check[Only])'
  BY DEF FlightOK
<1>1. FlightInv(check[Only])
  BY DEF FlightOK
<1>2. Others(check[Only])' \subseteq Others(check[Only])
  BY DEF Others
<1>3. Cardinality(Others(check[Only])') < Cardinality(Adder)
  BY <1>1, <1>2, OthersStay DEF FlightInv
<1>4. Found(check[Only])' = Found(check[Only])
  BY DEF Found
<1>5. QED
  BY <1>1, <1>3, <1>4 DEF FlightInv

LEMMA FlightEnds ==
    ASSUME check'[Only].pc \notin InFlight PROVE FlightOK'
BY DEF FlightOK

\* A step after which the check goes on.
LEMMA FlightGoesOn ==
    ASSUME FlightOK, GoesOn(check[Only], check'[Only]), UNCHANGED watch,
           check'[Only].pc # "code",
           check'[Only].pc = "proxy" => check'[Only].obs.impl = "none",
           check'[Only].pc \in {"code", "proxy", "scan"} => check'[Only].scan = 0,
           check'[Only].pc = "scan" \/ check'[Only].scan # 0 => Found(check'[Only]) # {}
    PROVE  FlightOK'
<1>1. FlightInv(check[Only])
  BY DEF FlightOK, GoesOn
<1>2. Others(check[Only])' \subseteq Others(check[Only])
  BY DEF Others, Rows, GoesOn
<1>3. Cardinality(Others(check[Only])') < Cardinality(Adder)
  BY <1>1, <1>2, OthersStay DEF FlightInv
<1>4. Found(check[Only])' = Found(check'[Only])
  BY DEF Found
<1>5. QED
  BY <1>3, <1>4 DEF FlightInv, FlightOK

LEMMA FlightNext ==
    ASSUME OneChecks
    PROVE  TypeOK /\ NoLoopInv /\ CopiesAreFew /\ FlightOK /\ [Next]_vars => FlightOK'
<1> SUFFICES ASSUME TypeOK, NoLoopInv, CopiesAreFew, FlightOK, [Next]_vars PROVE FlightOK'
  OBVIOUS
<1> USE DEF table, manager, bounds
<1> DEFINE k == check[Only]
           m == check'[Only]
<1>a. /\ Only \in Thread /\ Adder \subseteq Thread /\ Only \notin Adder
      /\ DOMAIN check = Thread /\ DOMAIN watch = Id
  BY OnlyThread DEF TypeOK
<1>b. k.pc \in InFlight => FlightInv(k)
  BY DEF FlightOK
<1>1. ASSUME NEW a \in Addr, NEW f \in Field, ChainChanges(a, f) PROVE FlightOK'
  BY <1>1, FlightStays DEF ChainChanges, Rows
<1>2. ASSUME NEW c \in Adder, NEW a \in Addr, AddRead(c, a) PROVE FlightOK'
  BY <1>2, <1>a, FlightStays DEF AddRead, Rows
<1>3. ASSUME NEW c \in Adder, AddCommit(c) PROVE FlightOK'
  <2> DEFINE n == NewId
             row == [addr |-> check[c].addr, base |-> Blank, checked |-> FALSE]
  <2>1. watch' = [watch EXCEPT ![n] = row] /\ m = k /\ row.base = Blank
    BY <1>3, <1>a DEF AddCommit
  <2> HIDE DEF n, row
  <2>2. \A w \in Id : w # n => watch'[w] = watch[w]
    BY <2>1, <1>a
  <2>3. \A w \in Id : w = n => watch'[w].base = Blank
    BY <2>1, <1>a
  <2>4. \A w \in Rows' : watch'[w].base = Blank \/ (w \in Rows /\ watch'[w] = watch[w])
    <3> TAKE w \in Rows'
    <3>1. w \in Id /\ watch'[w] # NoRow
      BY DEF Rows
    <3>2. CASE w = n
      BY <2>3, <3>1, <3>2
    <3>3. CASE w # n
      BY <2>2, <3>1, <3>3 DEF Rows
    <3>4. QED
      BY <3>2, <3>3
  <2>5. QED
    BY <2>1, <2>4, FlightStays
<1>4. ASSUME NEW w \in Id, DeleteWatch(w) PROVE FlightOK'
  <2>1. watch' = [watch EXCEPT ![w] = NoRow] /\ m = k
    BY <1>4 DEF DeleteWatch
  <2>2. \A v \in Rows' : v \in Rows /\ watch'[v] = watch[v]
    BY <2>1, <1>a DEF Rows
  <2>3. QED
    BY <2>1, <2>2, FlightStays
<1>5. ASSUME RpcDown(Only) \/ SaveBaseline(Only) PROVE FlightOK'
  <2>1. k \in Begun
    BY <1>5, <1>a, AtType DEF RpcDown, SaveBaseline
  <2>2. m = [k EXCEPT !.pc = "return"]
    BY <1>5, <1>a DEF RpcDown, SaveBaseline
  <2>3. m.pc = "return"
    BY <2>1, <2>2 DEF Begun
  <2>4. QED
    BY <2>3, FlightEnds DEF InFlight
<1>6. ASSUME ReadCode(Only) PROVE FlightOK'
  <2>1. /\ GoesOn(k, m) /\ Reads(k, m, "code")
        /\ k.pc = "code" /\ m.pc = "proxy" /\ m.obs.impl = k.obs.impl
    BY <1>6, ReadCodeStep
  <2>2. k.scan = 0 /\ k.obs = Blank
    BY <1>b, <2>1 DEF FlightInv, InFlight
  <2>3. UNCHANGED watch
    BY <1>6 DEF ReadCode
  <2>4. k.obs.impl = "none"
    BY <2>2 DEF Blank, Field
  <2>5. QED
    BY <2>1, <2>2, <2>3, <2>4, FlightGoesOn DEF Reads
<1>7. ASSUME ReadProxy(Only) PROVE FlightOK'
  <2>1. /\ GoesOn(k, m) /\ Reads(k, m, "impl") /\ k.pc = "proxy"
        /\ m.pc \in {"scan", "report"} /\ (m.pc = "scan" => Found(m) # {})
    BY <1>7, ReadProxyStep
  <2>2. k.scan = 0 /\ m.scan = 0
    BY <1>b, <2>1 DEF FlightInv, InFlight, Reads
  <2>3. UNCHANGED watch
    BY <1>7 DEF ReadProxy
  <2>4. QED
    BY <2>1, <2>2, <2>3, FlightGoesOn
<1>8. ASSUME \/ InsertScan(Only) \/ InsertTarget(Only)
             \/ \E f \in Field : ReportEvent(Only, f)
      PROVE  FlightOK'
  <2>1. /\ GoesOn(k, m) /\ m.obs = k.obs /\ m.pc \in {"target", "report"}
        /\ k.pc = "scan" \/ m.scan = k.scan
    BY <1>8, InsertScanStep, ReportStep
  <2>2. UNCHANGED watch
    BY <1>8 DEF InsertScan, InsertTarget, ReportEvent
  <2>3. Found(m) = Found(k)
    BY <2>1 DEF Found, GoesOn
  <2>4. m.scan # 0 => Found(m) # {}
    BY <1>b, <2>1, <2>3 DEF FlightInv, GoesOn
  <2>5. QED
    BY <2>1, <2>2, <2>4, FlightGoesOn
<1>9. ASSUME StartScan(Only) \/ CheckRaises(Only) \/ Crash PROVE FlightOK'
  <2>1. m = Idle
    BY <1>9, <1>a DEF StartScan, CheckRaises, Crash
  <2>2. QED
    BY <2>1, FlightEnds DEF Idle, InFlight
<1>10. ASSUME LoopWakes \/ LoopSleeps \/ MonitorStart \/ MonitorStop \/ Restart PROVE FlightOK'
  BY <1>10, FlightStays DEF LoopWakes, LoopSleeps, MonitorStart, MonitorStop, Restart, Rows
<1>11. ASSUME NEW w \in Id, Begins(w) PROVE FlightOK'
  <2>1. UNCHANGED watch
    BY <1>11 DEF Begins
  <2>2. CASE w \notin Rows
    <3>1. m = Idle
      BY <1>11, <1>a, <2>2 DEF Begins
    <3>2. QED
      BY <3>1, FlightEnds DEF Idle, InFlight
  <2>3. CASE w \in Rows
    <3>1. m = Reading(w)
      BY <1>11, <1>a, <2>3 DEF Begins
    <3>2. /\ m.pc = "code" /\ m.watch = w /\ m.addr = watch[w].addr /\ m.obs = Blank
          /\ m.scan = 0
      BY <3>1 DEF Reading
    <3>3. PICK a \in Addr : a = watch[w].addr
      BY <2>3, RowType
    <3>4. w \in Copies(a) /\ Others(m) \subseteq Copies(a) \ {w}
      BY <2>3, <3>2, <3>3 DEF Others, Copies
    <3>5. Others(check[Only])' = Others(m)
      BY <2>1 DEF Others, Rows
    <3>6. /\ {w} \subseteq Copies(a) /\ Others(m) \cap {w} = {} /\ Others(m) \subseteq Copies(a)
          /\ Cardinality({w}) = 1
      BY <3>4, FS_Singleton
    <3>7. /\ Cardinality(Copies(a)) \in Nat /\ Cardinality(Others(m)) \in Nat
          /\ Cardinality(Others(m)) + Cardinality({w}) <= Cardinality(Copies(a))
      BY <3>6, CopiesFinite, DisjointParts
    <3>8. Cardinality(Copies(a)) + Cardinality(Adding(a)) <= Cardinality(Adder)
      BY DEF CopiesAreFew
    <3>9. Cardinality(Adding(a)) \in Nat
      BY CopiesFinite
    <3>10. Cardinality(Others(m)) < Cardinality(Adder)
      BY <3>6, <3>7, <3>8, <3>9, AdderCount
    <3>11. QED
      BY <3>2, <3>5, <3>10 DEF FlightOK, FlightInv
  <2>4. QED
    BY <2>2, <2>3
<1>12. CASE UNCHANGED vars
  BY <1>12, FlightStays DEF vars, Rows
<1>13. QED
  BY <1>a, <1>1, <1>2, <1>3, <1>4, <1>5, <1>6, <1>7, <1>8, <1>9, <1>10, <1>11, <1>12,
     OnlyNext
  DEF CheckStep

(* What is unseen, pair by pair, now and after a step.                     *)

IsUnseen(k, w, f) ==
    /\ k.pc \in InFlight /\ w = k.watch => Undisturbed(k)
    /\ Coming(k, w)[f] \notin {"none", chain[watch[w].addr][f]}

LEMMA UnseenPair ==
    ASSUME NEW k
    PROVE  /\ \A p \in Unseen(k) : \E w \in Rows, f \in Trigger : p = <<w, f>>
           /\ \A w, f : <<w, f>> \in Unseen(k) <=>
                 w \in Rows /\ f \in Trigger /\ IsUnseen(k, w, f)
BY DEF Unseen, IsUnseen

LEMMA UnseenPairNext ==
    /\ \A p \in Unseen(check[Only])' : \E w \in Rows', f \in Trigger : p = <<w, f>>
    /\ \A w \in Rows', f \in Trigger :
          <<w, f>> \in Unseen(check[Only])' => IsUnseen(check[Only], w, f)'
BY DEF Unseen, IsUnseen

\* A step that leaves the chain and the rows alone.
LEMMA SameTables ==
    ASSUME UNCHANGED <<chain, watch>>
    PROVE  /\ Unseen(check[Only])' = Unseen(check'[Only])
           /\ Owed(check[Only])' = Owed(check'[Only])
<1>1. Undisturbed(check[Only])' <=> Undisturbed(check'[Only])
  BY DEF Undisturbed, Rows
<1>2. \A w : Coming(check[Only], w)' = Coming(check'[Only], w)
  BY DEF Coming
<1>3. /\ Found(check[Only])' = Found(check'[Only])
      /\ MayFind(check[Only])' = MayFind(check'[Only])
  BY DEF Found, MayFind
<1>4. Rows' = Rows
  BY DEF Rows
<1>5. Unseen(check[Only])' = Unseen(check'[Only])
  BY <1>1, <1>2, <1>4 DEF Unseen
<1>6. QED
  BY <1>1, <1>3, <1>5 DEF Owed

\* A thread that holds no check.
LEMMA NoFlight ==
    ASSUME NEW k, NEW m, k.pc \notin InFlight, m.pc \notin InFlight
    PROVE  Unseen(k) = Unseen(m) /\ Owed(k) = 0 /\ Owed(m) = 0
BY DEF Unseen, Coming, Owed

Paid(k) == IF k.scan = 0 THEN 0 ELSE 1

LEMMA OwedIs ==
    ASSUME NEW k, k.pc \in InFlight
    PROVE  /\ Cardinality(Found(k)) \in Nat /\ Cardinality(Found(k)) <= 2
           /\ Cardinality(MayFind(k)) \in Nat
           /\ Undisturbed(k) => Owed(k) = Cardinality(Found(k)) - Paid(k)
           /\ ~Undisturbed(k) => Owed(k) = 2 + Cardinality(MayFind(k)) - Paid(k)
           /\ Owed(k) \in Int /\ Paid(k) \in {0, 1}
<1>1. /\ Cardinality(Found(k)) \in Nat /\ Cardinality(MayFind(k)) \in Nat
      /\ Cardinality(Found(k)) <= 2
  BY TriggerCount DEF Found, MayFind
<1>2. Paid(k) \in {0, 1}
  BY DEF Paid
<1>3. QED
  BY <1>1, <1>2 DEF Owed, Paid

LEMMA FoundMayBeFound ==
    ASSUME NEW k
    PROVE  Found(k) \subseteq MayFind(k) /\ Cardinality(Found(k)) <= Cardinality(MayFind(k))
<1>1. Found(k) \subseteq MayFind(k)
  BY DEF Found, MayFind, NewBaseline, Trigger, Field
<1>2. IsFiniteSet(MayFind(k))
  BY TriggerCount DEF MayFind
<1>3. QED
  BY <1>1, <1>2, Smaller

\* What a check owes covers what it has found, or two rescans of another row.
LEMMA OwedCovers ==
    ASSUME NEW k, k.pc \in InFlight, FlightInv(k)
    PROVE  /\ Owed(k) \in Int /\ Owed(k) >= 0
           /\ ~Undisturbed(k) => Owed(k) >= 2
<1>1. k.scan # 0 => Cardinality(Found(k)) >= 1
  <2>1. k.scan # 0 => Found(k) # {}
    BY DEF FlightInv
  <2>2. IsFiniteSet(Found(k))
    BY TriggerCount DEF Found
  <2>3. QED
    BY <2>1, <2>2, NonEmpty
<1>2. Cardinality(Found(k)) \in Nat /\ Cardinality(MayFind(k)) \in Nat
      /\ Cardinality(Found(k)) <= Cardinality(MayFind(k))
  BY OwedIs, FoundMayBeFound
<1>3. Cardinality(Found(k)) >= Paid(k) /\ Paid(k) \in {0, 1}
  BY <1>1, <1>2 DEF Paid
<1>4. QED
  BY <1>2, <1>3, OwedIs

\* Checks of one row that have read the same.
LEMMA Alike ==
    ASSUME NEW k, NEW m, GoesOn(k, m), m.obs = k.obs
    PROVE  /\ Unseen(m) = Unseen(k)
           /\ Owed(m) + Paid(m) = Owed(k) + Paid(k)
           /\ Owed(m) \in Int /\ Owed(k) \in Int /\ Paid(m) \in {0, 1} /\ Paid(k) \in {0, 1}
<1>1. Undisturbed(m) <=> Undisturbed(k)
  BY DEF Undisturbed, GoesOn
<1>2. \A w : Coming(m, w) = Coming(k, w)
  BY DEF Coming, GoesOn
<1>3. Found(m) = Found(k) /\ MayFind(m) = MayFind(k)
  BY DEF Found, MayFind, GoesOn
<1>4. Unseen(m) = Unseen(k)
  BY <1>1, <1>2 DEF Unseen, GoesOn
<1>5. k.pc \in InFlight /\ m.pc \in InFlight
  BY DEF GoesOn
<1>6. QED
  BY <1>1, <1>3, <1>4, <1>5, OwedIs

\* A read moves a field from what is unseen to what the check has found.
LEMMA Observing ==
    ASSUME TypeOK, NEW k, NEW m, NEW f \in Trigger, GoesOn(k, m), Reads(k, m, f),
           k.obs[f] = "none"
    PROVE  Cardinality(Unseen(m)) + Owed(m) <= Cardinality(Unseen(k)) + Owed(k)
<1>a. k \in Begun /\ m \in Begun /\ k.pc \in InFlight /\ m.pc \in InFlight
  BY DEF GoesOn
<1>b. Paid(m) = Paid(k) /\ (Undisturbed(m) <=> Undisturbed(k))
  BY DEF Paid, Reads, Undisturbed, GoesOn
<1>c. IsFiniteSet(Unseen(k)) /\ Cardinality(Unseen(k)) \in Nat /\ Cardinality(Unseen(m)) \in Nat
  BY UnseenFinite
<1>d. \A g \in Trigger \ {f} : /\ g \in Found(m) <=> g \in Found(k)
                               /\ g \in MayFind(m) <=> g \in MayFind(k)
  BY DEF Found, MayFind, NewBaseline, Reads, GoesOn, Trigger, Field
<1>e. \A w \in Rows, g \in Trigger :
         g # f \/ w # k.watch => (IsUnseen(m, w, g) <=> IsUnseen(k, w, g))
  <2> TAKE w \in Rows, g \in Trigger
  <2>1. CASE w # k.watch
    BY <2>1, <1>a DEF IsUnseen, Coming, GoesOn
  <2>2. CASE w = k.watch /\ g # f
    <3>1. m.obs[g] = k.obs[g]
      BY <2>2 DEF Reads
    <3>2. Coming(m, w)[g] = Coming(k, w)[g]
      BY <2>2, <3>1, <1>a DEF Coming, NewBaseline, GoesOn, Trigger, Field
    <3>3. QED
      BY <3>2, <1>a, <1>b, <2>2 DEF IsUnseen, GoesOn
  <2>3. QED
    BY <2>1, <2>2
<1>1. CASE ~Undisturbed(k)
  <2>1. Unseen(m) \subseteq Unseen(k)
    <3> SUFFICES ASSUME NEW p \in Unseen(m) PROVE p \in Unseen(k)
      OBVIOUS
    <3>1. PICK w \in Rows, g \in Trigger : p = <<w, g>> /\ IsUnseen(m, w, g)
      BY UnseenPair
    <3>2. w # k.watch
      BY <1>1, <1>a, <1>b, <3>1 DEF IsUnseen, GoesOn
    <3>3. QED
      BY <1>e, <3>1, <3>2, UnseenPair
  <2>2. MayFind(m) \subseteq MayFind(k)
    <3>1. f \in MayFind(m) => f \in MayFind(k)
      BY DEF MayFind, NewBaseline, Reads, GoesOn, Trigger, Field
    <3>2. QED
      BY <3>1, <1>d DEF MayFind
  <2>3. IsFiniteSet(MayFind(k))
    BY TriggerCount DEF MayFind
  <2>4. /\ Cardinality(Unseen(m)) <= Cardinality(Unseen(k))
        /\ Cardinality(MayFind(m)) <= Cardinality(MayFind(k))
    BY <2>1, <2>2, <2>3, <1>c, Smaller
  <2>5. QED
    BY <1>1, <1>a, <1>b, <1>c, <2>4, OwedIs
<1>2. CASE Undisturbed(k)
  <2> DEFINE w == k.watch
  <2>1. w \in Rows /\ watch[w].addr = k.addr /\ watch[w].base = k.prev /\ m.watch = w
    BY <1>2 DEF Undisturbed, GoesOn
  <2>2. /\ Coming(k, w)[f] = k.prev[f]
        /\ Coming(m, w)[f] = IF m.obs[f] # "none" THEN m.obs[f] ELSE k.prev[f]
    BY <1>a, <2>1 DEF Coming, NewBaseline, GoesOn, Trigger, Field
  <2>3. m.obs[f] \in {"none", chain[k.addr][f]} /\ m.prev = k.prev
    BY DEF Reads, GoesOn
  <2>4. IsUnseen(m, w, f) => IsUnseen(k, w, f)
    BY <1>2, <2>1, <2>2, <2>3 DEF IsUnseen
  <2>5. Unseen(m) \subseteq Unseen(k)
    <3> SUFFICES ASSUME NEW p \in Unseen(m) PROVE p \in Unseen(k)
      OBVIOUS
    <3>1. PICK v \in Rows, g \in Trigger : p = <<v, g>> /\ IsUnseen(m, v, g)
      BY UnseenPair
    <3>2. IsUnseen(k, v, g)
      BY <1>e, <2>4, <3>1
    <3>3. QED
      BY <3>1, <3>2, UnseenPair
  <2>6. CASE f \in Found(m)
    <3>1. k.prev[f] # "none" /\ m.obs[f] \notin {"none", k.prev[f]}
      BY <2>3, <2>6 DEF Found
    <3>2. m.obs[f] = chain[watch[w].addr][f]
      BY <2>1, <2>3, <3>1
    <3>3. IsUnseen(k, w, f) /\ ~IsUnseen(m, w, f)
      BY <1>2, <2>2, <3>1, <3>2 DEF IsUnseen
    <3>4. <<w, f>> \in Unseen(k) /\ <<w, f>> \notin Unseen(m)
      BY <2>1, <3>3, UnseenPair
    <3>5. {<<w, f>>} \subseteq Unseen(k) /\ Unseen(m) \cap {<<w, f>>} = {}
          /\ Cardinality({<<w, f>>}) = 1
      BY <3>4, FS_Singleton
    <3>6. Cardinality(Unseen(m)) + 1 <= Cardinality(Unseen(k))
      BY <1>c, <2>5, <3>5, DisjointParts
    <3>7. Found(m) \subseteq Found(k) \cup {f}
      BY <1>d DEF Found
    <3>8. Cardinality(Found(m)) <= Cardinality(Found(k)) + 1
      <4>1. IsFiniteSet(Found(k)) /\ IsFiniteSet({f}) /\ Cardinality({f}) = 1
        BY TriggerCount, FS_Singleton DEF Found
      <4>2. QED
        BY <3>7, <4>1, AtMostBoth
    <3>9. QED
      BY <1>2, <1>a, <1>b, <1>c, <3>6, <3>8, OwedIs
  <2>7. CASE f \notin Found(m)
    <3>1. Found(m) \subseteq Found(k)
      BY <1>d, <2>7 DEF Found
    <3>2. Cardinality(Found(m)) <= Cardinality(Found(k))
      <4>1. IsFiniteSet(Found(k))
        BY TriggerCount DEF Found
      <4>2. QED
        BY <3>1, <4>1, Smaller
    <3>3. Cardinality(Unseen(m)) <= Cardinality(Unseen(k))
      BY <1>c, <2>5, Smaller
    <3>4. QED
      BY <1>2, <1>a, <1>b, <1>c, <3>2, <3>3, OwedIs
  <2>8. QED
    BY <2>6, <2>7
<1>3. QED
  BY <1>1, <1>2

\* A check that ends without its baseline leaves its moves to be found again.
LEMMA Ending ==
    ASSUME TypeOK, NEW k \in Begun, NEW m, k.pc \in InFlight, FlightInv(k), m.pc \notin InFlight
    PROVE  /\ Cardinality(Unseen(m)) <= Cardinality(Unseen(k)) + Owed(k) + Paid(k)
           /\ ~Undisturbed(k) => Cardinality(Unseen(m)) <= Cardinality(Unseen(k)) + Owed(k)
           /\ Paid(k) \in {0, 1}
<1>a. IsFiniteSet(Unseen(k)) /\ Cardinality(Unseen(k)) \in Nat /\ Cardinality(Unseen(m)) \in Nat
  BY UnseenFinite
<1>b. \A w \in Rows, f \in Trigger : IsUnseen(m, w, f) /\ w # k.watch => IsUnseen(k, w, f)
  BY DEF IsUnseen, Coming
<1>1. CASE Undisturbed(k)
  <2> DEFINE X == {k.watch} \X Found(k)
  <2>1. ASSUME NEW p \in Unseen(m) PROVE p \in Unseen(k) \cup X
    <3>1. PICK w \in Rows, f \in Trigger : p = <<w, f>> /\ IsUnseen(m, w, f)
      BY UnseenPair
    <3>2. CASE w # k.watch
      BY <1>b, <3>1, <3>2, UnseenPair
    <3>3. CASE w = k.watch
      <4>1. Coming(m, w)[f] = k.prev[f] /\ watch[w].base = k.prev
        BY <1>1, <3>3 DEF Coming, Undisturbed
      <4>2. CASE f \in Found(k)
        BY <3>1, <3>3, <4>2
      <4>3. CASE f \notin Found(k)
        <5>1. k.prev[f] # "none"
          BY <3>1, <4>1 DEF IsUnseen
        <5>2. Coming(k, w)[f] = k.prev[f]
          BY <3>3, <4>1, <4>3, <5>1 DEF Coming, NewBaseline, Found, Trigger, Field
        <5>3. QED
          BY <1>1, <3>1, <4>1, <5>2, UnseenPair DEF IsUnseen
      <4>4. QED
        BY <4>2, <4>3
    <3>4. QED
      BY <3>2, <3>3
  <2>2. IsFiniteSet(X) /\ Cardinality(X) = Cardinality(Found(k))
    BY FieldsOfRow DEF Found
  <2>3. Unseen(m) \subseteq Unseen(k) \cup X
    BY <2>1
  <2> HIDE DEF X
  <2>4. Cardinality(Unseen(m)) <= Cardinality(Unseen(k)) + Cardinality(X)
    BY <1>a, <2>2, <2>3, AtMostBoth
  <2>5. QED
    BY <1>1, <1>a, <2>2, <2>4, OwedIs
<1>2. CASE ~Undisturbed(k)
  <2> DEFINE X == {k.watch} \X Trigger
  <2>1. ASSUME NEW p \in Unseen(m) PROVE p \in Unseen(k) \cup X
    <3>1. PICK w \in Rows, f \in Trigger : p = <<w, f>> /\ IsUnseen(m, w, f)
      BY UnseenPair
    <3>2. QED
      BY <1>b, <3>1, UnseenPair
  <2>2. IsFiniteSet(X) /\ Cardinality(X) = Cardinality(Trigger)
    BY FieldsOfRow
  <2>3. Unseen(m) \subseteq Unseen(k) \cup X
    BY <2>1
  <2> HIDE DEF X
  <2>4. Cardinality(Unseen(m)) <= Cardinality(Unseen(k)) + Cardinality(X)
    BY <1>a, <2>2, <2>3, AtMostBoth
  <2>5. Cardinality(X) \in Nat /\ Cardinality(X) <= 2
    BY <2>2, TriggerCount
  <2>6. QED
    BY <1>2, <1>a, <2>4, <2>5, OwedIs, OwedCovers
<1>3. QED
  BY <1>1, <1>2

----------------------------------------------------------------------------
(* The debt, step by step.                                                 *)

DebtOK ==
    Len(scan) + Cardinality(Unseen(check[Only])) + Owed(check[Only]) <= Allowed

LEMMA OneMore ==
    ASSUME NEW n \in Nat, NEW c \in Nat
    PROVE  n * c \in Nat /\ n * (c + 1) = n * c + n
OBVIOUS

LEMMA MoreAllowed ==
    ASSUME NEW p \in Nat, NEW c \in Nat, NEW f \in Nat, NEW d \in Nat,
           NEW x \in Nat, NEW y \in Nat, c <= x, f <= y
    PROVE  p + c + f + 2 * d <= p + x + y + 2 * d
OBVIOUS

LEMMA DebtType ==
    ASSUME TypeOK
    PROVE  /\ Len(scan) \in Nat /\ Allowed \in Nat
           /\ Cardinality(Unseen(check[Only])) \in Nat /\ Owed(check[Only]) \in Int
           /\ Cardinality(Adder) * changes \in Nat
           /\ Cardinality(Adder) * (changes + 1) = Cardinality(Adder) * changes + Cardinality(Adder)
           /\ changes \in Nat /\ crashes \in Nat /\ faults \in Nat /\ deletes \in Nat
<1>1. /\ changes \in Nat /\ crashes \in Nat /\ faults \in Nat /\ deletes \in Nat
      /\ scan \in Seq(ScanRow)
  BY DEF TypeOK
<1>2. /\ Cardinality(Adder) * changes \in Nat
      /\ Cardinality(Adder) * (changes + 1) = Cardinality(Adder) * changes + Cardinality(Adder)
  BY <1>1, AdderCount, OneMore
<1>3. Allowed \in Nat
  BY <1>1, <1>2 DEF Allowed
<1>4. Owed(check[Only]) \in Int
  <2>1. CASE check[Only].pc \in InFlight
    BY <2>1, OwedIs
  <2>2. CASE check[Only].pc \notin InFlight
    BY <2>2 DEF Owed
  <2>3. QED
    BY <2>1, <2>2
<1>5. QED
  BY <1>1, <1>2, <1>3, <1>4, UnseenFinite

\* A step that is nothing to the check.
LEMMA DebtStays ==
    ASSUME TypeOK, DebtOK, UNCHANGED <<chain, watch, changes, deletes>>, Len(scan') = Len(scan),
           check'[Only] = check[Only] \/
              (check[Only].pc \notin InFlight /\ check'[Only].pc \notin InFlight),
           crashes' \in {crashes, crashes + 1}, faults' \in {faults, faults + 1}
    PROVE  DebtOK'
<1> DEFINE k == check[Only]
           m == check'[Only]
<1>1. Unseen(k)' = Unseen(m) /\ Owed(k)' = Owed(m)
  BY SameTables
<1>2. Unseen(m) = Unseen(k) /\ Owed(m) = Owed(k)
  BY NoFlight
<1> DEFINE P == Cardinality(Adder) * changes
<1>3. Allowed = P + crashes + faults + 2 * deletes
      /\ Allowed' = P + crashes' + faults' + 2 * deletes /\ P \in Nat
  BY DebtType DEF Allowed
<1>b. crashes \in Nat /\ faults \in Nat /\ deletes \in Nat
  BY DEF TypeOK
<1>c. crashes' \in Nat /\ faults' \in Nat /\ crashes <= crashes' /\ faults <= faults'
  BY <1>b
<1> HIDE DEF P
<1>4. Allowed' \in Int /\ Allowed <= Allowed'
  <2>1. 2 * deletes \in Nat
    BY <1>b
  <2>2. Allowed \in Int
    BY <1>3, <1>b, <2>1
  <2>3. Allowed' \in Int
    BY <1>3, <1>c, <2>1
  <2>4. QED
    BY <1>3, <1>b, <1>c, <2>2, <2>3, MoreAllowed
<1>5. Len(scan') + Cardinality(Unseen(k)') + Owed(k)' <= Allowed
  BY <1>1, <1>2 DEF DebtOK
<1>6. /\ Len(scan') \in Nat /\ Cardinality(Unseen(k)') \in Nat /\ Owed(k)' \in Int
      /\ Allowed \in Nat
  BY <1>1, <1>2, DebtType
<1>7. QED
  BY <1>4, <1>5, <1>6 DEF DebtOK

\* A check that begins has found nothing, and misses nothing.
LEMMA Beginning ==
    ASSUME TypeOK, NEW w \in Rows, NEW k, k.pc \notin InFlight
    PROVE  /\ Cardinality(Unseen(Reading(w))) <= Cardinality(Unseen(k))
           /\ Owed(Reading(w)) = 0
<1> DEFINE m == Reading(w)
<1>1. /\ m.pc = "code" /\ m.watch = w /\ m.addr = watch[w].addr /\ m.prev = watch[w].base
      /\ m.obs = Blank /\ m.scan = 0
  BY DEF Reading
<1> HIDE DEF m
<1>2. Undisturbed(m) /\ m.pc \in InFlight
  BY <1>1 DEF Undisturbed, InFlight
<1>3. Found(m) = {}
  BY <1>1 DEF Found, Blank, Trigger, Field
<1>4. Owed(m) = 0
  BY <1>1, <1>2, <1>3, FS_EmptySet DEF Owed
<1>5. \A v \in Rows, f \in Trigger : IsUnseen(m, v, f) => IsUnseen(k, v, f)
  BY <1>1, <1>2 DEF IsUnseen, Coming, NewBaseline, Blank, Trigger, Field
<1>6. Unseen(m) \subseteq Unseen(k)
  <2> SUFFICES ASSUME NEW p \in Unseen(m) PROVE p \in Unseen(k)
    OBVIOUS
  <2>1. PICK v \in Rows, f \in Trigger : p = <<v, f>> /\ IsUnseen(m, v, f)
    BY UnseenPair
  <2>2. QED
    BY <1>5, <2>1, UnseenPair
<1>7. Cardinality(Unseen(m)) <= Cardinality(Unseen(k))
  BY <1>6, UnseenFinite, Smaller
<1>8. QED
  BY <1>4, <1>7 DEF m

\* The last session, on the row of the check or on another one with its id.
LEMMA Saving ==
    ASSUME TypeOK, FlightOK, SaveBaseline(Only)
    PROVE  /\ Owed(check[Only])' = 0
           /\ Cardinality(Unseen(check[Only])') \in Nat
           /\ Cardinality(Unseen(check[Only])')
                <= Cardinality(Unseen(check[Only])) + Owed(check[Only])
<1> DEFINE k == check[Only]
           m == check'[Only]
<1>a. Only \in Thread /\ DOMAIN check = Thread /\ DOMAIN watch = Id
  BY OnlyThread DEF TypeOK
<1>w. PICK w : w = k.watch
  OBVIOUS
<1>b. k \in Begun /\ k.pc = "report" /\ k.pc \in InFlight
  BY <1>a, AtType DEF SaveBaseline, InFlight
<1>c. m.pc = "return" /\ m.pc \notin InFlight
  <2>1. m = [k EXCEPT !.pc = "return"]
    BY <1>a DEF SaveBaseline
  <2>2. QED
    BY <1>b, <2>1 DEF Begun, InFlight
<1>d. FlightInv(k) /\ UNCHANGED chain
  BY <1>b DEF FlightOK, SaveBaseline
<1>e. IsFiniteSet(Unseen(k)) /\ Cardinality(Unseen(k)) \in Nat
  BY UnseenFinite
<1>f. Owed(k)' = 0
  BY <1>c DEF Owed
<1>1. CASE w \notin Rows
  <2>1. UNCHANGED watch
    BY <1>1, <1>w DEF SaveBaseline
  <2>2. Unseen(k)' = Unseen(m)
    BY <1>d, <2>1, SameTables
  <2>3. ~Undisturbed(k)
    BY <1>1, <1>w DEF Undisturbed
  <2>4. Cardinality(Unseen(m)) <= Cardinality(Unseen(k)) + Owed(k)
    BY <1>b, <1>c, <1>d, <2>3, Ending
  <2>5. Cardinality(Unseen(m)) \in Nat
    BY UnseenFinite
  <2>6. QED
    BY <1>f, <2>2, <2>4, <2>5
<1>2. CASE w \in Rows
  <2>1. watch[w] \in [addr : Addr, base : State, checked : BOOLEAN] /\ w \in Id
    BY <1>2, RowType
  <2>2. /\ watch'[w].addr = watch[w].addr /\ watch'[w].base = NewBaseline(watch[w].base, k.obs)
        /\ \A v \in Id \ {w} : watch'[v] = watch[v]
    BY <1>2, <1>a, <1>w, <2>1 DEF SaveBaseline
  <2>3. \A v \in Rows' : v \in Rows
    BY <1>2, <2>2 DEF Rows
  <2>4. \A v \in Rows', f \in Trigger :
           IsUnseen(k, v, f)' /\ v # w => IsUnseen(k, v, f)
    <3> SUFFICES ASSUME NEW v \in Rows', NEW f \in Trigger, IsUnseen(k, v, f)', v # w
                 PROVE  IsUnseen(k, v, f)
      OBVIOUS
    <3>1. watch'[v] = watch[v] /\ v \in Id
      BY <2>2, <2>3 DEF Rows
    <3>2. Coming(k, v)' = watch[v].base /\ Coming(k, v) = watch[v].base
      BY <1>c, <1>w, <3>1 DEF Coming
    <3>3. QED
      BY <1>d, <1>w, <3>1, <3>2 DEF IsUnseen
  <2>5. CASE Undisturbed(k)
    <3>1. \A f \in Trigger : IsUnseen(k, w, f)' => IsUnseen(k, w, f)
      <4> SUFFICES ASSUME NEW f \in Trigger,
                          watch'[w].base[f] \notin {"none", chain[watch'[w].addr][f]}
                   PROVE  IsUnseen(k, w, f)
        BY <1>c, <1>d DEF IsUnseen, Coming
      <4>1. Coming(k, w) = watch'[w].base
        BY <1>b, <1>w, <2>2 DEF Coming
      <4>2. QED
        BY <1>w, <2>2, <2>5, <4>1 DEF IsUnseen
    <3>2. \A p \in Unseen(k)' : p \in Unseen(k)
      <4> TAKE p \in Unseen(k)'
      <4>1. PICK v \in Rows', f \in Trigger : p = <<v, f>>
        BY UnseenPairNext
      <4>2. IsUnseen(k, v, f)'
        BY <4>1, UnseenPairNext
      <4>3. IsUnseen(k, v, f)
        BY <2>4, <3>1, <4>2
      <4>4. QED
        BY <2>3, <4>1, <4>3, UnseenPair
    <3>3. Cardinality(Unseen(k)') \in Nat /\ Cardinality(Unseen(k)') <= Cardinality(Unseen(k))
      BY <1>e, <3>2, Smaller
    <3>4. QED
      BY <1>b, <1>d, <1>e, <1>f, <3>3, OwedCovers
  <2>6. CASE ~Undisturbed(k)
    <3> DEFINE X == {w} \X Trigger
    <3>2. \A p \in Unseen(k)' : p \in Unseen(k) \cup X
      <4> TAKE p \in Unseen(k)'
      <4>1. PICK v \in Rows', f \in Trigger : p = <<v, f>>
        BY UnseenPairNext
      <4>2. IsUnseen(k, v, f)'
        BY <4>1, UnseenPairNext
      <4>3. CASE v = w
        BY <4>1, <4>3
      <4>4. CASE v # w
        BY <2>3, <2>4, <4>1, <4>2, <4>4, UnseenPair
      <4>5. QED
        BY <4>3, <4>4
    <3>3. IsFiniteSet(X) /\ Cardinality(X) = Cardinality(Trigger)
      BY FieldsOfRow
    <3>4. Unseen(k)' \subseteq Unseen(k) \cup X
      BY <3>2
    <3> HIDE DEF X
    <3>5. /\ Cardinality(Unseen(k)') \in Nat
          /\ Cardinality(Unseen(k)') <= Cardinality(Unseen(k)) + Cardinality(X)
      BY <1>e, <3>3, <3>4, AtMostBoth
    <3>6. Cardinality(X) \in Nat /\ Cardinality(X) <= 2
      BY <3>3, TriggerCount
    <3>7. QED
      BY <1>b, <1>d, <1>e, <1>f, <2>6, <3>5, <3>6, OwedCovers
  <2>7. QED
    BY <2>5, <2>6
<1>3. QED
  BY <1>1, <1>2

\* What the check owes after a step that leaves it alone.
LEMMA OwedNext ==
    ASSUME check'[Only] = check[Only], check[Only].pc \in InFlight
    PROVE  /\ Found(check[Only])' = Found(check[Only])
           /\ Undisturbed(check[Only])' =>
                Owed(check[Only])' = Cardinality(Found(check[Only])) - Paid(check[Only])
           /\ ~Undisturbed(check[Only])' =>
                Owed(check[Only])' = 2 + Cardinality(MayFind(check[Only])') - Paid(check[Only])
           /\ UNCHANGED chain => MayFind(check[Only])' = MayFind(check[Only])
           /\ Cardinality(MayFind(check[Only])') \in Nat
<1>1. Found(check[Only])' = Found(check[Only])
  BY DEF Found
<1>2. MayFind(check[Only])' \subseteq Trigger
  BY DEF MayFind
<1>3. Cardinality(MayFind(check[Only])') \in Nat
  BY <1>2, TriggerCount
<1>4. UNCHANGED chain => MayFind(check[Only])' = MayFind(check[Only])
  BY DEF MayFind
<1>5. QED
  BY <1>1, <1>3, <1>4 DEF Owed, Paid

\* A new row has no baseline yet.
LEMMA NewRowOwesNothing ==
    ASSUME TypeOK, FlightOK, NEW c \in Adder, AddCommit(c)
    PROVE  LET k == check[Only]
           IN  /\ Cardinality(Unseen(k)') \in Nat /\ Owed(k)' \in Int
               /\ Cardinality(Unseen(k)') + Owed(k)' <= Cardinality(Unseen(k)) + Owed(k)
<1> DEFINE k == check[Only]
           row == [addr |-> check[c].addr, base |-> Blank, checked |-> FALSE]
<1>1. PICK n : n = NewId
  OBVIOUS
<1>2. /\ n \notin Rows /\ watch' = [watch EXCEPT ![n] = row] /\ UNCHANGED chain
      /\ check'[Only] = check[Only] /\ row.base = Blank
  BY <1>1, NewIdIsFree, OnlyThread DEF AddCommit, TypeOK
<1> HIDE DEF row
<1>3. \A w \in Rows : w \in Id /\ w # n
  BY <1>2 DEF Rows
<1>4. /\ \A w \in Id : w # n => watch'[w] = watch[w]
      /\ \A w \in Id : w = n => watch'[w].base = Blank
  BY <1>2 DEF TypeOK
<1>5. \A w \in Rows : w \in Rows' /\ watch'[w] = watch[w]
  BY <1>3, <1>4 DEF Rows
<1>6. \A w \in Rows' : w \in Id /\ (w # n => w \in Rows)
  BY <1>4 DEF Rows
<1>a. IsFiniteSet(Unseen(k)) /\ Cardinality(Unseen(k)) \in Nat
  BY UnseenFinite
<1>b. k.pc \in InFlight /\ k.watch # n => (Undisturbed(k)' <=> Undisturbed(k))
  <2> SUFFICES ASSUME k.watch # n PROVE Undisturbed(k)' <=> Undisturbed(k)
    OBVIOUS
  <2>1. CASE k.watch \in Id
    BY <1>2, <1>4, <2>1 DEF Undisturbed, Rows
  <2>2. CASE k.watch \notin Id
    BY <1>2, <2>2 DEF Undisturbed, Rows
  <2>3. QED
    BY <2>1, <2>2
<1>c. ASSUME NEW w \in Rows', NEW f \in Trigger, IsUnseen(k, w, f)', w # n
      PROVE  w \in Rows /\ IsUnseen(k, w, f)
  <2>1. w \in Rows /\ watch'[w] = watch[w]
    BY <1>4, <1>6, <1>c
  <2>2. Coming(k, w)' = Coming(k, w)
    BY <1>2, <2>1 DEF Coming
  <2>3. k.pc \in InFlight /\ w = k.watch => Undisturbed(k)
    BY <1>2, <1>b, <1>c DEF IsUnseen
  <2>4. QED
    BY <1>2, <1>c, <2>1, <2>2, <2>3 DEF IsUnseen
<1>d. ASSUME k.pc \in InFlight /\ k.watch = n => ~Undisturbed(k)'
      PROVE  Cardinality(Unseen(k)') \in Nat /\ Cardinality(Unseen(k)') <= Cardinality(Unseen(k))
  <2>1. ASSUME NEW f \in Trigger, n \in Rows', IsUnseen(k, n, f)' PROVE FALSE
    <3>1. watch'[n].base[f] = "none"
      BY <1>4, <1>6, <2>1 DEF Blank, Trigger, Field
    <3>2. ~(k.pc \in InFlight /\ k.watch = n)
      BY <1>2, <1>d, <2>1 DEF IsUnseen
    <3>3. Coming(k, n)' = watch'[n].base
      BY <1>2, <3>2 DEF Coming
    <3>4. QED
      BY <2>1, <3>1, <3>3 DEF IsUnseen
  <2>2. \A p \in Unseen(k)' : p \in Unseen(k)
    <3> TAKE p \in Unseen(k)'
    <3>1. PICK w \in Rows', f \in Trigger : p = <<w, f>>
      BY UnseenPairNext
    <3>2. IsUnseen(k, w, f)'
      BY <3>1, UnseenPairNext
    <3>3. w # n
      BY <2>1, <3>2
    <3>4. QED
      BY <1>c, <3>1, <3>2, <3>3, UnseenPair
  <2>3. QED
    BY <1>a, <2>2, Smaller
<1>7. CASE k.pc \notin InFlight
  <2>1. Owed(k)' = 0 /\ Owed(k) = 0
    BY <1>2, <1>7 DEF Owed
  <2>2. QED
    BY <1>7, <1>a, <1>d, <2>1
<1>8. CASE k.pc \in InFlight /\ (k.watch # n \/ ~Undisturbed(k)')
  <2>1. Undisturbed(k)' <=> Undisturbed(k)
    <3>1. n \notin Rows
      BY <1>2
    <3>2. QED
      BY <1>8, <1>b, <3>1 DEF Undisturbed
  <2>2. Owed(k)' = Owed(k) /\ Owed(k) \in Int
    BY <1>2, <1>8, <2>1, OwedNext, OwedIs
  <2>3. QED
    BY <1>8, <1>a, <1>d, <2>2
<1>9. CASE k.pc \in InFlight /\ k.watch = n /\ Undisturbed(k)'
  <2>1. ~Undisturbed(k) /\ FlightInv(k)
    BY <1>2, <1>9 DEF Undisturbed, FlightOK
  <2>2. Owed(k) \in Int /\ Owed(k) >= 2
    BY <1>9, <2>1, OwedCovers
  <2>3. k.prev = Blank
    <3>1. n \in Rows' /\ watch'[n].base = k.prev
      BY <1>2, <1>9 DEF Undisturbed
    <3>2. QED
      BY <1>4, <1>6, <3>1
  <2>4. Found(k) = {}
    BY <2>3 DEF Found, Blank, Trigger, Field
  <2>5. Owed(k)' = 0
    <3>1. Paid(k) = 0
      BY <2>1, <2>4 DEF Paid, FlightInv
    <3>2. QED
      BY <1>2, <1>9, <2>4, <3>1, OwedNext, FS_EmptySet
  <2> DEFINE X == {n} \X Trigger
  <2>6. \A p \in Unseen(k)' : p \in Unseen(k) \cup X
    <3> TAKE p \in Unseen(k)'
    <3>1. PICK w \in Rows', f \in Trigger : p = <<w, f>>
      BY UnseenPairNext
    <3>2. IsUnseen(k, w, f)'
      BY <3>1, UnseenPairNext
    <3>3. CASE w = n
      BY <3>1, <3>3
    <3>4. CASE w # n
      BY <1>c, <3>1, <3>2, <3>4, UnseenPair
    <3>5. QED
      BY <3>3, <3>4
  <2>7. IsFiniteSet(X) /\ Cardinality(X) = Cardinality(Trigger)
    BY FieldsOfRow
  <2>8. Unseen(k)' \subseteq Unseen(k) \cup X
    BY <2>6
  <2> HIDE DEF X
  <2>9. /\ Cardinality(Unseen(k)') \in Nat
        /\ Cardinality(Unseen(k)') <= Cardinality(Unseen(k)) + Cardinality(X)
    BY <1>a, <2>7, <2>8, AtMostBoth
  <2>10. Cardinality(X) \in Nat /\ Cardinality(X) <= 2
    BY <2>7, TriggerCount
  <2>11. QED
    BY <1>a, <2>2, <2>5, <2>9, <2>10
<1>10. QED
  BY <1>7, <1>8, <1>9

\* A row that goes takes its moves with it; the check that runs on it may lead
\* to two rescans of the row that has its id then.
LEMMA Deleting ==
    ASSUME TypeOK, FlightOK, NEW w \in Id, DeleteWatch(w)
    PROVE  LET k == check[Only]
           IN  /\ Cardinality(Unseen(k)') \in Nat /\ Owed(k)' \in Int
               /\ Cardinality(Unseen(k)') + Owed(k)' <= Cardinality(Unseen(k)) + Owed(k) + 2
<1> DEFINE k == check[Only]
<1>1. /\ w \in Rows /\ watch' = [watch EXCEPT ![w] = NoRow] /\ UNCHANGED chain
      /\ check'[Only] = check[Only]
  BY DEF DeleteWatch
<1>2. /\ \A v \in Rows' : v \in Rows /\ v # w /\ watch'[v] = watch[v]
      /\ \A v \in Rows \ {w} : v \in Rows' /\ watch'[v] = watch[v]
  BY <1>1 DEF Rows, TypeOK
<1>a. IsFiniteSet(Unseen(k)) /\ Cardinality(Unseen(k)) \in Nat
  BY UnseenFinite
<1>b. Undisturbed(k)' <=> Undisturbed(k) /\ k.watch # w
  BY <1>1, <1>2 DEF Undisturbed
<1>c. ASSUME NEW v \in Rows', NEW f \in Trigger, IsUnseen(k, v, f)'
      PROVE  v \in Rows /\ v # w /\ IsUnseen(k, v, f)
  <2>1. v \in Rows /\ v # w /\ watch'[v] = watch[v]
    BY <1>2
  <2>2. Coming(k, v)' = Coming(k, v)
    BY <1>1, <2>1 DEF Coming
  <2>3. k.pc \in InFlight /\ v = k.watch => Undisturbed(k)
    BY <1>1, <1>b, <1>c DEF IsUnseen
  <2>4. QED
    BY <1>1, <1>c, <2>1, <2>2, <2>3 DEF IsUnseen
<1>d. \A p \in Unseen(k)' : p \in Unseen(k) /\ p[1] # w
  <2> TAKE p \in Unseen(k)'
  <2>1. PICK v \in Rows', f \in Trigger : p = <<v, f>>
    BY UnseenPairNext
  <2>2. IsUnseen(k, v, f)'
    BY <2>1, UnseenPairNext
  <2>3. QED
    BY <1>c, <2>1, <2>2, UnseenPair
<1>e. Cardinality(Unseen(k)') \in Nat /\ Cardinality(Unseen(k)') <= Cardinality(Unseen(k))
  BY <1>a, <1>d, Smaller
<1>3. CASE k.pc \notin InFlight
  <2>1. Owed(k)' = 0 /\ Owed(k) = 0
    BY <1>1, <1>3 DEF Owed
  <2>2. QED
    BY <1>a, <1>e, <2>1
<1>4. CASE k.pc \in InFlight /\ ~(Undisturbed(k) /\ k.watch = w)
  <2>1. Undisturbed(k)' <=> Undisturbed(k)
    BY <1>4, <1>b
  <2>2. Owed(k)' = Owed(k) /\ Owed(k) \in Int
    BY <1>1, <1>4, <2>1, OwedNext, OwedIs
  <2>3. QED
    BY <1>a, <1>e, <2>2
<1>5. CASE k.pc \in InFlight /\ Undisturbed(k) /\ k.watch = w
  <2> DEFINE F == MayFind(k) \ Found(k)
             X == {w} \X F
  <2>1. F \subseteq Trigger /\ MayFind(k) \subseteq Found(k) \cup F
    BY DEF MayFind
  <2>2. \A f \in F : <<w, f>> \in Unseen(k)
    <3> TAKE f \in F
    <3>1. /\ f \in Trigger /\ k.prev[f] # "none" /\ k.obs[f] \in {"none", k.prev[f]}
          /\ (IF k.obs[f] # "none" THEN k.obs[f] ELSE chain[k.addr][f]) \notin {"none", k.prev[f]}
      BY DEF MayFind, Found, NewBaseline, Trigger, Field
    <3>2. k.obs[f] = "none" /\ chain[k.addr][f] # k.prev[f]
      BY <3>1
    <3>3. watch[w].base = k.prev /\ watch[w].addr = k.addr
      BY <1>5 DEF Undisturbed
    <3>4. Coming(k, w)[f] = k.prev[f]
      BY <1>5, <3>1, <3>2, <3>3 DEF Coming, NewBaseline, Trigger, Field
    <3>5. IsUnseen(k, w, f)
      BY <1>5, <3>1, <3>2, <3>3, <3>4 DEF IsUnseen
    <3>6. QED
      BY <1>1, <3>1, <3>5, UnseenPair
  <2>3. X \subseteq Unseen(k) /\ Unseen(k)' \cap X = {}
    BY <1>d, <2>2
  <2>4. Cardinality(X) = Cardinality(F)
    BY <2>1, FieldsOfRow
  <2>5. IsFiniteSet(Found(k)) /\ IsFiniteSet(F)
    BY <2>1, TriggerCount DEF Found
  <2> HIDE DEF F, X
  <2>6. /\ Cardinality(X) \in Nat
        /\ Cardinality(Unseen(k)') + Cardinality(X) <= Cardinality(Unseen(k))
    BY <1>a, <1>d, <2>3, DisjointParts
  <2>7. Cardinality(MayFind(k)) <= Cardinality(Found(k)) + Cardinality(F)
    BY <2>1, <2>5, AtMostBoth
  <2>8. Owed(k) = Cardinality(Found(k)) - Paid(k) /\ Owed(k) \in Int /\ Paid(k) \in {0, 1}
        /\ Cardinality(Found(k)) \in Nat /\ Cardinality(MayFind(k)) \in Nat
    BY <1>5, OwedIs
  <2>9. Owed(k)' = 2 + Cardinality(MayFind(k)) - Paid(k)
    BY <1>1, <1>5, <1>b, OwedNext
  <2>10. QED
    BY <1>a, <1>e, <2>4, <2>6, <2>7, <2>8, <2>9
<1>6. QED
  BY <1>3, <1>4, <1>5

\* A change of the chain is unseen by the rows of the address, and by the check
\* that has read one of them.
LEMMA Changing ==
    ASSUME TypeOK, CopiesAreFew, FlightOK, NEW a \in Addr, NEW f \in Field, ChainChanges(a, f)
    PROVE  LET k == check[Only]
           IN  /\ Cardinality(Unseen(k)') \in Nat /\ Owed(k)' \in Int
               /\ Cardinality(Unseen(k)') + Owed(k)'
                    <= Cardinality(Unseen(k)) + Owed(k) + Cardinality(Adder)
<1> DEFINE k == check[Only]
<1>1. PICK v : chain' = [chain EXCEPT ![a][f] = v]
  BY DEF ChainChanges
<1>2. UNCHANGED <<watch, check>>
  BY DEF ChainChanges, table
<1>3. \A b \in Addr, g \in Field : b # a \/ g # f => chain'[b][g] = chain[b][g]
  BY <1>1 DEF TypeOK, State
<1>a. IsFiniteSet(Unseen(k)) /\ Cardinality(Unseen(k)) \in Nat
  BY UnseenFinite
<1>b. /\ Rows' = Rows /\ (Undisturbed(k)' <=> Undisturbed(k))
      /\ \A w : Coming(k, w)' = Coming(k, w)
  BY <1>2 DEF Rows, Undisturbed, Coming
<1>c. Trigger \subseteq Field
  BY DEF Trigger, Field
\* The rows that may not have seen the change.
<1> DEFINE Ghost == k.pc \in InFlight /\ ~Undisturbed(k) /\ k.addr = a
           G == IF Ghost THEN Others(k) ELSE Copies(a)
           X == G \X {f}
<1>4. ASSUME NEW p \in Unseen(k)' PROVE p \in Unseen(k) \cup X
  <2>1. PICK w \in Rows', g \in Trigger : p = <<w, g>>
    BY UnseenPairNext
  <2>2. IsUnseen(k, w, g)' /\ w \in Rows
    BY <1>b, <2>1, UnseenPairNext
  <2>3. watch[w].addr \in Addr /\ w \in Id
    BY <2>2, RowType
  <2>4. CASE watch[w].addr # a \/ g # f
    <3>1. chain'[watch[w].addr][g] = chain[watch[w].addr][g]
      BY <1>3, <1>c, <2>3, <2>4
    <3>2. IsUnseen(k, w, g)
      BY <1>2, <1>b, <2>2, <3>1 DEF IsUnseen
    <3>3. QED
      BY <2>1, <2>2, <3>2, UnseenPair
  <2>5. CASE watch[w].addr = a /\ g = f
    <3>1. CASE Ghost
      <4>1. w # k.watch
        BY <1>2, <1>b, <2>2, <3>1 DEF IsUnseen
      <4>2. Coming(k, w) = watch[w].base
        BY <4>1 DEF Coming
      <4>3. watch[w].base[g] # "none"
        BY <1>b, <2>2, <4>2 DEF IsUnseen
      <4>4. watch[w].base # Blank
        BY <1>c, <4>3 DEF Blank
      <4>5. w \in Others(k)
        BY <2>2, <2>5, <3>1, <4>1, <4>4 DEF Others
      <4>6. QED
        BY <2>1, <2>5, <3>1, <4>5
    <3>2. CASE ~Ghost
      BY <2>1, <2>2, <2>5, <3>2 DEF Copies
    <3>3. QED
      BY <3>1, <3>2
  <2>6. QED
    BY <2>4, <2>5
<1>5. IsFiniteSet(G) /\ Cardinality(G) \in Nat
  <2>1. G \subseteq Rows
    BY DEF Others, Copies
  <2>2. QED
    BY <2>1, RowsFinite, Smaller
<1>6. IsFiniteSet(X) /\ Cardinality(X) = Cardinality(G)
  BY <1>5, FieldOfRows
<1>7. Unseen(k)' \subseteq Unseen(k) \cup X
  BY <1>4
<1>8. CASE Ghost
  <2>1. G = Others(k)
    BY <1>8
  <2> HIDE DEF G, X
  <2>2. Cardinality(G) < Cardinality(Adder)
    BY <1>8, <2>1 DEF FlightOK, FlightInv
  <2>3. MayFind(k)' \subseteq MayFind(k) \cup {f}
    <3>1. \A g \in Trigger \ {f} : g \in MayFind(k)' => g \in MayFind(k)
      BY <1>2, <1>3, <1>8, <1>c DEF MayFind, NewBaseline
    <3>2. MayFind(k)' \subseteq Trigger
      BY DEF MayFind
    <3>3. QED
      BY <3>1, <3>2
  <2>4. Cardinality(MayFind(k)') <= Cardinality(MayFind(k)) + 1
    <3>1. IsFiniteSet(MayFind(k)) /\ IsFiniteSet({f}) /\ Cardinality({f}) = 1
      BY TriggerCount, FS_Singleton DEF MayFind
    <3>2. QED
      BY <2>3, <3>1, AtMostBoth
  <2>5. /\ Cardinality(Unseen(k)') \in Nat
        /\ Cardinality(Unseen(k)') <= Cardinality(Unseen(k)) + Cardinality(G)
    BY <1>a, <1>6, <1>7, AtMostBoth
  <2>6. /\ Owed(k) = 2 + Cardinality(MayFind(k)) - Paid(k) /\ Paid(k) \in {0, 1}
        /\ Cardinality(MayFind(k)) \in Nat
    BY <1>8, OwedIs
  <2>7. /\ Owed(k)' = 2 + Cardinality(MayFind(k)') - Paid(k)
        /\ Cardinality(MayFind(k)') \in Nat
    BY <1>2, <1>8, <1>b, OwedNext
  <2>8. QED
    BY <1>a, <1>5, <2>2, <2>4, <2>5, <2>6, <2>7, AdderCount
<1>9. CASE ~Ghost
  <2>1. G = Copies(a)
    BY <1>9
  <2>2. Owed(k)' = Owed(k) /\ Owed(k) \in Int
    <3>1. CASE k.pc \notin InFlight
      BY <1>2, <3>1 DEF Owed
    <3>2. CASE k.pc \in InFlight /\ Undisturbed(k)
      BY <1>2, <1>b, <3>2, OwedNext, OwedIs
    <3>3. CASE k.pc \in InFlight /\ ~Undisturbed(k)
      <4>1. k.addr # a /\ k.addr \in Addr
        <5>1. Only \in Thread /\ k.pc \notin {"idle", "add"}
          BY <3>3, OnlyThread DEF InFlight
        <5>2. QED
          BY <1>9, <3>3, <5>1, AtType DEF Begun
      <4>2. MayFind(k)' = MayFind(k)
        BY <1>2, <1>3, <1>c, <4>1 DEF MayFind, NewBaseline
      <4>3. QED
        BY <1>2, <1>b, <3>3, <4>2, OwedNext, OwedIs
    <3>4. QED
      BY <3>1, <3>2, <3>3
  <2> HIDE DEF G, X
  <2>3. Cardinality(G) <= Cardinality(Adder)
    <3>1. Cardinality(Copies(a)) + Cardinality(Adding(a)) <= Cardinality(Adder)
      BY DEF CopiesAreFew
    <3>2. QED
      BY <2>1, <3>1, CopiesFinite, AdderCount
  <2>4. /\ Cardinality(Unseen(k)') \in Nat
        /\ Cardinality(Unseen(k)') <= Cardinality(Unseen(k)) + Cardinality(G)
    BY <1>a, <1>6, <1>7, AtMostBoth
  <2>5. QED
    BY <1>a, <1>5, <2>2, <2>3, <2>4, AdderCount
<1>10. QED
  BY <1>8, <1>9

LEMMA DebtNext ==
    ASSUME OneChecks
    PROVE  TypeOK /\ NoLoopInv /\ CopiesAreFew /\ FlightOK /\ DebtOK /\ [Next]_vars => DebtOK'
<1> SUFFICES ASSUME TypeOK, NoLoopInv, CopiesAreFew, FlightOK, DebtOK, [Next]_vars PROVE DebtOK'
  OBVIOUS
<1> USE DEF table, manager, bounds
<1> DEFINE k == check[Only]
           m == check'[Only]
           Slots == Cardinality(Adder) * changes
<1>a. /\ Only \in Thread /\ Adder \subseteq Thread /\ Only \notin Adder
      /\ DOMAIN check = Thread /\ DOMAIN watch = Id
  BY OnlyThread DEF TypeOK
<1>b. k.pc \in InFlight => FlightInv(k)
  BY DEF FlightOK
<1>c. Len(scan) + Cardinality(Unseen(k)) + Owed(k) <= Allowed
  BY DEF DebtOK
<1>d. /\ Len(scan) \in Nat /\ Cardinality(Unseen(k)) \in Nat /\ Owed(k) \in Int
      /\ Allowed = Slots + crashes + faults + 2 * deletes
      /\ Slots \in Nat /\ crashes \in Nat /\ faults \in Nat /\ deletes \in Nat
  BY DebtType DEF Allowed
<1>e. Cardinality(Unseen(m)) \in Nat
  BY UnseenFinite
<1>1. ASSUME NEW a \in Addr, NEW f \in Field, ChainChanges(a, f) PROVE DebtOK'
  <2>1. /\ Cardinality(Unseen(k)') \in Nat /\ Owed(k)' \in Int
        /\ Cardinality(Unseen(k)') + Owed(k)'
             <= Cardinality(Unseen(k)) + Owed(k) + Cardinality(Adder)
    BY <1>1, Changing
  <2>2. UNCHANGED scan
    BY <1>1 DEF ChainChanges
  <2>3. Allowed' = Slots + Cardinality(Adder) + crashes + faults + 2 * deletes
    <3>1. UNCHANGED <<crashes, faults, deletes>> /\ changes' = changes + 1
      BY <1>1 DEF ChainChanges
    <3>2. Cardinality(Adder) * (changes + 1) = Cardinality(Adder) * changes + Cardinality(Adder)
      BY DebtType
    <3>3. QED
      BY <3>1, <3>2 DEF Allowed
  <2> HIDE DEF Slots
  <2>4. Allowed' = Allowed + Cardinality(Adder) /\ Allowed \in Nat
    BY <1>d, <2>3, AdderCount
  <2>5. Len(scan') + Cardinality(Unseen(k)') + Owed(k)' <= Allowed + Cardinality(Adder)
    BY <1>c, <1>d, <2>1, <2>2, <2>4, AdderCount
  <2>6. QED
    BY <2>4, <2>5 DEF DebtOK
<1>2. ASSUME NEW c \in Adder, NEW a \in Addr, AddRead(c, a) PROVE DebtOK'
  BY <1>2, <1>a, DebtStays DEF AddRead
<1>3. ASSUME NEW c \in Adder, AddCommit(c) PROVE DebtOK'
  <2>1. /\ Cardinality(Unseen(k)') \in Nat /\ Owed(k)' \in Int
        /\ Cardinality(Unseen(k)') + Owed(k)' <= Cardinality(Unseen(k)) + Owed(k)
    BY <1>3, NewRowOwesNothing
  <2>2. UNCHANGED scan /\ Allowed' = Allowed
    BY <1>3 DEF AddCommit, Allowed
  <2> HIDE DEF Slots
  <2>3. QED
    BY <1>c, <1>d, <2>1, <2>2 DEF DebtOK
<1>4. ASSUME NEW w \in Id, DeleteWatch(w) PROVE DebtOK'
  <2>1. /\ Cardinality(Unseen(k)') \in Nat /\ Owed(k)' \in Int
        /\ Cardinality(Unseen(k)') + Owed(k)' <= Cardinality(Unseen(k)) + Owed(k) + 2
    BY <1>4, Deleting
  <2>2. UNCHANGED scan /\ Allowed' = Slots + crashes + faults + 2 * (deletes + 1)
    BY <1>4 DEF DeleteWatch, Allowed
  <2> HIDE DEF Slots
  <2>3. QED
    BY <1>c, <1>d, <2>1, <2>2 DEF DebtOK
<1>5. ASSUME RpcDown(Only) PROVE DebtOK'
  <2>1. k \in Begun /\ k.pc = "code"
    BY <1>5, <1>a, AtType DEF RpcDown
  <2>2. m = [k EXCEPT !.pc = "return"]
    BY <1>5, <1>a DEF RpcDown
  <2>3. m.pc = "return"
    BY <2>1, <2>2 DEF Begun
  <2>4. FlightInv(k) /\ k.scan = 0
    BY <1>b, <2>1 DEF FlightInv, InFlight
  <2>5. Cardinality(Unseen(m)) <= Cardinality(Unseen(k)) + Owed(k) + Paid(k)
    BY <2>1, <2>3, <2>4, Ending DEF InFlight
  <2>6. Paid(k) = 0 /\ Owed(m) = 0
    BY <2>3, <2>4 DEF Paid, Owed, InFlight
  <2>7. Unseen(k)' = Unseen(m) /\ Owed(k)' = Owed(m) /\ UNCHANGED scan /\ Allowed' = Allowed
    BY <1>5, SameTables DEF RpcDown, Allowed
  <2> HIDE DEF Slots
  <2>8. QED
    BY <1>c, <1>d, <1>e, <2>5, <2>6, <2>7 DEF DebtOK
<1>6. ASSUME ReadCode(Only) PROVE DebtOK'
  <2>1. GoesOn(k, m) /\ Reads(k, m, "code") /\ k.pc = "code"
    BY <1>6, ReadCodeStep
  <2>2. k.obs = Blank
    BY <1>b, <2>1 DEF FlightInv, InFlight
  <2>3. k.obs["code"] = "none" /\ "code" \in Trigger
    BY <2>2 DEF Blank, Field, Trigger
  <2>4. Cardinality(Unseen(m)) + Owed(m) <= Cardinality(Unseen(k)) + Owed(k)
    BY <2>1, <2>3, Observing
  <2>5. Owed(m) \in Int
    BY <2>1, OwedIs DEF GoesOn
  <2>6. Unseen(k)' = Unseen(m) /\ Owed(k)' = Owed(m) /\ UNCHANGED scan /\ Allowed' = Allowed
    BY <1>6, SameTables DEF ReadCode, Allowed
  <2> HIDE DEF Slots
  <2>7. QED
    BY <1>c, <1>d, <1>e, <2>4, <2>5, <2>6 DEF DebtOK
<1>7. ASSUME ReadProxy(Only) PROVE DebtOK'
  <2>1. GoesOn(k, m) /\ Reads(k, m, "impl") /\ k.pc = "proxy"
    BY <1>7, ReadProxyStep
  <2>2. k.obs["impl"] = "none" /\ "impl" \in Trigger
    BY <1>b, <2>1 DEF FlightInv, InFlight, Trigger
  <2>3. Cardinality(Unseen(m)) + Owed(m) <= Cardinality(Unseen(k)) + Owed(k)
    BY <2>1, <2>2, Observing
  <2>4. Owed(m) \in Int
    BY <2>1, OwedIs DEF GoesOn
  <2>5. Unseen(k)' = Unseen(m) /\ Owed(k)' = Owed(m) /\ UNCHANGED scan /\ Allowed' = Allowed
    BY <1>7, SameTables DEF ReadProxy, Allowed
  <2> HIDE DEF Slots
  <2>6. QED
    BY <1>c, <1>d, <1>e, <2>3, <2>4, <2>5 DEF DebtOK
<1>8. ASSUME InsertScan(Only) PROVE DebtOK'
  <2>1. /\ GoesOn(k, m) /\ m.obs = k.obs /\ k.pc = "scan"
        /\ Len(scan') = Len(scan) + 1 /\ m.scan = Len(scan) + 1
    BY <1>8, InsertScanStep
  <2>2. Paid(k) = 0 /\ Paid(m) = 1
    BY <1>b, <1>d, <2>1 DEF Paid, FlightInv, InFlight
  <2>3. Unseen(m) = Unseen(k) /\ Owed(m) + Paid(m) = Owed(k) + Paid(k) /\ Owed(m) \in Int
    BY <2>1, Alike
  <2>4. Unseen(k)' = Unseen(m) /\ Owed(k)' = Owed(m) /\ Allowed' = Allowed
    BY <1>8, SameTables DEF InsertScan, Allowed
  <2> HIDE DEF Slots
  <2>5. QED
    BY <1>c, <1>d, <2>1, <2>2, <2>3, <2>4 DEF DebtOK
<1>9. ASSUME InsertTarget(Only) \/ \E f \in Field : ReportEvent(Only, f) PROVE DebtOK'
  <2>1. GoesOn(k, m) /\ m.obs = k.obs /\ m.scan = k.scan /\ Len(scan') = Len(scan)
    BY <1>9, ReportStep
  <2>2. Paid(m) = Paid(k)
    BY <2>1 DEF Paid
  <2>3. /\ Unseen(m) = Unseen(k) /\ Owed(m) + Paid(m) = Owed(k) + Paid(k)
        /\ Owed(m) \in Int /\ Paid(k) \in {0, 1}
    BY <2>1, Alike
  <2>4. UNCHANGED <<chain, watch>> /\ Allowed' = Allowed
    BY <1>9 DEF InsertTarget, ReportEvent, Allowed
  <2>5. Unseen(k)' = Unseen(m) /\ Owed(k)' = Owed(m)
    BY <2>4, SameTables
  <2> HIDE DEF Slots
  <2>6. QED
    BY <1>c, <1>d, <2>1, <2>2, <2>3, <2>4, <2>5 DEF DebtOK
<1>10. ASSUME SaveBaseline(Only) PROVE DebtOK'
  <2>1. /\ Owed(k)' = 0 /\ Cardinality(Unseen(k)') \in Nat
        /\ Cardinality(Unseen(k)') <= Cardinality(Unseen(k)) + Owed(k)
    BY <1>10, Saving
  <2>2. UNCHANGED scan /\ Allowed' = Allowed
    BY <1>10 DEF SaveBaseline, Allowed
  <2> HIDE DEF Slots
  <2>3. QED
    BY <1>c, <1>d, <2>1, <2>2 DEF DebtOK
<1>11. ASSUME StartScan(Only) PROVE DebtOK'
  <2>1. Len(scan') = Len(scan)
    <3>1. CASE k.scan = 0
      BY <1>11, <3>1 DEF StartScan
    <3>2. CASE k.scan # 0
      BY <1>11, <3>2, ScanMoves DEF StartScan
    <3>3. QED
      BY <3>1, <3>2
  <2>2. k.pc = "return" /\ m = Idle
    BY <1>11, <1>a DEF StartScan
  <2>3. k.pc \notin InFlight /\ m.pc \notin InFlight
    BY <2>2 DEF InFlight, Idle
  <2>4. QED
    BY <1>11, <2>1, <2>3, DebtStays DEF StartScan
<1>12. ASSUME CheckRaises(Only) PROVE DebtOK'
  <2>1. m = Idle /\ UNCHANGED <<chain, watch, scan>>
        /\ Allowed' = Slots + crashes + (faults + 1) + 2 * deletes
    BY <1>12, <1>a DEF CheckRaises, Allowed
  <2>2. k \in Begun /\ k.pc \in InFlight
    BY <1>12, <1>a, AtType DEF CheckRaises, InFlight
  <2>3. m.pc \notin InFlight
    BY <2>1 DEF InFlight, Idle
  <2>4. /\ Cardinality(Unseen(m)) <= Cardinality(Unseen(k)) + Owed(k) + Paid(k)
        /\ Paid(k) \in {0, 1} /\ Owed(m) = 0
    BY <1>b, <2>2, <2>3, Ending DEF Owed
  <2>5. Unseen(k)' = Unseen(m) /\ Owed(k)' = Owed(m)
    BY <2>1, SameTables
  <2> HIDE DEF Slots
  <2>6. QED
    BY <1>c, <1>d, <1>e, <2>1, <2>4, <2>5 DEF DebtOK
<1>13. ASSUME Crash PROVE DebtOK'
  <2>1. m = Idle /\ UNCHANGED <<chain, watch, scan>>
        /\ Allowed' = Slots + (crashes + 1) + faults + 2 * deletes
    BY <1>13, <1>a DEF Crash, Allowed
  <2>2. m.pc \notin InFlight /\ Owed(m) = 0
    BY <2>1 DEF InFlight, Idle, Owed
  <2>3. Unseen(k)' = Unseen(m) /\ Owed(k)' = Owed(m)
    BY <2>1, SameTables
  <2>4. Cardinality(Unseen(m)) <= Cardinality(Unseen(k)) + Owed(k) + 1
    <3>1. CASE k.pc \in InFlight
      <4>1. k \in Begun
        BY <1>a, <3>1, AtType DEF InFlight
      <4>2. /\ Cardinality(Unseen(m)) <= Cardinality(Unseen(k)) + Owed(k) + Paid(k)
            /\ Paid(k) \in {0, 1}
        BY <1>b, <2>2, <3>1, <4>1, Ending
      <4> HIDE DEF Slots
      <4>3. QED
        BY <1>d, <1>e, <4>2
    <3>2. CASE k.pc \notin InFlight
      <4>1. Unseen(k) = Unseen(m) /\ Owed(k) = 0
        BY <2>2, <3>2, NoFlight
      <4>2. QED
        BY <1>e, <4>1
    <3>3. QED
      BY <3>1, <3>2
  <2> HIDE DEF Slots
  <2>5. QED
    BY <1>c, <1>d, <1>e, <2>1, <2>2, <2>3, <2>4 DEF DebtOK
<1>14. ASSUME LoopWakes \/ LoopSleeps \/ MonitorStart \/ MonitorStop PROVE DebtOK'
  BY <1>14, DebtStays DEF LoopWakes, LoopSleeps, MonitorStart, MonitorStop
<1>15. ASSUME Restart PROVE DebtOK'
  <2>1. Len(scan') = Len(scan)
    BY <1>15 DEF Restart, TypeOK
  <2>2. QED
    BY <1>15, <2>1, DebtStays DEF Restart
<1>16. ASSUME NEW w \in Id, Begins(w) PROVE DebtOK'
  <2>1. UNCHANGED <<chain, watch, scan>> /\ k = Idle /\ Allowed' = Allowed
    BY <1>16 DEF Begins, Allowed
  <2>2. k.pc \notin InFlight /\ Owed(k) = 0
    BY <2>1 DEF Idle, InFlight, Owed
  <2>3. CASE w \notin Rows
    <3>1. m = k
      BY <1>16, <1>a, <2>1, <2>3 DEF Begins
    <3>2. QED
      BY <1>16, <3>1, DebtStays DEF Begins
  <2>4. CASE w \in Rows
    <3>1. m = Reading(w)
      BY <1>16, <1>a, <2>4 DEF Begins
    <3>2. Cardinality(Unseen(m)) <= Cardinality(Unseen(k)) /\ Owed(m) = 0
      BY <2>2, <2>4, <3>1, Beginning
    <3>3. Unseen(k)' = Unseen(m) /\ Owed(k)' = Owed(m)
      BY <2>1, SameTables
    <3> HIDE DEF Slots
    <3>4. QED
      BY <1>c, <1>d, <1>e, <2>1, <2>2, <3>2, <3>3 DEF DebtOK
  <2>5. QED
    BY <2>3, <2>4
<1>17. CASE UNCHANGED vars
  BY <1>17, DebtStays DEF vars
<1>18. QED
  BY <1>a, <1>1, <1>2, <1>3, <1>4, <1>5, <1>6, <1>7, <1>8, <1>9, <1>10, <1>11, <1>12, <1>13,
     <1>14, <1>15, <1>16, <1>17, OnlyNext
  DEF CheckStep

LEMMA DebtInit == Init => DebtInv
<1> SUFFICES ASSUME Init PROVE DebtInv
  OBVIOUS
<1>1. Rows = {} /\ check[Only] = Idle /\ scan = <<>> /\ \A c \in Adder : check[c] = Idle
  BY OnlyThread DEF Init, Rows
<1>2. check[Only].pc \notin InFlight
  BY <1>1 DEF Idle, InFlight
<1>3. CopiesAreFew
  <2>1. \A a \in Addr : Copies(a) = {} /\ Adding(a) = {}
    BY <1>1 DEF Copies, Adding, Idle
  <2>2. QED
    BY <2>1, FS_EmptySet, AdderCount DEF CopiesAreFew
<1>4. Unseen(check[Only]) = {} /\ Owed(check[Only]) = 0
  BY <1>1, <1>2 DEF Unseen, Owed
<1>5. Allowed = 0
  <2>1. Cardinality(Adder) * 0 = 0
    BY AdderCount
  <2>2. QED
    BY <2>1 DEF Init, Allowed
<1>6. Len(scan) = 0 /\ Cardinality(Unseen(check[Only])) = 0
  BY <1>1, <1>4, FS_EmptySet
<1>7. QED
  BY <1>2, <1>3, <1>4, <1>5, <1>6 DEF DebtInv

\* What was scanned and what is still to be scanned stays within the bound, when
\* one thread checks.
THEOREM FewInvariance ==
    ASSUME OneChecks
    PROVE  Spec => []FewInv
<1>1. FewInv /\ [Next]_vars => FewInv'
  <2>1. DebtInv <=> CopiesAreFew /\ FlightOK /\ DebtOK
    BY DEF DebtInv, FlightOK, DebtOK
  <2>2. DebtInv' <=> CopiesAreFew' /\ FlightOK' /\ DebtOK'
    BY DEF DebtInv, FlightOK, DebtOK
  <2>3. QED
    BY <2>1, <2>2, TypeNext, NoLoopNext, CopiesNext, FlightNext, DebtNext DEF FewInv
<1>2. Init => FewInv
  BY TypeInit, NoLoopInit, DebtInit DEF FewInv
<1>3. QED
  BY <1>1, <1>2, PTL DEF Spec

\* One change of the chain leads to one rescan of each row of its address, but
\* for checks that were cut short and rows that were deleted.
THEOREM FewCorrect ==
    ASSUME OneChecks
    PROVE  Spec => []RescansAreFew
<1>1. FewInv => RescansAreFew
  <2> SUFFICES ASSUME TypeOK, DebtInv PROVE Len(scan) <= Allowed
    BY DEF FewInv, RescansAreFew, Allowed
  <2>1. Owed(check[Only]) \in Int /\ Owed(check[Only]) >= 0
    <3>1. CASE check[Only].pc \in InFlight
      BY <3>1, OwedCovers DEF DebtInv
    <3>2. CASE check[Only].pc \notin InFlight
      BY <3>2 DEF Owed
    <3>3. QED
      BY <3>1, <3>2
  <2>2. /\ Len(scan) \in Nat /\ Cardinality(Unseen(check[Only])) \in Nat /\ Allowed \in Nat
    BY DebtType
  <2>3. QED
    BY <2>1, <2>2 DEF DebtInv
<1>2. QED
  BY <1>1, FewInvariance, PTL
=============================================================================

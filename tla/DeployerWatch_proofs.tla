------------------------ MODULE DeployerWatch_proofs ------------------------
(* Proofs about DeployerWatch, for every number of contracts, threads and   *)
(* blocks and every cap.                                                    *)
EXTENDS DeployerWatch, FiniteSetTheorems, TLAPS

LEMMA CardinalityIsNat == ASSUME NEW S \in SUBSET Contract PROVE Cardinality(S) \in Nat
BY FS_Subset, FS_CardinalityType, DeployerAssumption

\* A check that is at some point of its code has begun.
LEMMA AtType ==
    ASSUME TypeOK, NEW k \in Checker, check[k].pc # "idle"
    PROVE  check[k] \in Begun /\ check[k] # Idle
BY DEF TypeOK, Check, Idle

----------------------------------------------------------------------------
(* Type correctness.                                                       *)

LEMMA TypeInit == Init => TypeOK
BY DeployerAssumption DEF Init, TypeOK, Block, Check, Idle

LEMMA TypeNext == TypeOK /\ [Next]_vars => TypeOK'
<1> SUFFICES ASSUME TypeOK, [Next]_vars PROVE TypeOK'
  OBVIOUS
<1> USE DEF world, dbase, bounds
<1>1. ASSUME NEW c \in Contract, Ship(c) PROVE TypeOK'
  BY <1>1 DEF Ship, TypeOK, Block
<1>2. ASSUME NEW k \in Checker, Begin(k) PROVE TypeOK'
  BY <1>2, DeployerAssumption DEF Begin, TypeOK, Check, Begun, Block
<1>3. ASSUME NEW k \in Checker, QueryDirect(k) PROVE TypeOK'
  <2>1. check[k] \in Begun
    BY <1>3, AtType DEF QueryDirect
  <2>2. outages' \in Nat
    BY <1>3 DEF QueryDirect, Query, TypeOK
  <2>3. check' \in [Checker -> Check]
    <3>1. PICK F \in SUBSET Contract :
            check' = [check EXCEPT ![k].pc = "internal", ![k].found = F]
      BY <1>3 DEF QueryDirect
    <3>2. QED
      BY <3>1, <2>1 DEF TypeOK, Check, Begun
  <2>4. QED
    BY <1>3, <2>2, <2>3 DEF QueryDirect, TypeOK
<1>4. ASSUME NEW k \in Checker, QueryInternal(k) PROVE TypeOK'
  <2>1. check[k] \in Begun
    BY <1>4, AtType DEF QueryInternal
  <2>2. outages' \in Nat
    BY <1>4 DEF QueryInternal, Query, TypeOK
  <2>3. check' \in [Checker -> Check]
    <3>1. PICK F \in SUBSET Contract, b \in Block :
            check' = [check EXCEPT ![k] = [check[k] EXCEPT !.pc = "next",
                                            !.found = check[k].found \cup F, !.top = b]]
      BY <1>4 DEF QueryInternal, Block
    <3>2. [check[k] EXCEPT !.pc = "next", !.found = check[k].found \cup F, !.top = b] \in Begun
      BY <2>1 DEF Begun
    <3>3. QED
      BY <3>1, <3>2 DEF TypeOK, Check
  <2>4. QED
    BY <1>4, <2>2, <2>3 DEF QueryInternal, TypeOK
<1>5. ASSUME NEW k \in Checker, NEW c \in Contract, SkipKnown(k, c) PROVE TypeOK'
  <2>1. check[k] \in Begun
    BY <1>5, AtType DEF SkipKnown
  <2>2. check' \in [Checker -> Check]
    BY <1>5, <2>1 DEF SkipKnown, TypeOK, Check, Begun
  <2>3. QED
    BY <1>5, <2>2 DEF SkipKnown, TypeOK
<1>6. ASSUME NEW k \in Checker, NEW c \in Contract, Onboard(k, c) PROVE TypeOK'
  <2>1. check[k] \in Begun
    BY <1>6, AtType DEF Onboard
  <2>2. check' \in [Checker -> Check]
    BY <1>6, <2>1 DEF Onboard, TypeOK, Check, Begun
  <2>3. rows' \in [Contract -> Nat] /\ seen' \subseteq Contract
    BY <1>6 DEF Onboard, TypeOK
  <2>4. QED
    BY <1>6, <2>2, <2>3 DEF Onboard, TypeOK
<1>7. ASSUME NEW k \in Checker, CreateRescan(k) PROVE TypeOK'
  <2>1. check[k] \in Begun
    BY <1>7, AtType DEF CreateRescan
  <2>2. check' \in [Checker -> Check] /\ scans' \subseteq Contract
    BY <1>7, <2>1 DEF CreateRescan, TypeOK, Check, Begun
  <2>3. QED
    BY <1>7, <2>2 DEF CreateRescan, TypeOK
<1>8. ASSUME NEW k \in Checker, Announce(k) PROVE TypeOK'
  <2>1. check[k] \in Begun
    BY <1>8, AtType DEF Announce
  <2>2. check' \in [Checker -> Check] /\ announced' \subseteq Contract
    <3> DEFINE R(c) == [check[k] EXCEPT !.pc = "next", !.at = {},
                            !.found = check[k].found \ {c}, !.new = check[k].new \cup {c},
                            !.known = check[k].known \cup {c}, !.last = born[c]]
    <3>1. PICK c \in check[k].at :
            /\ announced' = announced \cup {c}
            /\ check' = [check EXCEPT ![k] = R(c)]
      BY <1>8 DEF Announce
    <3>2. c \in Contract /\ born[c] \in Block
      BY <2>1 DEF TypeOK, Begun
    <3>3. R(c) \in Begun
      BY <3>2, <2>1 DEF Begun
    <3> HIDE DEF R
    <3>4. QED
      BY <3>1, <3>2, <3>3 DEF TypeOK, Check
  <2>3. QED
    BY <1>8, <2>2 DEF Announce, TypeOK
<1>9. ASSUME NEW k \in Checker, Finish(k) PROVE TypeOK'
  <2>1. check[k] \in Begun
    BY <1>9, AtType DEF Finish
  <2>2. cursor' \in Block
    BY <1>9, <2>1 DEF Finish, NewCursor, TypeOK, Begun
  <2>3. count' \in Nat
    BY <1>9, <2>1, CardinalityIsNat DEF Finish, TypeOK, Begun
  <2>4. QED
    BY <1>9, <2>2, <2>3 DEF Finish, TypeOK, Check
<1>10. ASSUME NEW k \in Checker, CheckRaises(k) PROVE TypeOK'
  BY <1>10 DEF CheckRaises, TypeOK, Check
<1>11. ASSUME Crash PROVE TypeOK'
  BY <1>11 DEF Crash, TypeOK, Check
<1>12. CASE UNCHANGED vars
  BY <1>12 DEF vars, TypeOK
<1>13. QED
  BY <1>1, <1>2, <1>3, <1>4, <1>5, <1>6, <1>7, <1>8, <1>9, <1>10, <1>11, <1>12
  DEF Next, CheckStep

\* Every variable of DeployerWatch keeps its type.
THEOREM TypeCorrect == Spec => []TypeOK
<1>1. Init => TypeOK
  BY TypeInit
<1>2. TypeOK /\ [Next]_vars => TypeOK'
  BY TypeNext
<1>3. QED
  BY <1>1, <1>2, PTL DEF Spec

----------------------------------------------------------------------------
(* NoneSkipped, for a deployer that only one of the two queries sees.      *)

\* A check is not disturbed by what others do.
LEMMA Frame ==
    ASSUME TypeOK, NEW j \in Checker, CheckInv(j),
           check'[j] = check[j], born' = born, head' = head, seen \subseteq seen'
    PROVE  CheckInv(j)'
BY DEF CheckInv, BegunInv, QueryInv, LoopInv, From

\* The parts of IInv about the tables, when neither the chain nor the block moves.
LEMMA TablesKept ==
    ASSUME IInv, born' = born, head' = head, cursor' = cursor, rows' = rows, seen' = seen
    PROVE  /\ NoneSkipped' /\ (cursor <= head)'
           /\ (\A c \in Contract : born[c] <= head /\ (rows[c] > 0 => c \in seen))'
BY DEF IInv, NoneSkipped

LEMMA InvInit == Init => IInv
<1> SUFFICES ASSUME Init PROVE IInv
  OBVIOUS
<1>1. TypeOK
  BY TypeInit
<1>2. QED
  BY <1>1 DEF Init, IInv, NoneSkipped, CheckInv

LEMMA ShipInv == ASSUME IInv, TypeOK', NEW c \in Contract, Ship(c) PROVE IInv'
<1> USE DEF dbase, bounds
<1>1. PICK b \in 1..MaxBlock : b >= head /\ head' = b /\ born' = [born EXCEPT ![c] = b]
  BY DEF Ship
<1>2. /\ check' = check /\ cursor' = cursor /\ rows' = rows /\ seen' = seen
      /\ born[c] = 0 /\ b \in Nat /\ head \in Nat /\ cursor \in Nat
      /\ \A d \in Contract : born[d] \in Nat
  BY DEF Ship, IInv, TypeOK, Block
<1>3. \A d \in Contract : born'[d] = IF d = c THEN b ELSE born[d]
  BY <1>1 DEF IInv, TypeOK
<1>4. NoneSkipped' /\ (cursor <= head)'
      /\ (\A d \in Contract : born[d] <= head /\ (rows[d] > 0 => d \in seen))'
  BY <1>1, <1>2, <1>3 DEF IInv, NoneSkipped
<1>5. ASSUME NEW j \in Checker PROVE CheckInv(j)'
  <2>0. SUFFICES ASSUME check[j] # Idle PROVE BegunInv(j)' /\ QueryInv(j)' /\ LoopInv(j)'
    BY <1>2 DEF CheckInv
  <2>1. check[j] \in Begun /\ check'[j] = check[j]
    BY <1>2, <2>0 DEF IInv, TypeOK, Check
  <2>2. BegunInv(j) /\ QueryInv(j) /\ LoopInv(j)
    BY <2>0 DEF IInv, CheckInv
  <2>3. /\ check[j].start \in Nat /\ check[j].top \in Nat /\ check[j].last \in Nat
        /\ check[j].start <= head /\ check[j].top <= head
        /\ check[j].found \subseteq Contract /\ check[j].at \subseteq Contract
    BY <2>1, <2>2 DEF Begun, BegunInv, Block
  <2>4. c \notin check[j].found /\ \A d \in check[j].found : born'[d] = born[d] /\ born[d] <= head
    BY <1>2, <1>3, <2>2, <2>3 DEF BegunInv, From, IInv
  <2>5. BegunInv(j)'
    BY <1>1, <1>2, <1>3, <2>1, <2>2, <2>3, <2>4 DEF BegunInv, From
  <2>6. QueryInv(j)'
    BY <1>1, <1>2, <1>3, <2>1, <2>2, <2>3, <2>4 DEF QueryInv, From
  <2>7. LoopInv(j)'
    BY <1>1, <1>2, <1>3, <2>1, <2>2, <2>3, <2>4 DEF LoopInv, From
  <2>8. QED
    BY <2>5, <2>6, <2>7
<1>6. QED
  BY <1>4, <1>5 DEF IInv

\* What a step of one check has to show.
LEMMA CheckStepInv ==
    ASSUME IInv, TypeOK', NEW k \in Checker,
           born' = born, head' = head, seen \subseteq seen', cursor' \in Nat, cursor' <= head,
           NoneSkipped',
           \A c \in Contract : rows'[c] > 0 => c \in seen',
           \A j \in Checker \ {k} : check'[j] = check[j],
           CheckInv(k)'
    PROVE  IInv'
<1>1. ASSUME NEW j \in Checker, j # k PROVE CheckInv(j)'
  BY <1>1, Frame DEF IInv
<1>2. QED
  BY <1>1 DEF IInv

\* A step that moves neither the block nor the rows.
LEMMA QuietStepInv ==
    ASSUME IInv, TypeOK', NEW k \in Checker,
           born' = born, head' = head, seen' = seen, cursor' = cursor, rows' = rows,
           \A j \in Checker \ {k} : check'[j] = check[j],
           CheckInv(k)'
    PROVE  IInv'
<1>1. cursor \in Nat /\ cursor <= head
  BY DEF IInv, TypeOK, Block
<1>2. NoneSkipped' /\ \A c \in Contract : rows'[c] > 0 => c \in seen'
  BY DEF IInv, NoneSkipped
<1>3. QED
  BY <1>1, <1>2, CheckStepInv

\* Where a check has got to, in one place: its type and its invariant.
LEMMA AtInv ==
    ASSUME IInv, NEW k \in Checker, check[k].pc # "idle"
    PROVE  /\ check[k] \in Begun
           /\ BegunInv(k) /\ QueryInv(k) /\ LoopInv(k)
           /\ check[k].start \in Nat /\ check[k].top \in Nat /\ check[k].last \in Nat
           /\ check[k].found \subseteq Contract /\ check[k].at \subseteq Contract
           /\ \A c \in Contract : born[c] \in Nat /\ born[c] <= head
           /\ head \in Nat
<1>1. check[k] \in Begun /\ check[k] # Idle
  BY AtType DEF IInv
<1>2. QED
  BY <1>1 DEF IInv, CheckInv, Begun, TypeOK, Block

LEMMA BeginInv == ASSUME IInv, TypeOK', NEW k \in Checker, Begin(k) PROVE IInv'
<1> USE DEF world, dbase, bounds
<1> DEFINE K == {c \in Contract : rows[c] > 0}
<1>1. check'[k] = [pc |-> "direct", start |-> cursor, known |-> K,
                   found |-> {}, top |-> 0, last |-> 0, new |-> {}, at |-> {}]
  BY DEF Begin, IInv, TypeOK
<1>2. K \subseteq seen /\ head \in Nat /\ cursor <= head /\ NoneSkipped
  BY DEF IInv, TypeOK, Block
<1> HIDE DEF K
<1>3. CheckInv(k)'
  BY <1>1, <1>2 DEF Begin, CheckInv, BegunInv, QueryInv, LoopInv, NoneSkipped
<1>4. QED
  BY <1>3, QuietStepInv DEF Begin, IInv, TypeOK

LEMMA QueryDirectInv ==
    ASSUME Uniform, IInv, TypeOK', NEW k \in Checker, QueryDirect(k) PROVE IInv'
<1> USE DEF world, dbase, bounds
<1>1. PICK F \in SUBSET Contract :
        /\ Query(k, Contract \ Factory, F)
        /\ check' = [check EXCEPT ![k].pc = "internal", ![k].found = F]
  BY DEF QueryDirect
<1>2. /\ check[k].pc = "direct"
      /\ born' = born /\ head' = head /\ seen' = seen /\ cursor' = cursor /\ rows' = rows
      /\ \A j \in Checker \ {k} : check'[j] = check[j]
  BY DEF QueryDirect, IInv, TypeOK
<1>3. /\ check[k] \in Begun /\ BegunInv(k) /\ QueryInv(k)
      /\ check[k].start \in Nat /\ head \in Nat /\ \A c \in Contract : born[c] \in Nat
  BY <1>2, AtInv
<1>4. check'[k] = [check[k] EXCEPT !.pc = "internal", !.found = F]
  BY <1>1 DEF IInv, TypeOK
<1>5. /\ check'[k].pc = "internal" /\ check'[k].found = F
      /\ check'[k].start = check[k].start /\ check'[k].known = check[k].known
      /\ check'[k].top = 0 /\ check'[k].last = 0 /\ check'[k].at = {} /\ check'[k].new = {}
  BY <1>2, <1>3, <1>4 DEF Begun, QueryInv
<1>6. F = {} \/ F = Shipped(check[k].start, Contract \ Factory)
  BY <1>1 DEF Query
<1>7. BegunInv(k)'
  BY <1>2, <1>3, <1>5, <1>6 DEF BegunInv, From, Shipped
<1>8. QueryInv(k)'
  <2>1. Factory = Contract => F = {}
    BY <1>6 DEF Shipped
  <2>2. ASSUME NEW c \in Contract \ F, NEW d \in F, From(check[k].start, c)
        PROVE  born[d] <= born[c]
    BY <2>2, <1>6 DEF Shipped, From, Uniform
  <2>3. QED
    BY <1>2, <1>5, <2>1, <2>2 DEF QueryInv, From
<1>9. CheckInv(k)'
  BY <1>5, <1>7, <1>8 DEF CheckInv, LoopInv
<1>10. QED
  BY <1>2, <1>9, QuietStepInv

LEMMA QueryInternalInv ==
    ASSUME Uniform, IInv, TypeOK', NEW k \in Checker, QueryInternal(k) PROVE IInv'
<1> USE DEF world, dbase, bounds
<1>1. PICK F \in SUBSET Contract, b \in 0..MaxBlock :
        /\ Query(k, Factory, F)
        /\ IsTop(b, check[k].found \cup F)
        /\ check' = [check EXCEPT ![k] = [check[k] EXCEPT !.pc = "next",
                                            !.found = @ \cup F, !.top = b]]
  BY DEF QueryInternal
<1>2. /\ check[k].pc = "internal"
      /\ born' = born /\ head' = head /\ seen' = seen /\ cursor' = cursor /\ rows' = rows
      /\ \A j \in Checker \ {k} : check'[j] = check[j]
  BY <1>1 DEF QueryInternal, IInv, TypeOK
<1>3. /\ check[k] \in Begun /\ BegunInv(k) /\ QueryInv(k)
      /\ check[k].start \in Nat /\ \A c \in Contract : born[c] \in Nat /\ born[c] <= head
      /\ check[k].found \subseteq Contract /\ head \in Nat
  BY <1>2, AtInv
<1> DEFINE G == check[k].found \cup F
<1>4. check'[k] = [check[k] EXCEPT !.pc = "next", !.found = G, !.top = b]
  BY <1>1 DEF IInv, TypeOK
<1>5. /\ check'[k].pc = "next" /\ check'[k].found = G /\ check'[k].top = b
      /\ check'[k].start = check[k].start /\ check'[k].known = check[k].known
      /\ check'[k].last = 0 /\ check'[k].at = {} /\ check'[k].new = {}
  BY <1>2, <1>3, <1>4 DEF Begun, QueryInv
<1>6. F = {} \/ F = Shipped(check[k].start, Factory)
  BY <1>1 DEF Query
<1>7. b \in Nat /\ b <= head /\ G \subseteq Contract /\ (G = {} => b = 0) /\ \A c \in G : born[c] <= b
  BY <1>1, <1>3 DEF IsTop
<1>8. \A c \in G : From(check[k].start, c)
  BY <1>3, <1>6 DEF BegunInv, From, Shipped
<1>9. ASSUME NEW c \in Contract \ G, From(check[k].start, c) PROVE b <= born[c]
  <2>1. CASE Factory = {}
    <3>1. G = check[k].found
      BY <1>6, <2>1 DEF Shipped
    <3>2. CASE G = {}
      BY <1>3, <1>7, <3>2
    <3>3. CASE G # {}
      <4>1. PICK d \in G : born[d] = b
        BY <1>1, <3>3 DEF IsTop
      <4>2. QED
        BY <1>2, <1>3, <1>9, <3>1, <4>1 DEF QueryInv
    <3>4. QED
      BY <3>2, <3>3
  <2>2. CASE Factory = Contract
    <3>1. G = F
      BY <1>2, <1>3, <2>2 DEF QueryInv
    <3>2. F = {}
      BY <1>6, <1>9, <2>2, <3>1 DEF Shipped, From
    <3>3. QED
      BY <1>3, <1>7, <3>1, <3>2
  <2>3. QED
    BY <2>1, <2>2 DEF Uniform
<1> HIDE DEF G
<1>10. BegunInv(k)'
  BY <1>2, <1>3, <1>5, <1>7, <1>8 DEF BegunInv, From
<1>11. LoopInv(k)'
  BY <1>2, <1>3, <1>5, <1>7, <1>9 DEF LoopInv, From
<1>12. CheckInv(k)'
  BY <1>5, <1>10, <1>11 DEF CheckInv, QueryInv
<1>13. QED
  BY <1>2, <1>12, QuietStepInv

LEMMA SkipKnownInv ==
    ASSUME IInv, TypeOK', NEW k \in Checker, NEW c \in Contract, SkipKnown(k, c) PROVE IInv'
<1> USE DEF world, dbase, bounds
<1>1. /\ check[k].pc = "next" /\ c \in check[k].known /\ IsNext(k, c)
      /\ born' = born /\ head' = head /\ seen' = seen /\ cursor' = cursor /\ rows' = rows
      /\ \A j \in Checker \ {k} : check'[j] = check[j]
  BY DEF SkipKnown, IInv, TypeOK
<1>2. /\ check[k] \in Begun /\ BegunInv(k) /\ QueryInv(k) /\ LoopInv(k)
  BY <1>1, AtInv
<1>3. check'[k] = [check[k] EXCEPT !.found = @ \ {c}]
  BY DEF SkipKnown, IInv, TypeOK
<1>4. /\ check'[k].pc = "next" /\ check'[k].found = check[k].found \ {c}
      /\ check'[k].start = check[k].start /\ check'[k].known = check[k].known
      /\ check'[k].last = check[k].last /\ check'[k].at = check[k].at
      /\ check'[k].new = check[k].new /\ check'[k].top = check[k].top
  BY <1>1, <1>2, <1>3 DEF Begun
<1>5. c \in seen
  BY <1>1, <1>2 DEF BegunInv
<1>6. check[k].at = {}
  BY <1>1, <1>2 DEF LoopInv
<1>7. BegunInv(k)'
  BY <1>1, <1>2, <1>4 DEF BegunInv, From
<1>8. LoopInv(k)'
  BY <1>1, <1>2, <1>4, <1>5, <1>6 DEF LoopInv, From
<1>9. CheckInv(k)'
  BY <1>4, <1>7, <1>8 DEF CheckInv, QueryInv
<1>10. QED
  BY <1>1, <1>9, QuietStepInv

LEMMA OnboardInv ==
    ASSUME IInv, TypeOK', NEW k \in Checker, NEW c \in Contract, Onboard(k, c) PROVE IInv'
<1> USE DEF world, dbase, bounds
<1>1. /\ check[k].pc = "next" /\ IsNext(k, c)
      /\ born' = born /\ head' = head /\ cursor' = cursor
      /\ seen' = seen \cup {c} /\ rows' = [rows EXCEPT ![c] = @ + 1]
      /\ \A j \in Checker \ {k} : check'[j] = check[j]
  BY DEF Onboard, IInv, TypeOK
<1>2. /\ check[k] \in Begun /\ BegunInv(k) /\ QueryInv(k) /\ LoopInv(k)
  BY <1>1, AtInv
<1>3. check'[k] = [check[k] EXCEPT !.pc = "scan", !.at = {c}]
  BY DEF Onboard, IInv, TypeOK
<1>4. /\ check'[k].pc = "scan" /\ check'[k].found = check[k].found
      /\ check'[k].start = check[k].start /\ check'[k].known = check[k].known
      /\ check'[k].last = check[k].last /\ check'[k].at = {c}
      /\ check'[k].new = check[k].new /\ check'[k].top = check[k].top
  BY <1>1, <1>2, <1>3 DEF Begun
<1>5. BegunInv(k)'
  BY <1>1, <1>2, <1>4 DEF BegunInv, From
<1>6. LoopInv(k)'
  BY <1>1, <1>2, <1>4 DEF LoopInv, From, IsNext
<1>7. CheckInv(k)'
  BY <1>4, <1>5, <1>6 DEF CheckInv, QueryInv
<1>8. \A d \in Contract : rows'[d] > 0 => d \in seen'
  BY <1>1 DEF IInv, TypeOK
<1>9. NoneSkipped' /\ cursor' \in Nat /\ cursor' <= head
  BY <1>1 DEF IInv, NoneSkipped, TypeOK, Block
<1>10. QED
  BY <1>1, <1>7, <1>8, <1>9, CheckStepInv

LEMMA CreateRescanInv ==
    ASSUME IInv, TypeOK', NEW k \in Checker, CreateRescan(k) PROVE IInv'
<1> USE DEF world, dbase, bounds
<1>1. /\ check[k].pc = "scan"
      /\ born' = born /\ head' = head /\ seen' = seen /\ cursor' = cursor /\ rows' = rows
      /\ \A j \in Checker \ {k} : check'[j] = check[j]
  BY DEF CreateRescan, IInv, TypeOK
<1>2. /\ check[k] \in Begun /\ BegunInv(k) /\ QueryInv(k) /\ LoopInv(k)
  BY <1>1, AtInv
<1>3. check'[k] = [check[k] EXCEPT !.pc = "event"]
  BY DEF CreateRescan, IInv, TypeOK
<1>4. /\ check'[k].pc = "event" /\ check'[k].found = check[k].found
      /\ check'[k].start = check[k].start /\ check'[k].known = check[k].known
      /\ check'[k].last = check[k].last /\ check'[k].at = check[k].at
      /\ check'[k].new = check[k].new /\ check'[k].top = check[k].top
  BY <1>1, <1>2, <1>3 DEF Begun
<1>5. BegunInv(k)' /\ LoopInv(k)'
  BY <1>1, <1>2, <1>4 DEF BegunInv, LoopInv, From
<1>6. CheckInv(k)'
  BY <1>4, <1>5 DEF CheckInv, QueryInv
<1>7. QED
  BY <1>1, <1>6, QuietStepInv

LEMMA AnnounceInv ==
    ASSUME IInv, TypeOK', NEW k \in Checker, Announce(k) PROVE IInv'
<1> USE DEF world, dbase, bounds
<1>1. PICK c \in check[k].at :
        check' = [check EXCEPT ![k] =
            [check[k] EXCEPT !.pc = "next", !.at = {}, !.found = @ \ {c}, !.new = @ \cup {c},
                             !.known = @ \cup {c}, !.last = born[c]]]
  BY DEF Announce
<1>2. /\ check[k].pc = "event"
      /\ born' = born /\ head' = head /\ seen' = seen /\ cursor' = cursor /\ rows' = rows
      /\ \A j \in Checker \ {k} : check'[j] = check[j]
  BY <1>1 DEF Announce, IInv, TypeOK
<1>3. /\ check[k] \in Begun /\ BegunInv(k) /\ LoopInv(k)
      /\ check[k].found \subseteq Contract /\ check[k].start \in Nat
      /\ \A d \in Contract : born[d] \in Nat
  BY <1>2, AtInv
<1>4. check'[k] = [check[k] EXCEPT !.pc = "next", !.at = {}, !.found = @ \ {c},
                     !.new = @ \cup {c}, !.known = @ \cup {c}, !.last = born[c]]
  BY <1>1 DEF IInv, TypeOK
<1>5. /\ check'[k].pc = "next" /\ check'[k].found = check[k].found \ {c}
      /\ check'[k].start = check[k].start /\ check'[k].known = check[k].known \cup {c}
      /\ check'[k].last = born[c] /\ check'[k].at = {}
      /\ check'[k].new = check[k].new \cup {c} /\ check'[k].top = check[k].top
  BY <1>2, <1>3, <1>4 DEF Begun
<1>6. /\ c \in seen /\ c \in check[k].found /\ born[c] # 0 /\ born[c] <= check[k].top
      /\ \A d \in check[k].found : born[c] <= born[d]
  BY <1>2, <1>3 DEF LoopInv, BegunInv, From
<1>7. BegunInv(k)'
  BY <1>2, <1>3, <1>5, <1>6 DEF BegunInv, From
<1>8. LoopInv(k)'
  BY <1>2, <1>3, <1>5, <1>6 DEF LoopInv, From
<1>9. CheckInv(k)'
  BY <1>5, <1>7, <1>8 DEF CheckInv, QueryInv
<1>10. QED
  BY <1>2, <1>9, QuietStepInv

\* The next check asks from a block below which nothing was missed.
LEMMA FinishInv ==
    ASSUME IInv, TypeOK', NEW k \in Checker, Finish(k) PROVE IInv'
<1> USE DEF world, dbase, bounds
<1>1. /\ check[k].pc = "next" /\ LoopEnds(k) /\ cursor' = NewCursor(k)
      /\ born' = born /\ head' = head /\ seen' = seen /\ rows' = rows
      /\ check'[k] = Idle /\ \A j \in Checker \ {k} : check'[j] = check[j]
  BY DEF Finish, IInv, TypeOK
<1>2. /\ check[k] \in Begun /\ BegunInv(k) /\ LoopInv(k)
      /\ check[k].start \in Nat /\ check[k].top \in Nat /\ check[k].last \in Nat
      /\ \A c \in Contract : born[c] \in Nat
      /\ head \in Nat
  BY <1>1, AtInv
<1>3. cursor \in Nat /\ cursor <= head /\ NoneSkipped
  BY DEF IInv, TypeOK, Block
<1>4. cursor' \in Nat /\ cursor' <= head
  BY <1>1, <1>2, <1>3 DEF NewCursor, BegunInv, LoopInv
<1>5. NoneSkipped'
  <2>1. CASE cursor' = cursor
    BY <1>1, <1>3, <2>1 DEF NoneSkipped
  <2>2. CASE check[k].last # 0 /\ cursor' = check[k].last
    BY <1>1, <1>2, <2>2 DEF NoneSkipped, BegunInv, LoopInv, From
  <2>3. CASE check[k].last = 0 /\ cursor' = check[k].top
    <3>1. check[k].new = {}
      BY <1>1, <1>2, <2>3 DEF LoopInv
    <3>2. Cardinality(check[k].new) = 0
      BY <3>1, FS_EmptySet
    <3>3. check[k].found = {}
      BY <1>1, <3>2, DeployerAssumption DEF LoopEnds
    <3>4. QED
      BY <1>1, <1>2, <2>3, <3>3 DEF NoneSkipped, BegunInv, LoopInv, From
  <2>4. QED
    BY <1>1, <2>1, <2>2, <2>3 DEF NewCursor
<1>6. CheckInv(k)' /\ \A c \in Contract : rows'[c] > 0 => c \in seen'
  BY <1>1 DEF CheckInv, IInv
<1>7. QED
  BY <1>1, <1>4, <1>5, <1>6, CheckStepInv

LEMMA InvNext == Uniform /\ IInv /\ [Next]_vars => IInv'
<1> SUFFICES ASSUME Uniform, IInv, [Next]_vars PROVE IInv'
  OBVIOUS
<1>0. TypeOK'
  BY TypeNext DEF IInv
<1>1. ASSUME NEW k \in Checker, CheckRaises(k) PROVE IInv'
  <2>1. /\ born' = born /\ head' = head /\ seen' = seen /\ cursor' = cursor /\ rows' = rows
        /\ check'[k] = Idle /\ \A j \in Checker \ {k} : check'[j] = check[j]
    BY <1>1 DEF CheckRaises, IInv, TypeOK, world, dbase
  <2>2. QED
    BY <1>0, <2>1, QuietStepInv DEF CheckInv
<1>2. CASE Crash
  <2>1. /\ born' = born /\ head' = head /\ seen' = seen /\ cursor' = cursor /\ rows' = rows
        /\ \A j \in Checker : check'[j] = Idle
    BY <1>2 DEF Crash, world, dbase
  <2>2. QED
    BY <1>0, <2>1, TablesKept DEF IInv, CheckInv
<1>3. CASE UNCHANGED vars
  <2>1. /\ born' = born /\ head' = head /\ seen' = seen /\ cursor' = cursor /\ rows' = rows
        /\ check' = check
    BY <1>3 DEF vars, world, dbase
  <2>2. \A k \in Checker : CheckInv(k)'
    BY <2>1, Frame DEF IInv
  <2>3. QED
    BY <1>0, <2>1, <2>2, TablesKept DEF IInv
<1>4. QED
  BY <1>0, <1>1, <1>2, <1>3, ShipInv, BeginInv, QueryDirectInv, QueryInternalInv, SkipKnownInv,
     OnboardInv, CreateRescanInv, AnnounceInv, FinishInv DEF Next, CheckStep

\* The inductive invariant of the checks of one deployer, all of whose
\* contracts are found by one of the two queries: under any number of threads,
\* cap, outages, exceptions and crashes.
THEOREM Invariance == ASSUME Uniform PROVE Spec => []IInv
<1>1. Init => IInv
  BY InvInit
<1>2. IInv /\ [Next]_vars => IInv'
  BY InvNext
<1>3. QED
  BY <1>1, <1>2, PTL DEF Spec

\* No contract that was shipped before the block from which the next check
\* asks was left off the watchlist.
THEOREM NoneSkippedCorrect == ASSUME Uniform PROVE Spec => []NoneSkipped
<1>1. IInv => NoneSkipped
  BY DEF IInv
<1>2. QED
  BY <1>1, Invariance, PTL

----------------------------------------------------------------------------
(* WatchedOnce: a check that may still put a contract on the watchlist is  *)
(* one that began before the contract had a row.                           *)

Open(c) == {k \in Checker : check[k] # Idle /\ c \notin check[k].known \cup check[k].at}

Counted(c) == rows[c] > 0 => rows[c] + Cardinality(Open(c)) <= Cardinality(Checker)

\* The contract a check is writing rows for.
OneAtATime(k) ==
    check[k] # Idle =>
        /\ check[k].pc \in {"direct", "internal", "next"} => check[k].at = {}
        /\ \A c, d \in check[k].at : c = d

OnceInv == (\A k \in Checker : OneAtATime(k)) /\ \A c \in Contract : Counted(c)

LEMMA Sizes ==
    /\ Cardinality(Checker) \in Nat
    /\ \A S, T \in SUBSET Checker : S \subseteq T =>
         (Cardinality(S) \in Nat /\ Cardinality(T) \in Nat /\ Cardinality(S) <= Cardinality(T))
    /\ \A S \in SUBSET Checker : \A k \in S : Cardinality(S \ {k}) = Cardinality(S) - 1
<1>1. IsFiniteSet(Checker) /\ \A S \in SUBSET Checker : IsFiniteSet(S)
  BY DeployerAssumption, FS_Subset
<1>2. \A S, T \in SUBSET Checker : S \subseteq T =>
         Cardinality(S) \in Nat /\ Cardinality(T) \in Nat /\ Cardinality(S) <= Cardinality(T)
  BY <1>1, FS_Subset, FS_CardinalityType
<1>3. \A S \in SUBSET Checker : \A k \in S : Cardinality(S \ {k}) = Cardinality(S) - 1
  BY <1>1, FS_RemoveElement
<1>4. QED
  BY <1>1, <1>2, <1>3, FS_CardinalityType

\* A step of one thread that adds no row.
LEMMA NoRowStep ==
    ASSUME TypeOK, OnceInv, NEW k \in Checker, rows' = rows,
           \A j \in Checker \ {k} : check'[j] = check[j], OneAtATime(k)',
           \A c \in Contract : rows[c] > 0 /\ k \in Open(c)' => k \in Open(c)
    PROVE  OnceInv'
<1>1. ASSUME NEW c \in Contract PROVE Counted(c)'
  <2>1. SUFFICES ASSUME rows[c] > 0
                 PROVE  rows[c] + Cardinality(Open(c)') <= Cardinality(Checker)
    BY DEF Counted
  <2>2. Open(c)' \subseteq Open(c) /\ Open(c) \subseteq Checker
    BY <2>1 DEF Open
  <2> DEFINE new == Open(c)'
             old == Open(c)
  <2>3. rows[c] \in Nat /\ rows[c] + Cardinality(old) <= Cardinality(Checker)
    BY <2>1 DEF OnceInv, Counted, TypeOK
  <2>4. new \subseteq old /\ new \in SUBSET Checker /\ old \in SUBSET Checker
    BY <2>2
  <2> HIDE DEF new, old
  <2>5. Cardinality(new) <= Cardinality(old) /\ Cardinality(new) \in Nat /\ Cardinality(old) \in Nat
    BY <2>4, Sizes
  <2>6. rows[c] + Cardinality(new) <= Cardinality(Checker)
    BY <2>3, <2>5, Sizes
  <2>7. QED
    BY <2>6 DEF new
<1>2. ASSUME NEW j \in Checker PROVE OneAtATime(j)'
  BY DEF OnceInv, OneAtATime
<1>3. QED
  BY <1>1, <1>2 DEF OnceInv

LEMMA OnboardOnce ==
    ASSUME TypeOK, OnceInv, NEW k \in Checker, NEW c \in Contract, Onboard(k, c) PROVE OnceInv'
<1>1. check[k] \in Begun /\ check[k] # Idle /\ check[k].at = {}
  BY AtType DEF Onboard, OnceInv, OneAtATime
<1>2. /\ check'[k] = [check[k] EXCEPT !.pc = "scan", !.at = {c}]
      /\ \A j \in Checker \ {k} : check'[j] = check[j]
      /\ c \notin check[k].known
  BY DEF Onboard, TypeOK
<1>3. /\ check'[k] # Idle /\ check'[k].at = {c} /\ check'[k].known = check[k].known /\ check'[k].pc = "scan"
  BY <1>1, <1>2 DEF Begun, Idle
<1>4. ASSUME NEW j \in Checker PROVE OneAtATime(j)'
  <2>1. OneAtATime(k)'
    BY <1>3 DEF OneAtATime
  <2>2. j # k => OneAtATime(j)'
    BY <1>2 DEF OnceInv, OneAtATime
  <2>3. QED
    BY <2>1, <2>2
<1>5. ASSUME NEW d \in Contract PROVE Counted(d)'
  <2> DEFINE new == Open(d)'
             old == Open(d)
  <2>1. new \subseteq old /\ old \in SUBSET Checker /\ new \in SUBSET Checker
    BY <1>1, <1>2, <1>3 DEF Open
  <2>2. d = c => k \in old /\ new \subseteq old \ {k}
    BY <1>1, <1>2, <1>3 DEF Open
  <2>3. /\ rows[d] \in Nat /\ rows'[d] = IF d = c THEN rows[d] + 1 ELSE rows[d]
        /\ rows[d] > 0 => rows[d] + Cardinality(old) <= Cardinality(Checker)
    BY DEF Onboard, TypeOK, OnceInv, Counted
  <2> HIDE DEF new, old
  <2>4. /\ Cardinality(new) \in Nat /\ Cardinality(old) \in Nat /\ Cardinality(new) <= Cardinality(old)
        /\ Cardinality(old) <= Cardinality(Checker) /\ Cardinality(Checker) \in Nat
    BY <2>1, Sizes
  <2>5. d = c => Cardinality(new) <= Cardinality(old) - 1
    <3>1. SUFFICES ASSUME d = c PROVE Cardinality(new) <= Cardinality(old) - 1
      OBVIOUS
    <3>2. Cardinality(old \ {k}) = Cardinality(old) - 1
      BY <2>1, <2>2, <3>1, Sizes
    <3>3. old \ {k} \in SUBSET Checker /\ new \subseteq old \ {k}
      BY <2>1, <2>2, <3>1
    <3>4. Cardinality(new) <= Cardinality(old \ {k})
      BY <2>1, <3>3, Sizes
    <3>5. QED
      BY <3>2, <3>4
  <2>6. rows'[d] > 0 => rows'[d] + Cardinality(new) <= Cardinality(Checker)
    BY <2>3, <2>4, <2>5
  <2>7. QED
    BY <2>6 DEF Counted, new
<1>6. QED
  BY <1>4, <1>5 DEF OnceInv

LEMMA OnceNext == TypeOK /\ OnceInv /\ [Next]_vars => OnceInv'
<1> SUFFICES ASSUME TypeOK, OnceInv, [Next]_vars PROVE OnceInv'
  OBVIOUS
<1> USE DEF dbase
<1>1. ASSUME NEW k \in Checker, Begin(k) PROVE OnceInv'
  <2>1. /\ check'[k].known = {c \in Contract : rows[c] > 0} /\ check'[k].at = {}
        /\ \A j \in Checker \ {k} : check'[j] = check[j]
        /\ rows' = rows
    BY <1>1 DEF Begin, TypeOK
  <2>2. \A c \in Contract : rows[c] > 0 => k \notin Open(c)'
    BY <2>1 DEF Open
  <2>3. QED
    BY <2>1, <2>2, NoRowStep DEF OneAtATime
<1>2. ASSUME NEW k \in Checker, CheckRaises(k) PROVE OnceInv'
  <2>1. check'[k] = Idle /\ rows' = rows /\ \A j \in Checker \ {k} : check'[j] = check[j]
    BY <1>2 DEF CheckRaises, TypeOK
  <2>2. QED
    BY <2>1, NoRowStep DEF OneAtATime, Open
<1>3. ASSUME NEW k \in Checker,
             \/ QueryDirect(k) \/ QueryInternal(k) \/ CreateRescan(k)
             \/ \E c \in Contract : SkipKnown(k, c)
      PROVE  OnceInv'
  <2>1. check[k] \in Begun /\ check[k] # Idle
    BY <1>3, AtType DEF QueryDirect, QueryInternal, CreateRescan, SkipKnown
  <2>2. /\ rows' = rows /\ check'[k].known = check[k].known /\ check'[k].at = check[k].at
        /\ check'[k].pc \in {"direct", "internal", "next"} =>
              check[k].pc \in {"direct", "internal", "next"}
        /\ \A j \in Checker \ {k} : check'[j] = check[j]
    <3>1. CASE QueryDirect(k)
      BY <2>1, <3>1 DEF QueryDirect, TypeOK, Begun
    <3>2. CASE QueryInternal(k)
      BY <2>1, <3>2 DEF QueryInternal, TypeOK, Begun
    <3>3. CASE CreateRescan(k)
      BY <2>1, <3>3 DEF CreateRescan, TypeOK, Begun
    <3>4. ASSUME NEW c \in Contract, SkipKnown(k, c)
          PROVE  /\ rows' = rows /\ check'[k].known = check[k].known /\ check'[k].at = check[k].at
                 /\ check'[k].pc = check[k].pc /\ \A j \in Checker \ {k} : check'[j] = check[j]
      BY <2>1, <3>4 DEF SkipKnown, TypeOK, Begun
    <3>5. QED
      BY <1>3, <3>1, <3>2, <3>3, <3>4
  <2>3. OneAtATime(k)' /\ \A c \in Contract : k \in Open(c)' => k \in Open(c)
    BY <2>1, <2>2 DEF OnceInv, OneAtATime, Open
  <2>4. QED
    BY <2>2, <2>3, NoRowStep
<1>4. ASSUME NEW k \in Checker, Announce(k) PROVE OnceInv'
  <2>1. check[k] \in Begun /\ check[k] # Idle
    BY <1>4, AtType DEF Announce
  <2>2. PICK c \in check[k].at :
          /\ check' = [check EXCEPT ![k] =
                [check[k] EXCEPT !.pc = "next", !.at = {}, !.found = @ \ {c}, !.new = @ \cup {c},
                                 !.known = @ \cup {c}, !.last = born[c]]]
          /\ rows' = rows
    BY <1>4 DEF Announce
  <2>3. /\ check'[k].at = {} /\ check'[k].known = check[k].known \cup {c}
        /\ \A j \in Checker \ {k} : check'[j] = check[j]
    BY <2>1, <2>2 DEF TypeOK, Begun
  <2>4. check[k].at = {c}
    BY <2>1, <2>2 DEF OnceInv, OneAtATime
  <2>5. OneAtATime(k)' /\ \A d \in Contract : k \in Open(d)' => k \in Open(d)
    BY <2>1, <2>3, <2>4 DEF OneAtATime, Open
  <2>6. QED
    BY <2>2, <2>3, <2>5, NoRowStep
<1>5. ASSUME NEW k \in Checker, Finish(k) PROVE OnceInv'
  <2>1. check'[k] = Idle /\ rows' = rows /\ \A j \in Checker \ {k} : check'[j] = check[j]
    BY <1>5 DEF Finish, TypeOK
  <2>2. QED
    BY <2>1, NoRowStep DEF OneAtATime, Open
<1>6. CASE (\E c \in Contract : Ship(c)) \/ UNCHANGED vars
  <2>1. check' = check /\ rows' = rows
    BY <1>6 DEF Ship, vars
  <2>2. (\A c \in Contract : Open(c)' = Open(c)) /\ \A j \in Checker : OneAtATime(j)'
    BY <2>1 DEF Open, OnceInv, OneAtATime
  <2>3. QED
    BY <2>1, <2>2 DEF OnceInv, Counted
<1>7. CASE Crash
  <2>1. rows' = rows /\ \A j \in Checker : check'[j] = Idle
    BY <1>7 DEF Crash
  <2>2. \A j \in Checker : OneAtATime(j)'
    BY <2>1 DEF OneAtATime
  <2>3. ASSUME NEW c \in Contract PROVE Counted(c)'
    <3>1. Open(c)' = {}
      BY <2>1 DEF Open
    <3>2. {} \subseteq Open(c) /\ Open(c) \in SUBSET Checker /\ {} \in SUBSET Checker
      BY DEF Open
    <3>3. /\ Cardinality({}) <= Cardinality(Open(c)) /\ Cardinality({}) \in Nat
          /\ Cardinality(Open(c)) \in Nat
      BY <3>2, Sizes
    <3>4. rows[c] \in Nat /\ Cardinality(Checker) \in Nat
      BY Sizes DEF TypeOK
    <3>5. QED
      BY <2>1, <3>1, <3>3, <3>4 DEF OnceInv, Counted
  <2>4. QED
    BY <2>2, <2>3 DEF OnceInv
<1>8. QED
  BY <1>1, <1>2, <1>3, <1>4, <1>5, <1>6, <1>7, OnboardOnce DEF Next, CheckStep

\* A contract is put on the watchlist at most once by each thread that checks,
\* whatever they overlap, and whatever fails.
THEOREM OnceCorrect == Spec => []WatchedOnce
<1>1. Init => OnceInv
  BY DEF Init, OnceInv, OneAtATime, Counted
<1>2. TypeOK /\ OnceInv => WatchedOnce
  <2> SUFFICES ASSUME TypeOK, OnceInv, NEW c \in Contract PROVE rows[c] <= Cardinality(Checker)
    BY DEF WatchedOnce
  <2>1. Open(c) \in SUBSET Checker /\ rows[c] \in Nat
    BY DEF Open, TypeOK
  <2>2. Cardinality(Open(c)) \in Nat /\ Cardinality(Checker) \in Nat
    BY <2>1, Sizes
  <2>3. QED
    BY <2>1, <2>2 DEF OnceInv, Counted
<1>3. QED
  BY <1>1, <1>2, OnceNext, TypeInit, TypeNext, PTL DEF Spec
=============================================================================

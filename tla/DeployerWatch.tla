--------------------------- MODULE DeployerWatch ---------------------------
(***************************************************************************)
(* The watch on one deployer: each check asks the explorer what it shipped *)
(* since a block, in two queries (transactions of its own, and creations   *)
(* inside other transactions), puts every contract that is new on the      *)
(* watchlist, up to a cap, creates a rescan for it, and moves the block    *)
(* from which the next check asks.                                         *)
(*                                                                         *)
(* One action is one query or one session with the database.               *)
(***************************************************************************)
EXTENDS Integers, FiniteSets

CONSTANTS
    Contract,       \* what the deployer ships
    Factory,        \* those it ships through another contract
    MaxBlock,       \* bound: blocks
    Checker,        \* threads that check: the monitor's loop, check_deployer_now
    Cap,            \* settings.max_new_deploys_per_check, not 0
    MaxOutages,     \* bound: queries that give no answer
    MaxCrashes,     \* bound: deaths of the server
    MaxFaults       \* bound: exceptions that end a check

ASSUME DeployerAssumption ==
    /\ IsFiniteSet(Contract) /\ Factory \subseteq Contract /\ IsFiniteSet(Checker)
    /\ MaxBlock \in Nat /\ Cap \in Nat \ {0}
    /\ MaxOutages \in Nat /\ MaxCrashes \in Nat /\ MaxFaults \in Nat

VARIABLES
    born,       \* the chain: block of each contract, 0 before it is shipped
    head,       \* the chain: its last block
    rows,       \* watch_targets: how many rows a contract has
    scans,      \* contracts with a "new-deploy" scan
    announced,  \* contracts with a NEW_DEPLOY event
    cursor,     \* deployer_watches.last_block_checked
    count,      \* deployer_watches.deployed_count
    check,      \* what each thread is doing
    seen,       \* history: contracts that have had a row
    outages, crashes, faults

world  == <<born, head>>
dbase  == <<rows, scans, announced, cursor, count, seen>>
bounds == <<outages, crashes, faults>>
vars   == <<world, dbase, check, bounds>>

Idle == [pc |-> "idle"]

Init ==
    /\ born = [c \in Contract |-> 0] /\ head = 0
    /\ rows = [c \in Contract |-> 0]
    /\ scans = {} /\ announced = {} /\ seen = {}
    /\ cursor = 0 /\ count = 0
    /\ check = [k \in Checker |-> Idle]
    /\ outages = 0 /\ crashes = 0 /\ faults = 0

\* A transaction of the deployer, in the last block or in a later one.
Ship(c) ==
    /\ born[c] = 0
    /\ \E b \in 1..MaxBlock : b >= head /\ head' = b /\ born' = [born EXCEPT ![c] = b]
    /\ UNCHANGED <<dbase, check, bounds>>

\* The first session of check_deployer_watch.
Begin(k) ==
    /\ check[k] = Idle
    /\ check' = [check EXCEPT ![k] =
            [pc |-> "direct", start |-> cursor, known |-> {c \in Contract : rows[c] > 0},
             found |-> {}, top |-> 0, last |-> 0, new |-> {}, at |-> {}]]
    /\ UNCHANGED <<world, dbase, bounds>>

Shipped(start, Kind) == {c \in Kind : born[c] # 0 /\ born[c] >= start}

\* A query that fails is one without results.
Query(k, Kind, found) ==
    \/ found = Shipped(check[k].start, Kind) /\ UNCHANGED outages
    \/ found = {} /\ outages < MaxOutages /\ outages' = outages + 1

QueryDirect(k) ==
    /\ check[k].pc = "direct"
    /\ \E F \in SUBSET Contract :
          /\ Query(k, Contract \ Factory, F)
          /\ check' = [check EXCEPT ![k].pc = "internal", ![k].found = F]
    /\ UNCHANGED <<world, dbase, crashes, faults>>

\* The block of the last creation, 0 without any.
IsTop(b, S) ==
    /\ S = {} => b = 0
    /\ S # {} => (\E c \in S : born[c] = b) /\ \A c \in S : born[c] <= b

QueryInternal(k) ==
    /\ check[k].pc = "internal"
    /\ \E F \in SUBSET Contract, b \in 0..MaxBlock :
          /\ Query(k, Factory, F)
          /\ IsTop(b, check[k].found \cup F)
          /\ check' = [check EXCEPT ![k] = [check[k] EXCEPT !.pc = "next", !.found = @ \cup F,
                                                              !.top = b]]
    /\ UNCHANGED <<world, dbase, crashes, faults>>

\* The creations are taken by block.
IsNext(k, c) == c \in check[k].found /\ \A d \in check[k].found : born[c] <= born[d]

SkipKnown(k, c) ==
    /\ check[k].pc = "next" /\ IsNext(k, c)
    /\ c \in check[k].known
    /\ check' = [check EXCEPT ![k].found = @ \ {c}]
    /\ UNCHANGED <<world, dbase, bounds>>

\* Faulty variant: nothing is deduped.
OnboardAgain(k, c) ==
    /\ check[k].pc = "next" /\ IsNext(k, c)
    /\ Cardinality(check[k].new) < Cap
    /\ rows' = [rows EXCEPT ![c] = @ + 1]
    /\ seen' = seen \cup {c}
    /\ check' = [check EXCEPT ![k].pc = "scan", ![k].at = {c}]
    /\ UNCHANGED <<world, scans, announced, cursor, count, bounds>>

\* The row on the watchlist, committed first.
Onboard(k, c) ==
    /\ check[k].pc = "next" /\ IsNext(k, c)
    /\ c \notin check[k].known
    /\ Cardinality(check[k].new) < Cap
    /\ rows' = [rows EXCEPT ![c] = @ + 1]
    /\ seen' = seen \cup {c}
    /\ check' = [check EXCEPT ![k].pc = "scan", ![k].at = {c}]
    /\ UNCHANGED <<world, scans, announced, cursor, count, bounds>>

\* _create_rescan; what a crash between its own two commits leaves is told in
\* ScanService.
CreateRescan(k) ==
    /\ check[k].pc = "scan"
    /\ scans' = scans \cup check[k].at
    /\ check' = [check EXCEPT ![k].pc = "event"]
    /\ UNCHANGED <<world, rows, announced, cursor, count, seen, bounds>>

\* The event, then the bookkeeping of the loop.
Announce(k) ==
    /\ check[k].pc = "event"
    /\ \E c \in check[k].at :
          /\ announced' = announced \cup {c}
          /\ check' = [check EXCEPT ![k] =
                [check[k] EXCEPT !.pc = "next", !.at = {}, !.found = @ \ {c}, !.new = @ \cup {c},
                                 !.known = @ \cup {c}, !.last = born[c]]]
    /\ UNCHANGED <<world, rows, scans, cursor, count, seen, bounds>>

\* The loop is through, or the cap breaks it at a contract that is new.
LoopEnds(k) ==
    \/ check[k].found = {}
    \/ /\ Cardinality(check[k].new) >= Cap
       /\ \E c \in check[k].found : IsNext(k, c) /\ c \notin check[k].known

\* Faulty variants: past the last block; to the top when the cap broke in.
CursorPastLast(k) == IF check[k].last # 0 THEN check[k].last + 1
                     ELSE IF check[k].top # 0 THEN check[k].top ELSE cursor
CursorAtTop(k)    == IF check[k].top # 0 THEN check[k].top ELSE cursor

\* From the last block where a contract was new, or from the last of all.
NewCursor(k) == IF check[k].last # 0 THEN check[k].last
                ELSE IF check[k].top # 0 THEN check[k].top ELSE cursor

Finish(k) ==
    /\ check[k].pc = "next" /\ LoopEnds(k)
    /\ cursor' = NewCursor(k)
    /\ count' = count + Cardinality(check[k].new)
    /\ check' = [check EXCEPT ![k] = Idle]
    /\ UNCHANGED <<world, rows, scans, announced, seen, bounds>>

\* A session raises; the caller logs it.
CheckRaises(k) ==
    /\ check[k] # Idle
    /\ faults < MaxFaults /\ faults' = faults + 1
    /\ check' = [check EXCEPT ![k] = Idle]
    /\ UNCHANGED <<world, dbase, outages, crashes>>

\* The server dies, and is started again.
Crash ==
    /\ crashes < MaxCrashes /\ crashes' = crashes + 1
    /\ check' = [k \in Checker |-> Idle]
    /\ UNCHANGED <<world, dbase, outages, faults>>

CheckStep(k) ==
    \/ QueryDirect(k) \/ QueryInternal(k)
    \/ \E c \in Contract : SkipKnown(k, c) \/ Onboard(k, c)
    \/ CreateRescan(k) \/ Announce(k) \/ Finish(k)

Next ==
    \/ \E c \in Contract : Ship(c)
    \/ \E k \in Checker : Begin(k) \/ CheckStep(k) \/ CheckRaises(k)
    \/ Crash

Spec == Init /\ [][Next]_vars

\* Every check that is begun goes on, and some check is begun again and again:
\* the interval of the watch passes.
Fairness == \A k \in Checker : WF_vars(CheckStep(k)) /\ WF_vars(Begin(k))
FairSpec == Spec /\ Fairness

----------------------------------------------------------------------------
Block == 0..MaxBlock
Begun ==
    [pc : {"direct", "internal", "next", "scan", "event"}, start : Block,
     known : SUBSET Contract, found : SUBSET Contract, top : Block, last : Block,
     new : SUBSET Contract, at : SUBSET Contract]
Check == {Idle} \cup Begun

\* Every variable has its type.
TypeOK ==
    /\ born \in [Contract -> Block] /\ head \in Block
    /\ rows \in [Contract -> Nat]
    /\ scans \subseteq Contract /\ announced \subseteq Contract /\ seen \subseteq Contract
    /\ cursor \in Block /\ count \in Nat
    /\ check \in [Checker -> Check]
    /\ outages \in Nat /\ crashes \in Nat /\ faults \in Nat

\* No contract is left behind: what was shipped before the block from which
\* the next check asks has been on the watchlist.
NoneSkipped == \A c \in Contract : 0 < born[c] /\ born[c] < cursor => c \in seen

\* A contract is put on the watchlist once, or once by each of the threads that
\* check at the same time.
WatchedOnce == \A c \in Contract : rows[c] <= Cardinality(Checker)

\* Every contract that is shipped is watched in the end, whatever the cap, and
\* has a rescan unless an exception or a crash cut its check short.
EveryDeploymentIsHandled ==
    \A c \in Contract : born[c] # 0 ~> rows[c] > 0 /\ (c \in scans \/ crashes + faults > 0)

----------------------------------------------------------------------------
(* The inductive invariant behind NoneSkipped, for a deployer all of whose *)
(* contracts are found by one of the two queries.                          *)

Uniform == Factory = {} \/ Factory = Contract

\* Shipped from block b on.
From(b, c) == born[c] # 0 /\ b <= born[c]

\* A check in flight, whatever it is at.
BegunInv(k) ==
    /\ check[k].start <= head /\ check[k].top <= head
    /\ check[k].known \subseteq seen
    /\ \A c \in Contract : 0 < born[c] /\ born[c] < check[k].start => c \in seen
    /\ \A c \in check[k].found : From(check[k].start, c)

\* Between the queries: what was missed came no earlier than what was found.
QueryInv(k) ==
    /\ check[k].pc = "direct" => check[k].found = {}
    /\ check[k].pc \in {"direct", "internal"} =>
         /\ check[k].last = 0 /\ check[k].top = 0 /\ check[k].at = {} /\ check[k].new = {}
         /\ Factory = Contract => check[k].found = {}
         /\ \A c \in Contract \ check[k].found, d \in check[k].found :
               From(check[k].start, c) => born[d] <= born[c]

\* In the loop: what is not left in it has been seen, or came no earlier than
\* the top; and the loop goes upwards.
LoopInv(k) ==
    check[k].pc \in {"next", "scan", "event"} =>
        /\ \A c \in Contract \ check[k].found :
              From(check[k].start, c) => c \in seen \/ check[k].top <= born[c]
        /\ \A c \in check[k].found : check[k].last <= born[c] /\ born[c] <= check[k].top
        /\ check[k].last <= check[k].top
        /\ check[k].new # {} => check[k].last # 0
        /\ check[k].pc = "next" => check[k].at = {}
        /\ check[k].at \subseteq seen \cap check[k].found
        /\ \A c \in check[k].at, d \in check[k].found : born[c] <= born[d]
        /\ \A c, d \in check[k].at : c = d

CheckInv(k) == check[k] # Idle => BegunInv(k) /\ QueryInv(k) /\ LoopInv(k)

IInv ==
    /\ TypeOK /\ NoneSkipped
    /\ cursor <= head
    /\ \A c \in Contract : born[c] <= head /\ (rows[c] > 0 => c \in seen)
    /\ \A k \in Checker : CheckInv(k)
=============================================================================

------------------------------- MODULE LiveView -------------------------------
(***************************************************************************)
(* How a viewer of one scan learns what the database says: the hub with a  *)
(* bounded queue for each socket, the handler of a socket, and the page    *)
(* that fetches the scan again whenever an event says so, and polls once   *)
(* its socket is gone.                                                     *)
(*                                                                         *)
(* The database is its version: each commit of the scan makes the next     *)
(* one, the last is the end of the scan.  A refresh is two requests, of    *)
(* the scan and of its findings; answers come in any order.                *)
(***************************************************************************)
EXTENDS Naturals, Sequences, SequencesExt

CONSTANTS
    Viewer,      \* pages that show the scan
    End,        \* bound: the version the scan ends with
    Capacity,    \* maxsize of a queue
    MaxWire,     \* bound: messages on a socket that the page has not read
    MaxAsked,    \* bound: refreshes of a page that are under way
    MaxFaults,   \* bound: failed requests, broken sockets and crashes
    Unread,      \* what a request that was not answered has read
    Nothing      \* what a page shows before, or instead of, a version

Version == 1..End
Event == [v : Version, update : BOOLEAN]

ASSUME LiveViewAssumption ==
    /\ End \in Nat \ {0} /\ Capacity \in Nat \ {0} /\ MaxWire \in Nat \ {0}
    /\ MaxAsked \in Nat \ {0} /\ MaxFaults \in Nat
    /\ Unread \notin Version /\ Nothing \notin Version \cup {Unread}

VARIABLES
    version,   \* what the database says
    due,       \* the events of the last commit that are not published yet
    subs,      \* whose queues the hub knows: ProgressHub._subs
    queue,     \* the queue of a handler
    handler,   \* where scan_progress is: "none", "greeting", "serving", "ended"
    socket,    \* the page's socket: "connecting", "open", "closed"
    wire,      \* messages on the socket
    page,      \* whether the page is "here" or "left"
    polling,   \* whether the page's interval is set
    asked,     \* refreshes under way, the oldest first
    shown,     \* the versions of the scan and of the findings the page shows
    hist       \* faults, and what the properties remember

hubVars  == <<version, due>>
connVars == <<subs, queue, handler>>
pageVars == <<page, polling, asked, shown>>
vars == <<hubVars, connVars, socket, wire, pageVars, hist>>

NewRefresh == [scan |-> Unread, findings |-> Unread, late |-> FALSE]

\* A page mounts: its first refresh and its socket are under way.
Init ==
    /\ version = 1 /\ due = <<>>
    /\ subs = {}
    /\ queue = [v \in Viewer |-> <<>>]
    /\ handler = [v \in Viewer |-> "none"]
    /\ socket = [v \in Viewer |-> "connecting"]
    /\ wire = [v \in Viewer |-> <<>>]
    /\ page = [v \in Viewer |-> "here"]
    /\ polling = [v \in Viewer |-> FALSE]
    /\ asked = [v \in Viewer |-> <<NewRefresh>>]
    /\ shown = [v \in Viewer |-> [scan |-> Nothing, findings |-> Nothing]]
    /\ hist = [faults |-> 0,
               since   |-> [v \in Viewer |-> 0],        \* version at subscribe
               dropped |-> [v \in Viewer |-> FALSE],    \* an event met a full queue
               got     |-> [v \in Viewer |-> <<>>],     \* versions of its events
               heard   |-> [v \in Viewer |-> FALSE],    \* the last update arrived
               outcome |-> [v \in Viewer |-> "none"]]   \* of the refresh that ended last

----------------------------------------------------------------------------
(* The scan: every commit is followed by its event.                       *)

Put(q, e) == IF Len(q) < Capacity THEN Append(q, e) ELSE q

\* ProgressHub.publish.
Publish(e) ==
    /\ queue' = [v \in Viewer |-> IF v \in subs THEN Put(queue[v], e) ELSE queue[v]]
    /\ hist' = [hist EXCEPT !.dropped =
                   [v \in Viewer |-> @[v] \/ (v \in subs /\ Len(queue[v]) >= Capacity)]]

Emits(n) == {e \in Event : e.v = n /\ (n = End => e.update)}

\* A commit of the pipeline; what it says next is an update or, as "finding"
\* and "progress", something no page fetches anything for.
Commit ==
    /\ due = <<>> /\ version < End
    /\ version' = version + 1
    /\ \E e \in Emits(version + 1) : due' = <<e>>
    /\ UNCHANGED <<connVars, socket, wire, pageVars, hist>>

Announce ==
    /\ due # <<>>
    /\ Publish(due[1])
    /\ due' = <<>>
    /\ UNCHANGED <<version, subs, handler, socket, wire, pageVars>>

----------------------------------------------------------------------------
(* scan_progress.                                                         *)

\* accept and subscribe.
Accept(v) ==
    /\ handler[v] = "none" /\ socket[v] = "connecting"
    /\ handler' = [handler EXCEPT ![v] = "greeting"]
    /\ socket' = [socket EXCEPT ![v] = "open"]
    /\ subs' = subs \cup {v}
    /\ hist' = [hist EXCEPT !.since[v] = IF due = <<>> THEN version ELSE version - 1]
    /\ UNCHANGED <<hubVars, queue, wire, pageVars>>

\* The first message is sent outside the try: if it fails nobody unsubscribes.
Greet(v) ==
    /\ handler[v] = "greeting"
    /\ handler' = [handler EXCEPT ![v] = IF socket[v] = "open" THEN "serving" ELSE "ended"]
    /\ UNCHANGED <<hubVars, subs, queue, socket, wire, pageVars, hist>>

\* Faulty variant: an event may stay in the queue when it is sent.
ServeAgain(v) ==
    /\ handler[v] = "serving" /\ socket[v] = "open"
    /\ queue[v] # <<>> /\ Len(wire[v]) < MaxWire
    /\ wire' = [wire EXCEPT ![v] = Append(@, Head(queue[v]))]
    /\ queue' \in {queue, [queue EXCEPT ![v] = Tail(@)]}
    /\ UNCHANGED <<hubVars, subs, handler, socket, pageVars, hist>>

\* The next event, once the socket takes it.
Serve(v) ==
    /\ handler[v] = "serving" /\ socket[v] = "open"
    /\ queue[v] # <<>> /\ Len(wire[v]) < MaxWire
    /\ wire' = [wire EXCEPT ![v] = Append(@, Head(queue[v]))]
    /\ queue' = [queue EXCEPT ![v] = Tail(@)]
    /\ UNCHANGED <<hubVars, subs, handler, socket, pageVars, hist>>

\* Faulty variant: only an event, no heartbeat, shows that the page is gone.
HangUpOnEvent(v) ==
    /\ handler[v] = "serving" /\ socket[v] = "closed" /\ queue[v] # <<>>
    /\ handler' = [handler EXCEPT ![v] = "ended"]
    /\ subs' = subs \ {v}
    /\ UNCHANGED <<hubVars, queue, socket, wire, pageVars, hist>>

\* An event or the heartbeat fails: the finally clause.
HangUp(v) ==
    /\ handler[v] = "serving" /\ socket[v] = "closed"
    /\ handler' = [handler EXCEPT ![v] = "ended"]
    /\ subs' = subs \ {v}
    /\ UNCHANGED <<hubVars, queue, socket, wire, pageVars, hist>>

----------------------------------------------------------------------------
(* The page.                                                              *)

MayAsk(v) == page[v] = "here" /\ Len(asked[v]) < MaxAsked

Refresh(v) == asked' = [asked EXCEPT ![v] = Append(@, NewRefresh)]

\* onMessage: any structured update fetches the scan again.
Deliver(v) ==
    /\ page[v] = "here" /\ wire[v] # <<>>
    /\ LET e == Head(wire[v]) IN
         /\ IF e.update THEN MayAsk(v) /\ Refresh(v) ELSE UNCHANGED asked
         /\ hist' = [hist EXCEPT !.got[v] = Append(@, e.v), !.heard[v] = @ \/ e.v = End]
    /\ wire' = [wire EXCEPT ![v] = Tail(@)]
    /\ UNCHANGED <<hubVars, connVars, socket, page, polling, shown>>

Poll(v) ==
    /\ polling[v] /\ MayAsk(v) /\ Refresh(v)
    /\ UNCHANGED <<hubVars, connVars, socket, wire, page, polling, shown, hist>>

\* A request reads the database.
Read(v, i) ==
    /\ \E part \in {"scan", "findings"} :
         /\ asked[v][i][part] = Unread
         /\ asked' = [asked EXCEPT ![v][i][part] = version]
    /\ UNCHANGED <<hubVars, connVars, socket, wire, page, polling, shown, hist>>

\* The i-th refresh ends; those asked before it, if any, will end late.
Settle(v, i, outcome) ==
    /\ asked' = [asked EXCEPT ![v] =
                   RemoveAt([j \in DOMAIN @ |-> IF j < i THEN [@[j] EXCEPT !.late = TRUE] ELSE @[j]], i)]
    /\ hist' = [hist EXCEPT !.outcome[v] = IF asked[v][i].late THEN "late" ELSE outcome,
                            !.faults = IF outcome = "failed" THEN @ + 1 ELSE @]

\* Faulty variant: the findings stay those of the first refresh.
ShowScan(v, r) ==
    shown' = [shown EXCEPT ![v] = [scan |-> r.scan,
        findings |-> IF @.findings = Nothing THEN r.findings ELSE @.findings]]

Show(v, r) == shown' = [shown EXCEPT ![v] = [scan |-> r.scan, findings |-> r.findings]]

\* Both answers are here.
Answer(v, i) ==
    LET r == asked[v][i] IN
    /\ r.scan # Unread /\ r.findings # Unread
    /\ Settle(v, i, "ok") /\ Show(v, r)
    /\ UNCHANGED <<hubVars, connVars, socket, wire, page, polling>>

\* getScan fails and nothing is shown; or the findings fail and none are.
FailRequest(v, i) ==
    LET r == asked[v][i] IN
    /\ hist.faults < MaxFaults
    /\ Settle(v, i, "failed")
    /\ \/ UNCHANGED shown
       \/ r.scan # Unread /\ shown' = [shown EXCEPT ![v] = [scan |-> r.scan, findings |-> Nothing]]
    /\ UNCHANGED <<hubVars, connVars, socket, wire, page, polling>>

\* Faulty variant: polling starts only where the socket was open.
StartPollingIfOpen(V) ==
    polling' = [v \in Viewer |-> polling[v] \/ (v \in V /\ page[v] = "here" /\ socket[v] = "open")]

\* onerror, onclose.
StartPolling(V) == polling' = [v \in Viewer |-> polling[v] \/ (v \in V /\ page[v] = "here")]

\* The socket is refused, or breaks with what is on it.
Break(v) ==
    /\ page[v] = "here" /\ socket[v] # "closed" /\ hist.faults < MaxFaults
    /\ socket' = [socket EXCEPT ![v] = "closed"]
    /\ wire' = [wire EXCEPT ![v] = <<>>]
    /\ StartPolling({v})
    /\ hist' = [hist EXCEPT !.faults = @ + 1]
    /\ UNCHANGED <<hubVars, connVars, page, asked, shown>>

\* The page unmounts.
Leave(v) ==
    /\ page[v] = "here"
    /\ page' = [page EXCEPT ![v] = "left"]
    /\ socket' = [socket EXCEPT ![v] = "closed"]
    /\ wire' = [wire EXCEPT ![v] = <<>>]
    /\ polling' = [polling EXCEPT ![v] = FALSE]
    /\ asked' = [asked EXCEPT ![v] = <<>>]
    /\ UNCHANGED <<hubVars, connVars, shown, hist>>

\* The process dies with its sockets and requests; the next one marks the scan
\* and tells nobody.
Crash ==
    /\ hist.faults < MaxFaults /\ version < End
    /\ version' = End /\ due' = <<>>
    /\ subs' = {} /\ queue' = [v \in Viewer |-> <<>>]
    /\ handler' = [v \in Viewer |-> "ended"]
    /\ socket' = [v \in Viewer |-> "closed"] /\ wire' = [v \in Viewer |-> <<>>]
    /\ StartPolling(Viewer)
    /\ asked' = [v \in Viewer |-> <<>>]
    /\ hist' = [hist EXCEPT !.faults = @ + 1]
    /\ UNCHANGED <<page, shown>>

----------------------------------------------------------------------------
Answers(v) == \E i \in DOMAIN asked[v] : Read(v, i) \/ Answer(v, i)
Serves(v)  == Accept(v) \/ Greet(v) \/ Serve(v) \/ HangUp(v)

Next ==
    \/ Commit \/ Announce \/ Crash
    \/ \E v \in Viewer :
         \/ Serves(v) \/ Deliver(v) \/ Poll(v) \/ Answers(v) \/ Break(v) \/ Leave(v)
         \/ \E i \in DOMAIN asked[v] : FailRequest(v, i)

Spec == Init /\ [][Next]_vars

\* The scan goes on, the event loop runs the handlers, the network delivers
\* and answers, and the interval fires; nothing makes a fault happen.
FairSpec ==
    /\ Spec
    /\ WF_vars(Commit \/ Announce)
    /\ \A v \in Viewer : /\ WF_vars(Serves(v)) /\ WF_vars(Deliver(v))
                         /\ WF_vars(Poll(v)) /\ WF_vars(Answers(v))

----------------------------------------------------------------------------
ReadVersion == Version \cup {Unread}
Shown == Version \cup {Nothing}

\* Every variable has its type.
TypeOK ==
    /\ version \in Version
    /\ Len(due) <= 1 /\ \A i \in DOMAIN due : due[i] \in Event
    /\ subs \subseteq Viewer
    /\ queue \in [Viewer -> Seq(Event)] /\ wire \in [Viewer -> Seq(Event)]
    /\ handler \in [Viewer -> {"none", "greeting", "serving", "ended"}]
    /\ socket \in [Viewer -> {"connecting", "open", "closed"}]
    /\ page \in [Viewer -> {"here", "left"}] /\ polling \in [Viewer -> BOOLEAN]
    /\ asked \in [Viewer -> Seq([scan : ReadVersion, findings : ReadVersion, late : BOOLEAN])]
    /\ shown \in [Viewer -> [scan : Shown, findings : Shown]]

\* The event a commit made and the hub has not heard yet is not on its way.
Announced == IF due = <<>> THEN version ELSE version - 1

OnTheWay(v) == hist.got[v] \o [i \in DOMAIN wire[v] |-> wire[v][i].v]
                           \o [i \in DOMAIN queue[v] |-> queue[v][i].v]

\* publish and scan_progress: while its socket lives, and until an event of
\* its own meets its own full queue, a page gets every event since it
\* subscribed, once and in order, however slow other pages are.  Past that,
\* what it gets is still in order.
EventsInOrder ==
    \A v \in Viewer :
      LET seen == OnTheWay(v) IN
      /\ \A i \in 1..Len(seen) - 1 : seen[i] < seen[i + 1]
      /\ v \in subs /\ socket[v] = "open" /\ ~hist.dropped[v] =>
           seen = [i \in 1..Announced - hist.since[v] |-> hist.since[v] + i]

\* ScanDetail.tsx, refresh: a page that heard the end of the scan, has no
\* refresh under way, and whose last one neither failed nor was overtaken,
\* shows the end, scan and findings.
QuietIsCurrent ==
    \A v \in Viewer :
      hist.heard[v] /\ asked[v] = <<>> /\ page[v] = "here" /\ hist.outcome[v] = "ok"
        => shown[v] = [scan |-> End, findings |-> End]

\* scan_progress: once a handler greeted its page, the hub forgets its queue
\* when the page is gone; a page that is gone before that leaves its queue.
GreetedIsForgotten ==
    \A v \in Viewer : [](handler[v] = "serving" /\ socket[v] = "closed" => <>(v \notin subs))

Current(v) == page[v] = "left" \/ shown[v] = [scan |-> End, findings |-> End]

\* startPolling: a page whose socket is gone comes to show the end of the scan
\* and keeps showing it, whatever was overtaken or failed before.
LostSocketCatchesUp ==
    \A v \in Viewer : socket[v] = "closed" ~> []Current(v)

\* README.md:21, "Watch progress live (WebSocket)": a page comes to show the
\* end of the scan.
LiveCatchesUp == \A v \in Viewer : <>Current(v)
=============================================================================

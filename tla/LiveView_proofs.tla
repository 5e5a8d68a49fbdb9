--------------------------- MODULE LiveView_proofs ---------------------------
(* Proofs about LiveView, for every number of pages and versions, queues of *)
(* every capacity and any number of faults.                                 *)
EXTENDS LiveView, SequenceTheorems, TLAPS

(* Sequences of events and of refreshes.                                   *)

Versions(s) == [i \in DOMAIN s |-> s[i].v]

\* A number put last, a number put first, and three sequences in one.
Plus(s, n)    == s \o <<n>>
Before(n, s)  == <<n>> \o s
Join(g, w, q) == g \o w \o q

LEMMA EventVersion == \A e \in Event : e.v \in Nat /\ <<e.v>> \in Seq(Nat)
BY LiveViewAssumption DEF Event, Version

LEMMA VersionsShape ==
    ASSUME NEW s \in Seq(Event)
    PROVE  /\ Versions(s) \in Seq(Nat) /\ Len(Versions(s)) = Len(s)
           /\ \A i \in 1..Len(s) : Versions(s)[i] = s[i].v
<1>1. ASSUME NEW i \in 1..Len(s) PROVE s[i].v \in Nat
  <2>1. s[i] \in Event
    OBVIOUS
  <2>2. QED
    BY <2>1, EventVersion
<1>2. DOMAIN s = 1..Len(s)
  OBVIOUS
<1>3. QED
  BY <1>1, <1>2, IsASeq DEF Versions

LEMMA AddedLast ==
    ASSUME NEW s \in Seq(Nat), NEW t \in Seq(Nat), NEW n \in Nat, Len(t) = Len(s) + 1,
           \A i \in 1..Len(s) : t[i] = s[i], t[Len(s) + 1] = n
    PROVE  t = Plus(s, n)
<1>1. /\ s \o <<n>> \in Seq(Nat) /\ Len(s \o <<n>>) = Len(s) + 1
      /\ (s \o <<n>>)[Len(s) + 1] = n /\ \A i \in 1..Len(s) : (s \o <<n>>)[i] = s[i]
  OBVIOUS
<1>2. \A i \in 1..Len(t) : t[i] = (s \o <<n>>)[i]
  BY <1>1
<1>3. QED
  BY <1>1, <1>2, SeqEqual DEF Plus

LEMMA AddedFirst ==
    ASSUME NEW s \in Seq(Nat), NEW t \in Seq(Nat), NEW n \in Nat, Len(t) = Len(s) + 1,
           \A i \in 1..Len(s) : t[i + 1] = s[i], t[1] = n
    PROVE  t = Before(n, s)
<1>1. /\ <<n>> \o s \in Seq(Nat) /\ Len(<<n>> \o s) = Len(s) + 1
      /\ (<<n>> \o s)[1] = n /\ \A i \in 1..Len(s) : (<<n>> \o s)[i + 1] = s[i]
  OBVIOUS
<1>2. ASSUME NEW i \in 1..Len(t) PROVE t[i] = (<<n>> \o s)[i]
  <2>1. CASE i = 1
    BY <1>1, <2>1
  <2>2. CASE i # 1
    <3>1. i - 1 \in 1..Len(s) /\ i = (i - 1) + 1
      BY <2>2
    <3>2. QED
      BY <1>1, <3>1
  <2>3. QED
    BY <2>1, <2>2
<1>3. QED
  BY <1>1, <1>2, SeqEqual DEF Before

\* An element that moves from one part of a sequence to the next.
LEMMA Moved ==
    ASSUME NEW g \in Seq(Nat), NEW w \in Seq(Nat), NEW q \in Seq(Nat), NEW n \in Nat
    PROVE  /\ Join(g, w, Plus(q, n)) = Plus(Join(g, w, q), n)
           /\ Join(g, Plus(w, n), q) = Join(g, w, Before(n, q))
           /\ Join(g, Before(n, w), q) = Join(Append(g, n), w, q)
<1> USE DEF Join, Plus, Before
<1> DEFINE a == Join(g, w, Plus(q, n))
           b == Plus(Join(g, w, q), n)
           c == Join(g, Plus(w, n), q)
           d == Join(g, w, Before(n, q))
           e == Join(g, Before(n, w), q)
           f == Join(Append(g, n), w, q)
<1>1. /\ a \in Seq(Nat) /\ b \in Seq(Nat) /\ Len(a) = Len(g) + Len(w) + Len(q) + 1 /\ Len(b) = Len(a)
      /\ \A i \in 1..Len(a) : a[i] = b[i]
  OBVIOUS
<1>2. /\ c \in Seq(Nat) /\ d \in Seq(Nat) /\ Len(c) = Len(g) + Len(w) + Len(q) + 1 /\ Len(d) = Len(c)
      /\ \A i \in 1..Len(c) : c[i] = d[i]
  OBVIOUS
<1>3. /\ e \in Seq(Nat) /\ f \in Seq(Nat) /\ Len(e) = Len(g) + Len(w) + Len(q) + 1 /\ Len(f) = Len(e)
      /\ \A i \in 1..Len(e) : e[i] = f[i]
  OBVIOUS
<1> HIDE DEF a, b, c, d, e, f
<1>4. a = b
  BY <1>1, SeqEqual
<1>5. c = d
  BY <1>2, SeqEqual
<1>6. e = f
  BY <1>3, SeqEqual
<1>7. QED
  BY <1>4, <1>5, <1>6 DEF a, b, c, d, e, f

LEMMA JoinShape ==
    ASSUME NEW g \in Seq(Nat), NEW w \in Seq(Nat), NEW q \in Seq(Nat)
    PROVE  /\ Join(g, w, q) \in Seq(Nat)
           /\ Join(g, w, q) = <<>> => g = <<>> /\ q = <<>>
           /\ Join(<<>>, <<>>, <<>>) = <<>>
<1>1. Join(g, w, q) \in Seq(Nat) /\ Len(Join(g, w, q)) = Len(g) + Len(w) + Len(q)
  BY DEF Join
<1>2. Join(g, w, q) = <<>> => Len(g) = 0 /\ Len(q) = 0
  BY <1>1
<1>3. Join(<<>>, <<>>, <<>>) = <<>>
  BY DEF Join
<1>4. QED
  BY <1>1, <1>2, <1>3, EmptySeq

LEMMA NoVersions == Versions(<<>>) = <<>>
BY DEF Versions

LEMMA LastVersion ==
    ASSUME NEW s \in Seq(Event), NEW e \in Event
    PROVE  Versions(Append(s, e)) = Plus(Versions(s), e.v)
<1> DEFINE t == Append(s, e)
<1>1. /\ t \in Seq(Event) /\ Len(t) = Len(s) + 1 /\ t[Len(s) + 1] = e
      /\ \A i \in 1..Len(s) : t[i] = s[i]
  BY AppendProperties
<1> HIDE DEF t
<1>2. /\ Versions(t) \in Seq(Nat) /\ Len(Versions(t)) = Len(t)
      /\ \A i \in 1..Len(t) : Versions(t)[i] = t[i].v
  BY <1>1, VersionsShape
<1>3. /\ Versions(s) \in Seq(Nat) /\ Len(Versions(s)) = Len(s)
      /\ \A i \in 1..Len(s) : Versions(s)[i] = s[i].v
  BY VersionsShape
<1>4. /\ Len(Versions(t)) = Len(Versions(s)) + 1 /\ Versions(t)[Len(Versions(s)) + 1] = e.v
      /\ \A i \in 1..Len(Versions(s)) : Versions(t)[i] = Versions(s)[i]
  BY <1>1, <1>2, <1>3
<1>5. e.v \in Nat
  BY EventVersion
<1>6. QED
  BY <1>2, <1>3, <1>4, <1>5, AddedLast DEF t

LEMMA FirstVersion ==
    ASSUME NEW s \in Seq(Event), s # <<>>
    PROVE  /\ Head(s) \in Event /\ Tail(s) \in Seq(Event) /\ Head(s).v \in Nat
           /\ Versions(s) = Before(Head(s).v, Versions(Tail(s)))
<1> DEFINE t == Tail(s)
<1>1. /\ Head(s) \in Event /\ t \in Seq(Event) /\ Len(t) = Len(s) - 1 /\ Len(s) \in Nat
      /\ Head(s) = s[1] /\ 1 \in 1..Len(s)
      /\ \A i \in 1..Len(t) : (t[i] = s[i + 1] /\ i + 1 \in 1..Len(s))
  OBVIOUS
<1> HIDE DEF t
<1>2. /\ Versions(t) \in Seq(Nat) /\ Len(Versions(t)) = Len(t)
      /\ \A i \in 1..Len(t) : Versions(t)[i] = t[i].v
  BY <1>1, VersionsShape
<1>3. /\ Versions(s) \in Seq(Nat) /\ Len(Versions(s)) = Len(s)
      /\ \A i \in 1..Len(s) : Versions(s)[i] = s[i].v
  BY VersionsShape
<1>4. Head(s).v \in Nat
  BY <1>1, EventVersion
<1>5. Len(Versions(s)) = Len(Versions(t)) + 1 /\ Versions(s)[1] = Head(s).v
  BY <1>1, <1>2, <1>3
<1>6. ASSUME NEW i \in 1..Len(Versions(t)) PROVE Versions(s)[i + 1] = Versions(t)[i]
  <2>1. t[i] = s[i + 1] /\ i + 1 \in 1..Len(s) /\ i \in 1..Len(t)
    BY <1>1, <1>2
  <2>2. QED
    BY <1>2, <1>3, <2>1
<1>7. Versions(s) = Before(Head(s).v, Versions(t))
  BY <1>2, <1>3, <1>4, <1>5, <1>6, AddedFirst
<1>8. QED
  BY <1>1, <1>4, <1>7 DEF t

Increasing(s) == \A i, j \in 1..Len(s) : i < j => s[i] < s[j]

\* What is left of an increasing sequence is increasing.
LEMMA StillIncreasing ==
    ASSUME NEW s \in Seq(Nat), NEW t \in Seq(Nat), NEW u \in Seq(Nat), NEW n \in Nat,
           Increasing(Join(s, t, u)), \A i \in 1..Len(Join(s, t, u)) : Join(s, t, u)[i] <= n
    PROVE  /\ Increasing(Join(s, <<>>, u))
           /\ \A i \in 1..Len(Join(s, <<>>, u)) : Join(s, <<>>, u)[i] <= n
           /\ Increasing(Join(s, <<>>, <<>>))
           /\ \A i \in 1..Len(Join(s, <<>>, <<>>)) : Join(s, <<>>, <<>>)[i] <= n
<1>0. Join(s, <<>>, u) = s \o u /\ Join(s, <<>>, <<>>) = s
  <2>1. s \o <<>> = s
    BY ConcatEmptySeq
  <2>2. QED
    BY <2>1 DEF Join
<1> DEFINE all == s \o t \o u
<1> DEFINE at(i) == IF i <= Len(s) THEN i ELSE i + Len(t)
<1>1. all \in Seq(Nat) /\ Len(all) = Len(s) + Len(t) + Len(u) /\ Len(s \o u) = Len(s) + Len(u)
  OBVIOUS
<1>2. ASSUME NEW i \in 1..Len(s \o u)
      PROVE  at(i) \in 1..Len(all) /\ (s \o u)[i] = all[at(i)]
  BY <1>1
<1>3. \A i \in 1..Len(s) : i \in 1..Len(all) /\ s[i] = all[i]
  BY <1>1
<1>4. \A i, j \in 1..Len(s \o u) : i < j => at(i) < at(j)
  BY <1>1
<1> HIDE DEF all, at
<1>5. Increasing(all) /\ \A i \in 1..Len(all) : all[i] <= n
  BY DEF all, Join
<1>6. QED
  BY <1>0, <1>2, <1>3, <1>4, <1>5 DEF Increasing

\* A number larger than all of an increasing sequence may be added.
LEMMA IncreasingAppend ==
    ASSUME NEW s \in Seq(Nat), NEW n \in Nat, NEW m \in Nat, n < m,
           Increasing(s), \A i \in 1..Len(s) : s[i] <= n
    PROVE  Increasing(Plus(s, m)) /\ \A i \in 1..Len(Plus(s, m)) : Plus(s, m)[i] <= m
<1>1. /\ Len(Plus(s, m)) = Len(s) + 1 /\ Plus(s, m)[Len(s) + 1] = m
      /\ \A i \in 1..Len(s) : Plus(s, m)[i] = s[i] /\ s[i] \in Nat
  BY DEF Plus
<1> DEFINE t == Plus(s, m)
<1> HIDE DEF t
<1>2. /\ Len(t) = Len(s) + 1 /\ t[Len(s) + 1] = m /\ Len(s) \in Nat
      /\ \A i \in 1..Len(s) : t[i] = s[i] /\ s[i] \in Nat /\ s[i] <= n
  BY <1>1 DEF t
<1>3. \A i \in 1..Len(t) : t[i] <= m /\ t[i] \in Nat
  BY <1>2
<1>4. ASSUME NEW i \in 1..Len(t), NEW j \in 1..Len(t), i < j PROVE t[i] < t[j]
  <2>1. i \in 1..Len(s) /\ t[i] <= n /\ t[i] \in Nat
    BY <1>2, <1>4
  <2>2. CASE j = Len(s) + 1
    BY <1>2, <2>1, <2>2
  <2>3. CASE j # Len(s) + 1
    <3>1. j \in 1..Len(s)
      BY <1>2, <2>3
    <3>2. t[i] = s[i] /\ t[j] = s[j] /\ s[i] < s[j]
      BY <1>2, <1>4, <2>1, <3>1 DEF Increasing
    <3>3. QED
      BY <3>2
  <2>4. QED
    BY <2>2, <2>3
<1>5. QED
  BY <1>3, <1>4 DEF Increasing, t

\* What is left of the refreshes under way when the i-th ends.
LEMMA Removed ==
    ASSUME NEW S, NEW s \in Seq(S), NEW i \in 1..Len(s)
    PROVE  /\ RemoveAt(s, i) \in Seq(S) /\ Len(RemoveAt(s, i)) = Len(s) - 1
           /\ \A j \in 1..Len(s) - 1 : RemoveAt(s, i)[j] = IF j < i THEN s[j] ELSE s[j + 1]
<1> DEFINE a == SubSeq(s, 1, i - 1)
           b == SubSeq(s, i + 1, Len(s))
<1>1. a \in Seq(S) /\ Len(a) = i - 1 /\ \A j \in 1..i - 1 : a[j] = s[j]
  BY SubSeqProperties
<1>2. b \in Seq(S) /\ Len(b) = Len(s) - i /\ \A j \in 1..Len(s) - i : b[j] = s[i + j]
  BY SubSeqProperties
<1>3. RemoveAt(s, i) = a \o b
  BY DEF RemoveAt
<1> HIDE DEF a, b
<1>4. a \o b \in Seq(S) /\ Len(a \o b) = Len(a) + Len(b)
  BY <1>1, <1>2, ConcatProperties
<1>5. Len(s) \in Nat /\ Len(a \o b) = Len(s) - 1
  BY <1>1, <1>2, <1>4
<1>6. ASSUME NEW j \in 1..Len(s) - 1 PROVE (a \o b)[j] = IF j < i THEN s[j] ELSE s[j + 1]
  <2>1. CASE j < i
    BY <1>1, <1>2, <2>1
  <2>2. CASE j >= i
    <3>1. (a \o b)[j] = b[j - (i - 1)] /\ j - (i - 1) \in 1..Len(s) - i
      BY <1>1, <1>2, <2>2
    <3>2. QED
      BY <1>2, <2>2, <3>1
  <2>3. QED
    BY <1>5, <2>1, <2>2
<1>7. QED
  BY <1>3, <1>4, <1>5, <1>6

-----------------------------------------------------------------------------
(* Types.                                                                  *)

Asking  == [scan : ReadVersion, findings : ReadVersion, late : BOOLEAN]
Outcome == {"none", "ok", "failed", "late"}

HubOK   == version \in Version /\ (due = <<>> \/ \E e \in Event : due = <<e>>)
ConnOK  == /\ subs \subseteq Viewer /\ queue \in [Viewer -> Seq(Event)]
           /\ handler \in [Viewer -> {"none", "greeting", "serving", "ended"}]
WireOK  == socket \in [Viewer -> {"connecting", "open", "closed"}] /\ wire \in [Viewer -> Seq(Event)]
PageOK  == page \in [Viewer -> {"here", "left"}] /\ polling \in [Viewer -> BOOLEAN]
AskedOK == asked \in [Viewer -> Seq(Asking)]
ShownOK == shown \in [Viewer -> [scan : Shown, findings : Shown]]
HistOK  == hist \in [faults : Nat, since : [Viewer -> Nat], dropped : [Viewer -> BOOLEAN],
                     got : [Viewer -> Seq(Nat)], heard : [Viewer -> BOOLEAN],
                     outcome : [Viewer -> Outcome]]

TypeInv == HubOK /\ ConnOK /\ WireOK /\ PageOK /\ AskedOK /\ ShownOK /\ HistOK

LEMMA New == NewRefresh \in Asking
BY DEF NewRefresh, Asking, ReadVersion

\* An event put in a queue.
LEMMA PutType == \A q \in Seq(Event), e \in Event : Put(q, e) \in Seq(Event)
BY DEF Put

Marked(s, i) == [j \in DOMAIN s |-> IF j < i THEN [s[j] EXCEPT !.late = TRUE] ELSE s[j]]

LEMMA MarkedType ==
    ASSUME NEW s \in Seq(Asking), NEW i \in DOMAIN s
    PROVE  /\ Marked(s, i) \in Seq(Asking) /\ Len(Marked(s, i)) = Len(s)
           /\ \A j \in 1..Len(s) : Marked(s, i)[j] = IF j < i THEN [s[j] EXCEPT !.late = TRUE] ELSE s[j]
<1>1. DOMAIN s = 1..Len(s) /\ Len(s) \in Nat
  OBVIOUS
<1>2. ASSUME NEW j \in 1..Len(s) PROVE (IF j < i THEN [s[j] EXCEPT !.late = TRUE] ELSE s[j]) \in Asking
  <2>1. s[j] \in Asking
    OBVIOUS
  <2>2. QED
    BY <2>1 DEF Asking
<1>3. QED
  BY <1>1, <1>2, IsASeq DEF Marked

\* The refreshes under way once the i-th ended.
LEMMA SettledShape ==
    ASSUME TypeInv, NEW v \in Viewer, NEW i \in DOMAIN asked[v], NEW o, Settle(v, i, o)
    PROVE  /\ asked' \in [Viewer -> Seq(Asking)] /\ Len(asked'[v]) = Len(asked[v]) - 1
           /\ \A w \in Viewer \ {v} : asked'[w] = asked[w]
           /\ \A j \in 1..Len(asked'[v]) :
                asked'[v][j] = IF j < i THEN [asked[v][j] EXCEPT !.late = TRUE] ELSE asked[v][j + 1]
<1> DEFINE s == asked[v]
           m == Marked(s, i)
           r == RemoveAt(m, i)
<1>1. asked \in [Viewer -> Seq(Asking)] /\ s \in Seq(Asking) /\ DOMAIN s = 1..Len(s) /\ Len(s) \in Nat
  BY DEF TypeInv, AskedOK
<1>2. asked' = [asked EXCEPT ![v] = r]
  BY DEF Settle, Marked
<1>3. /\ m \in Seq(Asking) /\ Len(m) = Len(s)
      /\ \A j \in 1..Len(s) : m[j] = IF j < i THEN [s[j] EXCEPT !.late = TRUE] ELSE s[j]
  BY <1>1, MarkedType
<1> HIDE DEF m
<1>4. /\ r \in Seq(Asking) /\ Len(r) = Len(s) - 1
      /\ \A j \in 1..Len(s) - 1 : r[j] = IF j < i THEN m[j] ELSE m[j + 1]
  <2>1. m \in Seq(Asking) /\ i \in 1..Len(m)
    BY <1>1, <1>3
  <2>2. /\ r \in Seq(Asking) /\ Len(r) = Len(m) - 1
        /\ \A j \in 1..Len(m) - 1 : r[j] = IF j < i THEN m[j] ELSE m[j + 1]
    BY <2>1, Removed
  <2>3. QED
    BY <1>3, <2>2
<1> HIDE DEF r
<1>5. ASSUME NEW j \in 1..Len(r)
      PROVE  r[j] = IF j < i THEN [s[j] EXCEPT !.late = TRUE] ELSE s[j + 1]
  <2>1. j \in 1..Len(s) - 1 /\ j \in 1..Len(s) /\ j + 1 \in 1..Len(s) /\ i \in 1..Len(s)
    BY <1>1, <1>4
  <2>2. CASE j < i
    BY <1>3, <1>4, <2>1, <2>2
  <2>3. CASE ~(j < i)
    <3>1. ~(j + 1 < i)
      BY <2>1, <2>3
    <3>2. QED
      BY <1>3, <1>4, <2>1, <2>3, <3>1
  <2>4. QED
    BY <2>2, <2>3
<1>6. asked'[v] = r /\ asked' \in [Viewer -> Seq(Asking)] /\ \A w \in Viewer \ {v} : asked'[w] = asked[w]
  BY <1>1, <1>2, <1>4
<1>7. QED
  BY <1>4, <1>5, <1>6

LEMMA NextShape ==
    ASSUME [Next]_vars
    PROVE  \/ UNCHANGED vars \/ Commit \/ Announce \/ Crash
           \/ \E v \in Viewer : \/ Accept(v) \/ Greet(v) \/ Serve(v) \/ HangUp(v)
                                \/ Deliver(v) \/ Poll(v) \/ Break(v) \/ Leave(v)
           \/ \E v \in Viewer : \E i \in DOMAIN asked[v] :
                \/ Read(v, i) \/ Answer(v, i) \/ FailRequest(v, i)
BY DEF Next, Serves, Answers

LEMMA HubStep == ASSUME TypeInv, [Next]_vars PROVE HubOK'
<1> USE DEF HubOK
<1>1. HubOK
  BY DEF TypeInv
<1>2. CASE Commit
  <2>1. version' \in Version
    BY <1>1, <1>2, LiveViewAssumption DEF Commit, Version
  <2>2. \E e \in Event : due' = <<e>>
    BY <1>2 DEF Commit, Emits
  <2>3. QED
    BY <2>1, <2>2
<1>3. CASE Announce
  BY <1>1, <1>3 DEF Announce
<1>4. CASE Crash
  BY <1>1, <1>4, LiveViewAssumption DEF Crash, Version
<1>5. CASE UNCHANGED hubVars
  BY <1>1, <1>5 DEF hubVars
<1>6. QED
  BY <1>2, <1>3, <1>4, <1>5, NextShape
     DEF vars, Accept, Greet, Serve, HangUp, Deliver, Poll, Break, Leave, Read, Answer, FailRequest

LEMMA ConnStep == ASSUME TypeInv, [Next]_vars PROVE ConnOK'
<1> USE DEF ConnOK
<1>1. ConnOK
  BY DEF TypeInv
<1>2. CASE Announce
  <2>1. due[1] \in Event
    BY <1>2 DEF TypeInv, HubOK, Announce
  <2>2. \A v \in Viewer : Put(queue[v], due[1]) \in Seq(Event)
    BY <1>1, <2>1, PutType
  <2>3. queue' \in [Viewer -> Seq(Event)]
    BY <1>1, <1>2, <2>2 DEF Announce, Publish
  <2>4. QED
    BY <1>1, <1>2, <2>3 DEF Announce
<1>3. CASE Crash
  <2>1. <<>> \in Seq(Event)
    OBVIOUS
  <2>2. QED
    BY <1>1, <1>3, <2>1 DEF Crash
<1>4. ASSUME NEW v \in Viewer, Accept(v) \/ Greet(v) \/ HangUp(v) PROVE ConnOK'
  BY <1>1, <1>4 DEF Accept, Greet, HangUp
<1>5. ASSUME NEW v \in Viewer, Serve(v) PROVE ConnOK'
  <2>1. Tail(queue[v]) \in Seq(Event)
    BY <1>1, <1>5, FirstVersion DEF Serve
  <2>2. QED
    BY <1>1, <1>5, <2>1 DEF Serve
<1>6. CASE UNCHANGED connVars
  BY <1>1, <1>6 DEF connVars
<1>7. QED
  BY <1>2, <1>3, <1>4, <1>5, <1>6, NextShape
     DEF vars, Commit, Deliver, Poll, Break, Leave, Read, Answer, FailRequest

LEMMA WireStep == ASSUME TypeInv, [Next]_vars PROVE WireOK'
<1> USE DEF WireOK
<1>1. WireOK
  BY DEF TypeInv
<1>2. <<>> \in Seq(Event)
  OBVIOUS
<1>3. CASE Crash
  BY <1>1, <1>2, <1>3 DEF Crash
<1>4. ASSUME NEW v \in Viewer, Break(v) \/ Leave(v) \/ Accept(v) PROVE WireOK'
  BY <1>1, <1>2, <1>4 DEF Break, Leave, Accept
<1>5. ASSUME NEW v \in Viewer, Serve(v) PROVE WireOK'
  <2>1. Head(queue[v]) \in Event
    BY <1>5, FirstVersion DEF Serve, TypeInv, ConnOK
  <2>2. Append(wire[v], Head(queue[v])) \in Seq(Event)
    BY <1>1, <2>1, AppendProperties
  <2>3. QED
    BY <1>1, <1>5, <2>2 DEF Serve
<1>6. ASSUME NEW v \in Viewer, Deliver(v) PROVE WireOK'
  <2>1. Tail(wire[v]) \in Seq(Event)
    BY <1>1, <1>6, FirstVersion DEF Deliver
  <2>2. QED
    BY <1>1, <1>6, <2>1 DEF Deliver
<1>7. CASE UNCHANGED <<socket, wire>>
  BY <1>1, <1>7
<1>8. QED
  BY <1>3, <1>4, <1>5, <1>6, <1>7, NextShape
     DEF vars, Commit, Announce, Greet, HangUp, Poll, Read, Answer, FailRequest

LEMMA PageStep == ASSUME TypeInv, [Next]_vars PROVE PageOK'
<1> USE DEF PageOK
<1>1. PageOK
  BY DEF TypeInv
<1>2. CASE Crash
  BY <1>1, <1>2 DEF Crash, StartPolling
<1>3. ASSUME NEW v \in Viewer, Break(v) \/ Leave(v) PROVE PageOK'
  BY <1>1, <1>3 DEF Break, Leave, StartPolling
<1>4. CASE UNCHANGED <<page, polling>>
  BY <1>1, <1>4
<1>5. QED
  BY <1>2, <1>3, <1>4, NextShape
     DEF vars, pageVars, Commit, Announce, Accept, Greet, Serve, HangUp, Deliver, Poll, Read, Answer, FailRequest

LEMMA ReadShape ==
    ASSUME TypeInv, NEW v \in Viewer, NEW i \in DOMAIN asked[v], Read(v, i)
    PROVE  \E r \in Asking :
             /\ asked' = [asked EXCEPT ![v] = [asked[v] EXCEPT ![i] = r]]
             /\ r.late = asked[v][i].late
             /\ r.scan \in {asked[v][i].scan, version} /\ r.findings \in {asked[v][i].findings, version}
<1>1. PICK part \in {"scan", "findings"} : asked' = [asked EXCEPT ![v][i][part] = version]
  BY DEF Read
<1>2. asked[v][i] \in Asking /\ version \in Version
  BY DEF TypeInv, AskedOK, HubOK
<1> DEFINE r == [asked[v][i] EXCEPT ![part] = version]
<1>3. asked' = [asked EXCEPT ![v] = [asked[v] EXCEPT ![i] = r]]
  BY <1>1
<1>4. /\ r \in Asking /\ r.late = asked[v][i].late
      /\ r.scan \in {asked[v][i].scan, version} /\ r.findings \in {asked[v][i].findings, version}
  BY <1>1, <1>2 DEF Asking, ReadVersion
<1> HIDE DEF r
<1>5. QED
  BY <1>3, <1>4

LEMMA AskedStep == ASSUME TypeInv, [Next]_vars PROVE AskedOK'
<1> USE DEF AskedOK
<1>1. AskedOK
  BY DEF TypeInv
<1>2. <<>> \in Seq(Asking)
  OBVIOUS
<1>3. CASE Crash
  BY <1>2, <1>3 DEF Crash
<1>4. ASSUME NEW v \in Viewer, Leave(v) PROVE AskedOK'
  BY <1>1, <1>2, <1>4 DEF Leave
<1>5. ASSUME NEW v \in Viewer, Refresh(v) PROVE AskedOK'
  <2>1. Append(asked[v], NewRefresh) \in Seq(Asking)
    BY <1>1, New, AppendProperties
  <2>2. QED
    BY <1>1, <1>5, <2>1 DEF Refresh
<1>6. ASSUME NEW v \in Viewer, NEW i \in DOMAIN asked[v], Read(v, i) PROVE AskedOK'
  <2>1. PICK r \in Asking : asked' = [asked EXCEPT ![v] = [asked[v] EXCEPT ![i] = r]]
    BY <1>6, ReadShape
  <2>2. asked[v] \in Seq(Asking) /\ [asked[v] EXCEPT ![i] = r] \in Seq(Asking)
    BY <1>1
  <2>3. QED
    BY <1>1, <2>1, <2>2
<1>7. ASSUME NEW v \in Viewer, NEW i \in DOMAIN asked[v], Answer(v, i) \/ FailRequest(v, i)
      PROVE  AskedOK'
  BY <1>7, SettledShape DEF Answer, FailRequest
<1>8. CASE UNCHANGED asked
  BY <1>1, <1>8
<1>9. ASSUME NEW v \in Viewer, Deliver(v) \/ Poll(v) PROVE AskedOK'
  BY <1>5, <1>8, <1>9 DEF Deliver, Poll
<1>10. QED
  BY <1>3, <1>4, <1>6, <1>7, <1>8, <1>9, NextShape
     DEF vars, pageVars, Commit, Announce, Accept, Greet, Serve, HangUp, Break

LEMMA ShownStep == ASSUME TypeInv, [Next]_vars PROVE ShownOK'
<1> USE DEF ShownOK
<1>1. ShownOK
  BY DEF TypeInv
<1>2. ASSUME NEW v \in Viewer, NEW i \in DOMAIN asked[v], Answer(v, i) \/ FailRequest(v, i)
      PROVE  ShownOK'
  <2> DEFINE r == asked[v][i]
  <2>1. r.scan \in ReadVersion /\ r.findings \in ReadVersion
    <3>1. r \in Asking
      BY DEF TypeInv, AskedOK
    <3>2. QED
      BY <3>1 DEF Asking
  <2> HIDE DEF r
  <2>2. PICK f \in Shown : UNCHANGED shown \/ (r.scan # Unread /\ shown' = [shown EXCEPT ![v] = [scan |-> r.scan, findings |-> f]])
    BY <1>2, <2>1 DEF Answer, FailRequest, Show, ReadVersion, Shown, r
  <2>3. QED
    BY <1>1, <2>1, <2>2 DEF ReadVersion, Shown
<1>3. CASE UNCHANGED shown
  BY <1>1, <1>3
<1>4. QED
  BY <1>2, <1>3, NextShape
     DEF vars, pageVars, Commit, Announce, Crash, Accept, Greet, Serve, HangUp, Deliver, Poll, Read, Break, Leave

\* What each action notes for the properties.
LEMMA HistStep == ASSUME TypeInv, [Next]_vars PROVE HistOK'
<1> USE DEF HistOK
<1>1. HistOK
  BY DEF TypeInv
<1>2. CASE Announce
  BY <1>1, <1>2 DEF Announce, Publish
<1>3. ASSUME hist' = [hist EXCEPT !.faults = @ + 1] PROVE HistOK'
  <2>1. hist.faults + 1 \in Nat
    BY <1>1
  <2> DEFINE n == hist.faults + 1
  <2>2. hist' = [hist EXCEPT !.faults = n]
    BY <1>3
  <2> HIDE DEF n
  <2>3. QED
    BY <1>1, <2>1, <2>2 DEF n
<1>4. ASSUME NEW v \in Viewer, Accept(v) PROVE HistOK'
  <2>1. (IF due = <<>> THEN version ELSE version - 1) \in Nat
    BY LiveViewAssumption DEF TypeInv, HubOK, Version
  <2> DEFINE n == IF due = <<>> THEN version ELSE version - 1
  <2>2. hist' = [hist EXCEPT !.since[v] = n]
    BY <1>4 DEF Accept
  <2> HIDE DEF n
  <2>3. QED
    BY <1>1, <2>1, <2>2 DEF n
<1>5. ASSUME NEW v \in Viewer, Deliver(v) PROVE HistOK'
  <2> DEFINE n == Head(wire[v]).v
             b == hist.heard[v] \/ n = End
             g == Append(hist.got[v], n)
  <2>1. n \in Nat
    BY <1>5, FirstVersion DEF Deliver, TypeInv, WireOK
  <2>2. hist' = [hist EXCEPT !.got[v] = g, !.heard[v] = b]
    BY <1>1, <1>5 DEF Deliver
  <2>3. b \in BOOLEAN /\ g \in Seq(Nat)
    BY <1>1, <2>1
  <2> HIDE DEF n, b, g
  <2>4. QED
    BY <1>1, <2>1, <2>2, <2>3
<1>6. ASSUME NEW v \in Viewer, NEW i \in DOMAIN asked[v], NEW o \in {"ok", "failed"}, Settle(v, i, o)
      PROVE  HistOK'
  <2> DEFINE p == IF asked[v][i].late THEN "late" ELSE o
             n == IF o = "failed" THEN hist.faults + 1 ELSE hist.faults
  <2>1. hist' = [hist EXCEPT !.outcome[v] = p, !.faults = n]
    BY <1>1, <1>6 DEF Settle
  <2>2. p \in Outcome /\ n \in Nat
    BY <1>1, <1>6 DEF Outcome
  <2> HIDE DEF p, n
  <2>3. QED
    BY <1>1, <2>1, <2>2
<1>7. ASSUME NEW v \in Viewer, NEW i \in DOMAIN asked[v], Answer(v, i) \/ FailRequest(v, i)
      PROVE  HistOK'
  BY <1>6, <1>7 DEF Answer, FailRequest
<1>8. CASE Crash \/ \E v \in Viewer : Break(v)
  BY <1>3, <1>8 DEF Crash, Break
<1>9. CASE UNCHANGED hist
  BY <1>1, <1>9
<1>10. QED
  BY <1>2, <1>4, <1>5, <1>7, <1>8, <1>9, NextShape
     DEF vars, Commit, Greet, Serve, HangUp, Poll, Read, Leave

LEMMA TypeStep == ASSUME TypeInv, [Next]_vars PROVE TypeInv'
BY HubStep, ConnStep, WireStep, PageStep, AskedStep, ShownStep, HistStep DEF TypeInv

LEMMA TypeInit == ASSUME Init PROVE TypeInv
<1> USE DEF Init
<1>1. HubOK
  BY LiveViewAssumption DEF HubOK, Version
<1>2. ConnOK /\ WireOK /\ PageOK
  BY DEF ConnOK, WireOK, PageOK
<1>3. AskedOK
  <2>1. <<NewRefresh>> \in Seq(Asking)
    BY New
  <2>2. QED
    BY <2>1 DEF AskedOK
<1>4. ShownOK
  BY DEF ShownOK, Shown
<1>5. HistOK
  BY DEF HistOK, Outcome
<1>6. QED
  BY <1>1, <1>2, <1>3, <1>4, <1>5 DEF TypeInv

\* Every variable keeps its type.
THEOREM TypeCorrect == Spec => []TypeOK
<1>1. ASSUME TypeInv PROVE TypeOK
  <2>1. Len(due) <= 1 /\ \A i \in DOMAIN due : due[i] \in Event
    <3>1. CASE due = <<>>
      BY <3>1
    <3>2. ASSUME NEW e \in Event, due = <<e>> PROVE Len(due) <= 1 /\ \A i \in DOMAIN due : due[i] \in Event
      <4>1. Len(due) = 1 /\ DOMAIN due = 1..1 /\ due[1] = e
        BY <3>2
      <4>2. QED
        BY <4>1
    <3>3. QED
      BY <1>1, <3>1, <3>2 DEF TypeInv, HubOK
  <2>2. asked \in [Viewer -> Seq([scan : ReadVersion, findings : ReadVersion, late : BOOLEAN])]
    BY <1>1 DEF TypeInv, AskedOK, Asking
  <2>3. QED
    BY <1>1, <2>1, <2>2 DEF TypeInv, TypeOK, HubOK, ConnOK, WireOK, PageOK, ShownOK
<1>2. QED
  BY <1>1, TypeInit, TypeStep, PTL DEF Spec

-----------------------------------------------------------------------------
(* What a page gets.                                                       *)

Way(v) == Join(hist.got[v], Versions(wire[v]), Versions(queue[v]))

Numbered(n, k) == [i \in 1..k |-> n + i]

\* A socket that lives, and none of whose events met its full queue.
Intact(v) == v \in subs /\ socket[v] = "open" /\ ~hist.dropped[v]

WayInv(v) ==
    /\ Increasing(Way(v)) /\ \A i \in 1..Len(Way(v)) : Way(v)[i] <= Announced
    /\ Intact(v) => /\ hist.since[v] <= Announced
                    /\ Way(v) = Numbered(hist.since[v], Announced - hist.since[v])

\* Nothing is on its way to a page whose socket was not accepted yet.
NewInv(v) == handler[v] = "none" => v \notin subs /\ Way(v) = <<>>

DueInv == due # <<>> => due[1].v = version

OrderInv == DueInv /\ \A v \in Viewer : WayInv(v) /\ NewInv(v)

LEMMA WayType ==
    ASSUME TypeInv, NEW v \in Viewer
    PROVE  /\ hist.got[v] \in Seq(Nat) /\ Versions(wire[v]) \in Seq(Nat)
           /\ Versions(queue[v]) \in Seq(Nat) /\ Way(v) \in Seq(Nat)
<1>1. wire[v] \in Seq(Event) /\ queue[v] \in Seq(Event) /\ hist.got[v] \in Seq(Nat)
  BY DEF TypeInv, WireOK, ConnOK, HistOK
<1>2. Versions(wire[v]) \in Seq(Nat) /\ Versions(queue[v]) \in Seq(Nat)
  BY <1>1, VersionsShape
<1>3. QED
  BY <1>1, <1>2, JoinShape DEF Way

LEMMA AnnouncedType == ASSUME TypeInv PROVE Announced \in Nat /\ Announced <= version /\ version \in Nat
BY LiveViewAssumption DEF TypeInv, HubOK, Version, Announced

\* The facts hold on where the way is the same.
LEMMA SameWay ==
    ASSUME TypeInv, TypeInv', NEW v \in Viewer, WayInv(v), NewInv(v),
           Way(v)' = Way(v), Announced <= Announced',
           handler'[v] = "none" => (handler[v] = "none" /\ (v \in subs' => v \in subs)),
           Intact(v)' => (Intact(v) /\ hist'.since[v] = hist.since[v] /\ Announced' = Announced)
    PROVE  WayInv(v)' /\ NewInv(v)'
<1>1. Way(v) \in Seq(Nat) /\ Announced \in Nat
  BY WayType, AnnouncedType
<1>2. Announced' \in Nat
  <2>1. version' \in Nat /\ version' - 1 \in Nat
    <3>1. version' \in 1..End /\ End \in Nat
      BY LiveViewAssumption DEF TypeInv, HubOK, Version
    <3>2. \A n \in 1..End : n \in Nat /\ n - 1 \in Nat
      BY <3>1
    <3>3. QED
      BY <3>1, <3>2
  <2>2. QED
    BY <2>1 DEF Announced
<1>3. \A i \in 1..Len(Way(v)) : Way(v)[i] \in Nat
  BY <1>1
<1>4. NewInv(v)'
  BY DEF NewInv
<1>5. WayInv(v)'
  BY <1>1, <1>2, <1>3 DEF WayInv
<1>6. QED
  BY <1>4, <1>5

LEMMA CommitKeepsOrder == ASSUME TypeInv, TypeInv', OrderInv, Commit PROVE OrderInv'
<1>1. PICK e \in Event : e.v = version + 1 /\ due' = <<e>>
  BY DEF Commit, Emits
<1>2. DueInv' /\ Announced' = Announced
  BY <1>1, AnnouncedType DEF DueInv, Announced, Commit
<1>3. ASSUME NEW v \in Viewer PROVE WayInv(v)' /\ NewInv(v)'
  <2>1. Way(v)' = Way(v) /\ (Intact(v)' => Intact(v)) /\ UNCHANGED <<handler, subs, hist>>
    BY DEF Commit, connVars, Way, Intact
  <2>2. QED
    BY <1>2, <2>1, AnnouncedType, SameWay DEF OrderInv
<1>4. QED
  BY <1>2, <1>3 DEF OrderInv

LEMMA NumberedLast ==
    ASSUME NEW n \in Nat, NEW k \in Nat
    PROVE  Numbered(n, k + 1) = Plus(Numbered(n, k), n + (k + 1))
<1>1. Numbered(n, k) \in Seq(Nat) /\ Numbered(n, k + 1) \in Seq(Nat)
  BY IsASeq DEF Numbered
<1>2. Len(Numbered(n, k)) = k /\ Len(Numbered(n, k + 1)) = k + 1
  BY DEF Numbered
<1>3. Numbered(n, k + 1)[k + 1] = n + (k + 1) /\ \A i \in 1..k : Numbered(n, k + 1)[i] = Numbered(n, k)[i]
  BY DEF Numbered
<1>4. /\ n + (k + 1) \in Nat /\ Len(Numbered(n, k + 1)) = Len(Numbered(n, k)) + 1
      /\ Numbered(n, k + 1)[Len(Numbered(n, k)) + 1] = n + (k + 1)
      /\ \A i \in 1..Len(Numbered(n, k)) : Numbered(n, k + 1)[i] = Numbered(n, k)[i]
  BY <1>2, <1>3
<1> HIDE DEF Numbered
<1>5. QED
  BY <1>1, <1>4, AddedLast

LEMMA AnnounceKeepsOrder == ASSUME TypeInv, TypeInv', OrderInv, Announce PROVE OrderInv'
<1> DEFINE e == due[1]
<1>1. e \in Event /\ e.v = version /\ version \in Nat /\ Announced' = version /\ Announced = version - 1
  BY AnnouncedType DEF TypeInv, HubOK, OrderInv, DueInv, Announce, Announced
<1>2. Announced \in Nat
  BY AnnouncedType
<1>3. ASSUME NEW v \in Viewer PROVE WayInv(v)' /\ NewInv(v)'
  <2> DEFINE s == Way(v)
  <2>1. s \in Seq(Nat) /\ queue[v] \in Seq(Event) /\ hist.got[v] \in Seq(Nat) /\ Versions(wire[v]) \in Seq(Nat) /\ Versions(queue[v]) \in Seq(Nat)
    BY WayType DEF TypeInv, ConnOK
  <2>2. WayInv(v) /\ NewInv(v)
    BY DEF OrderInv
  <2>3. /\ hist'.got = hist.got /\ hist'.since = hist.since
        /\ hist'.dropped[v] = (hist.dropped[v] \/ (v \in subs /\ Len(queue[v]) >= Capacity))
        /\ queue'[v] = IF v \in subs THEN Put(queue[v], e) ELSE queue[v]
        /\ UNCHANGED <<subs, handler, socket, wire>>
    BY DEF Announce, Publish, TypeInv, HistOK
  <2>4. CASE v \in subs /\ Len(queue[v]) < Capacity
    <3>1. Versions(queue'[v]) = Plus(Versions(queue[v]), e.v)
      BY <1>1, <2>1, <2>3, <2>4, LastVersion DEF Put
    <3>2. Way(v)' = Plus(s, e.v)
      <4>1. Way(v)' = Join(hist.got[v], Versions(wire[v]), Versions(queue'[v]))
        BY <2>3 DEF Way
      <4>2. Way(v)' = Join(hist.got[v], Versions(wire[v]), Plus(Versions(queue[v]), e.v))
        BY <3>1, <4>1
      <4>3. QED
        BY <1>1, <2>1, <4>2, Moved DEF Way
    <3>3. Increasing(s) /\ \A i \in 1..Len(s) : s[i] <= Announced
      BY <2>2 DEF WayInv
    <3> HIDE DEF s
    <3>4. Increasing(Plus(s, e.v)) /\ \A i \in 1..Len(Plus(s, e.v)) : Plus(s, e.v)[i] <= version
      <4>1. s \in Seq(Nat)
        BY <2>1 DEF s
      <4>2. Announced < e.v /\ e.v \in Nat
        BY <1>1, <1>2
      <4>3. QED
        BY <1>1, <1>2, <3>3, <4>1, <4>2, IncreasingAppend
    <3>5. ASSUME Intact(v)'
          PROVE  /\ hist'.since[v] <= Announced'
                 /\ Plus(s, e.v) = Numbered(hist'.since[v], Announced' - hist'.since[v])
      <4>1. Intact(v) /\ hist.since[v] \in Nat /\ hist.since[v] <= Announced
            /\ s = Numbered(hist.since[v], Announced - hist.since[v])
        BY <2>2, <2>3, <3>5 DEF Intact, WayInv, TypeInv, HistOK, s
      <4> DEFINE n == hist.since[v]
                 k == Announced - hist.since[v]
      <4>2. n \in Nat /\ k \in Nat /\ n + (k + 1) = e.v /\ k + 1 = Announced' - n
        BY <1>1, <1>2, <4>1
      <4> HIDE DEF n, k
      <4>3. Numbered(n, k + 1) = Plus(Numbered(n, k), e.v)
        BY <4>2, NumberedLast
      <4>4. QED
        BY <1>1, <1>2, <2>3, <4>1, <4>2, <4>3 DEF n, k
    <3>6. NewInv(v)'
      BY <2>2, <2>3, <2>4 DEF NewInv
    <3>7. QED
      BY <1>1, <3>2, <3>4, <3>5, <3>6 DEF WayInv
  <2>5. CASE ~(v \in subs /\ Len(queue[v]) < Capacity)
    <3>1. queue'[v] = queue[v] /\ Capacity \in Nat /\ Len(queue[v]) \in Nat
      BY <2>1, <2>3, <2>5, LiveViewAssumption DEF Put
    <3>2. Way(v)' = Way(v) /\ ~Intact(v)'
      <4>1. Way(v)' = Way(v)
        BY <2>3, <3>1 DEF Way
      <4>2. v \in subs => hist'.dropped[v]
        <5>1. Len(queue[v]) \in Nat /\ Capacity \in Nat
          BY <2>1, LiveViewAssumption
        <5>2. v \in subs => Len(queue[v]) >= Capacity
          BY <2>5, <5>1
        <5>3. QED
          BY <2>3, <5>2
      <4>3. QED
        BY <2>3, <4>1, <4>2 DEF Intact
    <3>3. QED
      BY <1>1, <1>2, <2>2, <2>3, <3>2, SameWay
  <2>6. QED
    BY <2>4, <2>5
<1>4. DueInv'
  BY DEF DueInv, Announce
<1>5. QED
  BY <1>3, <1>4 DEF OrderInv

\* Steps that only the way of one page is about.
LEMMA OthersWay ==
    ASSUME TypeInv, TypeInv', OrderInv, UNCHANGED hubVars, NEW v \in Viewer,
           WayInv(v)' /\ NewInv(v)',
           \A w \in Viewer \ {v} :
             /\ queue'[w] = queue[w] /\ wire'[w] = wire[w] /\ hist'.got[w] = hist.got[w]
             /\ hist'.since[w] = hist.since[w] /\ hist'.dropped[w] = hist.dropped[w]
             /\ socket'[w] = socket[w] /\ handler'[w] = handler[w] /\ (w \in subs' <=> w \in subs)
    PROVE  OrderInv'
<1>1. DueInv' /\ Announced' = Announced
  BY DEF hubVars, OrderInv, DueInv, Announced
<1>2. ASSUME NEW w \in Viewer \ {v} PROVE WayInv(w)' /\ NewInv(w)'
  <2>1. Way(w)' = Way(w) /\ (Intact(w)' => Intact(w))
    BY DEF Way, Intact
  <2>2. QED
    BY <1>1, <2>1, AnnouncedType, SameWay DEF OrderInv
<1>3. QED
  BY <1>1, <1>2 DEF OrderInv

LEMMA AcceptKeepsOrder ==
    ASSUME TypeInv, TypeInv', OrderInv, NEW v \in Viewer, Accept(v) PROVE OrderInv'
<1>1. WayInv(v) /\ NewInv(v) /\ Way(v) = <<>> /\ hist.got[v] = hist'.got[v]
  BY DEF OrderInv, NewInv, Accept, TypeInv, HistOK
<1>2. /\ hist'.since[v] = Announced /\ Announced' = Announced /\ Announced \in Nat
      /\ Way(v)' = Way(v)
  BY <1>1, AnnouncedType DEF Accept, Announced, hubVars, Way, TypeInv, HistOK
<1>3. Numbered(Announced, Announced - Announced) = <<>>
  BY <1>2 DEF Numbered
<1>4. WayInv(v)'
  BY <1>1, <1>2, <1>3 DEF WayInv
<1>5. NewInv(v)'
  BY DEF NewInv, Accept, TypeInv, ConnOK
<1>6. \A w \in Viewer \ {v} :
        /\ hist'.got[w] = hist.got[w] /\ hist'.since[w] = hist.since[w] /\ hist'.dropped[w] = hist.dropped[w]
        /\ socket'[w] = socket[w] /\ handler'[w] = handler[w] /\ (w \in subs' <=> w \in subs)
  BY DEF Accept, TypeInv, HistOK, WireOK, ConnOK
<1>7. QED
  BY <1>4, <1>5, <1>6, OthersWay DEF Accept

LEMMA ServeKeepsOrder ==
    ASSUME TypeInv, TypeInv', OrderInv, NEW v \in Viewer, Serve(v) PROVE OrderInv'
<1> DEFINE e == Head(queue[v])
           g == hist.got[v]
           w == Versions(wire[v])
           q == Versions(Tail(queue[v]))
<1>1. /\ e \in Event /\ e.v \in Nat /\ Tail(queue[v]) \in Seq(Event) /\ wire[v] \in Seq(Event)
      /\ Versions(queue[v]) = Before(e.v, q)
  BY FirstVersion DEF Serve, TypeInv, ConnOK, WireOK
<1>2. g \in Seq(Nat) /\ w \in Seq(Nat) /\ q \in Seq(Nat)
  BY <1>1, VersionsShape, WayType
<1>3. wire'[v] = Append(wire[v], e) /\ queue'[v] = Tail(queue[v]) /\ hist' = hist
  BY DEF Serve, TypeInv, ConnOK, WireOK
<1>4. Versions(wire'[v]) = Plus(w, e.v)
  BY <1>1, <1>3, LastVersion
<1>5. Way(v) = Join(g, w, Before(e.v, q)) /\ Way(v)' = Join(g, Plus(w, e.v), q)
  BY <1>1, <1>3, <1>4 DEF Way
<1> HIDE DEF e, g, w, q
<1>6. Way(v)' = Way(v)
  <2>1. e.v \in Nat
    BY <1>1
  <2>2. QED
    BY <1>2, <1>5, <2>1, Moved
<1>7. WayInv(v)' /\ NewInv(v)'
  BY <1>6, SameWay, AnnouncedType DEF OrderInv, Serve, Intact, hubVars, Announced
<1>8. \A x \in Viewer \ {v} : queue'[x] = queue[x] /\ wire'[x] = wire[x]
  BY DEF Serve, TypeInv, ConnOK, WireOK
<1>9. QED
  BY <1>7, <1>8, OthersWay DEF Serve

LEMMA DeliverKeepsOrder ==
    ASSUME TypeInv, TypeInv', OrderInv, NEW v \in Viewer, Deliver(v) PROVE OrderInv'
<1> DEFINE e == Head(wire[v])
           g == hist.got[v]
           w == Versions(Tail(wire[v]))
           q == Versions(queue[v])
<1>1. /\ e \in Event /\ e.v \in Nat /\ Tail(wire[v]) \in Seq(Event)
      /\ Versions(wire[v]) = Before(e.v, w)
  BY FirstVersion DEF Deliver, TypeInv, WireOK
<1>2. g \in Seq(Nat) /\ w \in Seq(Nat) /\ q \in Seq(Nat)
  BY <1>1, VersionsShape, WayType
<1>3. /\ wire'[v] = Tail(wire[v]) /\ queue'[v] = queue[v] /\ hist'.got[v] = Append(g, e.v)
      /\ hist'.since = hist.since /\ hist'.dropped = hist.dropped
      /\ \A x \in Viewer \ {v} : wire'[x] = wire[x] /\ hist'.got[x] = hist.got[x]
  BY DEF Deliver, connVars, TypeInv, WireOK, HistOK
<1>4. Way(v) = Join(g, Before(e.v, w), q) /\ Way(v)' = Join(Append(g, e.v), w, q)
  BY <1>1, <1>3 DEF Way
<1> HIDE DEF e, g, w, q
<1>5. Way(v)' = Way(v)
  <2>1. e.v \in Nat
    BY <1>1
  <2>2. QED
    BY <1>2, <1>4, <2>1, Moved
<1>6. WayInv(v)' /\ NewInv(v)'
  BY <1>3, <1>5, SameWay, AnnouncedType DEF OrderInv, Deliver, Intact, hubVars, connVars, Announced
<1>7. QED
  BY <1>3, <1>6, OthersWay DEF Deliver, connVars

\* A page loses its socket, with what is on it.
LEMMA ClosedKeepsOrder ==
    ASSUME TypeInv, TypeInv', OrderInv, NEW v \in Viewer, Break(v) \/ Leave(v) PROVE OrderInv'
<1>1. /\ wire'[v] = <<>> /\ socket'[v] = "closed" /\ UNCHANGED <<hubVars, connVars>>
      /\ hist'.got = hist.got /\ hist'.since = hist.since /\ hist'.dropped = hist.dropped
      /\ \A x \in Viewer \ {v} : wire'[x] = wire[x] /\ socket'[x] = socket[x]
  BY DEF Break, Leave, TypeInv, WireOK, HistOK
<1> DEFINE g == hist.got[v]
           w == Versions(wire[v])
           q == Versions(queue[v])
<1>2. g \in Seq(Nat) /\ w \in Seq(Nat) /\ q \in Seq(Nat) /\ Announced \in Nat /\ Announced' = Announced
  BY <1>1, WayType, AnnouncedType DEF hubVars, Announced
<1>3. Way(v) = Join(g, w, q) /\ Way(v)' = Join(g, <<>>, q)
  BY <1>1, NoVersions DEF Way, connVars
<1>4. WayInv(v) /\ NewInv(v)
  BY DEF OrderInv
<1> HIDE DEF g, w, q
<1>5. WayInv(v)'
  <2>1. /\ Increasing(Join(g, <<>>, q))
        /\ \A i \in 1..Len(Join(g, <<>>, q)) : Join(g, <<>>, q)[i] <= Announced
    BY <1>2, <1>3, <1>4, StillIncreasing DEF WayInv
  <2>2. QED
    BY <1>1, <1>2, <1>3, <2>1 DEF WayInv, Intact
<1>6. NewInv(v)'
  <2>1. Way(v) = <<>> => Join(g, <<>>, q) = <<>>
    BY <1>2, <1>3, JoinShape
  <2>2. QED
    BY <1>1, <1>3, <1>4, <2>1 DEF NewInv, connVars
<1>7. QED
  BY <1>1, <1>5, <1>6, OthersWay DEF connVars

LEMMA CrashKeepsOrder == ASSUME TypeInv, TypeInv', OrderInv, Crash PROVE OrderInv'
<1>1. DueInv' /\ Announced' = End /\ Announced \in Nat /\ Announced <= End /\ End \in Nat
  BY AnnouncedType, LiveViewAssumption DEF Crash, DueInv, Announced
<1>2. ASSUME NEW v \in Viewer PROVE WayInv(v)' /\ NewInv(v)'
  <2> DEFINE g == hist.got[v]
  <2>1. /\ wire'[v] = <<>> /\ queue'[v] = <<>> /\ hist'.got[v] = g /\ handler'[v] = "ended" /\ subs' = {}
    BY DEF Crash, TypeInv, HistOK
  <2>2. g \in Seq(Nat) /\ Versions(wire[v]) \in Seq(Nat) /\ Versions(queue[v]) \in Seq(Nat)
    BY WayType
  <2>3. Way(v)' = Join(g, <<>>, <<>>)
    BY <2>1, NoVersions DEF Way
  <2>4. Increasing(Way(v)) /\ \A i \in 1..Len(Way(v)) : Way(v)[i] <= Announced
    BY DEF OrderInv, WayInv
  <2> DEFINE all == Join(g, <<>>, <<>>)
  <2>5. Increasing(all) /\ \A i \in 1..Len(all) : all[i] <= Announced
    BY <1>1, <2>2, <2>4, StillIncreasing DEF Way
  <2>6. all \in Seq(Nat)
    BY <2>2, JoinShape, EmptySeq
  <2> HIDE DEF all
  <2>7. \A i \in 1..Len(all) : (all[i] \in Nat /\ all[i] <= End)
    BY <1>1, <2>5, <2>6
  <2>8. QED
    BY <1>1, <2>1, <2>3, <2>5, <2>7 DEF WayInv, NewInv, Intact, all
<1>3. QED
  BY <1>1, <1>2 DEF OrderInv

LEMMA OrderStep == ASSUME TypeInv, TypeInv', OrderInv, [Next]_vars PROVE OrderInv'
<1>1. ASSUME NEW v \in Viewer, \/ Greet(v) \/ HangUp(v) \/ Poll(v)
                               \/ \E i \in DOMAIN asked[v] : Read(v, i) \/ Answer(v, i) \/ FailRequest(v, i)
      PROVE  OrderInv'
  <2>1. /\ UNCHANGED <<hubVars, queue, socket, wire>>
        /\ hist'.got = hist.got /\ hist'.since = hist.since /\ hist'.dropped = hist.dropped
        /\ \A x \in Viewer \ {v} : handler'[x] = handler[x] /\ (x \in subs' <=> x \in subs)
        /\ subs' \subseteq subs /\ (handler'[v] = "none" => handler[v] = "none")
    <3>1. CASE Greet(v) \/ HangUp(v) \/ Poll(v)
      BY <3>1 DEF Greet, HangUp, Poll, connVars, TypeInv, ConnOK
    <3>2. ASSUME NEW i \in DOMAIN asked[v], Read(v, i) \/ Answer(v, i) \/ FailRequest(v, i)
          PROVE  /\ UNCHANGED <<hubVars, connVars, socket, wire>>
                 /\ hist'.got = hist.got /\ hist'.since = hist.since /\ hist'.dropped = hist.dropped
      BY <3>2 DEF Read, Answer, FailRequest, Settle, TypeInv, HistOK
    <3>3. QED
      BY <1>1, <3>1, <3>2 DEF connVars
  <2>2. Way(v)' = Way(v) /\ Announced' = Announced /\ (Intact(v)' => Intact(v))
    BY <2>1 DEF Way, Intact, hubVars, Announced
  <2>3. WayInv(v)' /\ NewInv(v)'
    BY <2>1, <2>2, SameWay, AnnouncedType DEF OrderInv
  <2>4. QED
    BY <2>1, <2>3, OthersWay
<1>2. CASE UNCHANGED vars
  <2>1. DueInv' /\ Announced' = Announced
    BY <1>2 DEF vars, hubVars, OrderInv, DueInv, Announced
  <2>2. ASSUME NEW v \in Viewer PROVE WayInv(v)' /\ NewInv(v)'
    <3>1. Way(v)' = Way(v) /\ (Intact(v)' => Intact(v)) /\ UNCHANGED <<handler, subs, hist>>
      BY <1>2 DEF vars, connVars, Way, Intact
    <3>2. QED
      BY <2>1, <3>1, AnnouncedType, SameWay DEF OrderInv
  <2>3. QED
    BY <2>1, <2>2 DEF OrderInv
<1>3. QED
  BY <1>1, <1>2, NextShape, CommitKeepsOrder, AnnounceKeepsOrder, CrashKeepsOrder,
     AcceptKeepsOrder, ServeKeepsOrder, DeliverKeepsOrder, ClosedKeepsOrder

LEMMA OrderInit == ASSUME Init PROVE OrderInv
<1>1. ASSUME NEW v \in Viewer PROVE Way(v) = <<>> /\ v \notin subs
  BY NoVersions, JoinShape, EmptySeq DEF Init, Way
<1>2. QED
  BY <1>1 DEF Init, OrderInv, DueInv, WayInv, NewInv, Intact, Increasing

\* publish and scan_progress: a page gets every event since it subscribed,
\* once and in order, while its socket lives and its queue has room.
THEOREM OrderCorrect == Spec => []EventsInOrder
<1>1. ASSUME TypeInv, OrderInv PROVE EventsInOrder
  <2>1. ASSUME NEW v \in Viewer
        PROVE  /\ \A i \in 1..Len(OnTheWay(v)) - 1 : OnTheWay(v)[i] < OnTheWay(v)[i + 1]
               /\ v \in subs /\ socket[v] = "open" /\ ~hist.dropped[v] =>
                    OnTheWay(v) = [i \in 1..Announced - hist.since[v] |-> hist.since[v] + i]
    <3>1. OnTheWay(v) = Way(v)
      BY DEF OnTheWay, Way, Versions, Join
    <3>2. Way(v) \in Seq(Nat) /\ WayInv(v)
      BY <1>1, <2>1, WayType DEF OrderInv
    <3>3. \A i \in 1..Len(Way(v)) - 1 : (i \in 1..Len(Way(v)) /\ i + 1 \in 1..Len(Way(v)) /\ i < i + 1)
      BY <3>2
    <3>4. QED
      BY <3>1, <3>2, <3>3 DEF WayInv, Increasing, Numbered, Intact
  <2>2. QED
    BY <2>1 DEF EventsInOrder
<1>2. QED
  BY <1>1, TypeInit, TypeStep, OrderInit, OrderStep, PTL DEF Spec

-----------------------------------------------------------------------------
(* What a quiet page shows.                                                *)

\* An event that may be on its way: the last one is an update.
Sent == {e \in Event : e.v <= version /\ (e.v = End => e.update)}

SentInv ==
    /\ due = <<>> \/ \E e \in Sent : due = <<e>>
    /\ \A v \in Viewer : queue[v] \in Seq(Sent) /\ wire[v] \in Seq(Sent)

\* A refresh that can only show the end.
Fresh(r) == r.scan \in {Unread, End} /\ r.findings \in {Unread, End}

\* Once a page heard the end, each refresh under way shows the end, or does
\* not count, or a later one shows the end; and so what it shows is the end.
PageInv(v) ==
    /\ \A j \in 1..Len(asked[v]) :
         \/ Fresh(asked[v][j]) \/ asked[v][j].late
         \/ \E k \in 1..Len(asked[v]) : k > j /\ Fresh(asked[v][k])
    /\ asked[v] = <<>> /\ hist.outcome[v] = "ok" => shown[v] = [scan |-> End, findings |-> End]

QuietInv(v) == hist.heard[v] => version = End /\ (page[v] = "here" => PageInv(v))

QuietsInv == \A v \in Viewer : QuietInv(v)

LEMMA SentGrows ==
    ASSUME TypeInv, TypeInv', version <= version' PROVE Sent \subseteq Sent'
<1>1. version \in Nat /\ version' \in Nat /\ \A e \in Event : e.v \in Nat
  BY LiveViewAssumption, EventVersion DEF TypeInv, HubOK, Version
<1>2. QED
  BY <1>1 DEF Sent

LEMMA SentStep == ASSUME TypeInv, TypeInv', SentInv, [Next]_vars PROVE SentInv'
<1>1. version \in Nat /\ version' \in Nat /\ End \in Nat /\ version <= End
  BY LiveViewAssumption DEF TypeInv, HubOK, Version
<1>2. version <= version'
  <2>1. CASE Commit
    BY <1>1, <2>1 DEF Commit
  <2>2. CASE Crash
    BY <1>1, <2>2 DEF Crash
  <2>3. CASE version' = version
    BY <1>1, <2>3
  <2>4. QED
    BY <2>1, <2>2, <2>3, NextShape DEF vars, hubVars, Announce, Accept, Greet, Serve, HangUp,
       Deliver, Poll, Break, Leave, Read, Answer, FailRequest
<1>3. Sent \subseteq Sent'
  BY <1>2, SentGrows
<1>4. \A v \in Viewer : queue[v] \in Seq(Sent') /\ wire[v] \in Seq(Sent')
  BY <1>3, SeqMonotonic DEF SentInv
<1>5. due' = <<>> \/ \E e \in Sent' : due' = <<e>>
  <2>1. CASE Commit
    <3>1. PICK e \in Emits(version + 1) : due' = <<e>>
      BY <2>1 DEF Commit
    <3>2. e \in Sent'
      BY <1>1, <2>1, <3>1 DEF Commit, Emits, Sent
    <3>3. QED
      BY <3>1, <3>2
  <2>2. CASE due' = <<>>
    BY <2>2
  <2>3. CASE due' = due
    BY <1>3, <2>3 DEF SentInv
  <2>4. QED
    BY <2>1, <2>2, <2>3, NextShape DEF vars, hubVars, Announce, Crash, Accept, Greet, Serve, HangUp,
       Deliver, Poll, Break, Leave, Read, Answer, FailRequest
<1>6. <<>> \in Seq(Sent')
  BY EmptySeq
<1>7. ASSUME NEW v \in Viewer PROVE queue'[v] \in Seq(Sent') /\ wire'[v] \in Seq(Sent')
  <2>1. CASE Announce
    <3>1. due[1] \in Sent'
      BY <1>3, <2>1 DEF Announce, SentInv
    <3>2. Put(queue[v], due[1]) \in Seq(Sent')
      BY <1>4, <3>1, AppendProperties DEF Put
    <3>3. QED
      BY <1>4, <2>1, <3>2 DEF Announce, Publish
  <2>2. CASE Crash
    BY <1>6, <2>2 DEF Crash
  <2>3. ASSUME NEW w \in Viewer, Serve(w) PROVE queue'[v] \in Seq(Sent') /\ wire'[v] \in Seq(Sent')
    <3>1. Head(queue[w]) \in Sent' /\ Tail(queue[w]) \in Seq(Sent')
      BY <1>4, <2>3, HeadTailProperties DEF Serve
    <3>2. Append(wire[w], Head(queue[w])) \in Seq(Sent')
      BY <1>4, <3>1, AppendProperties
    <3>3. QED
      BY <1>4, <2>3, <3>1, <3>2 DEF Serve, TypeInv, ConnOK, WireOK
  <2>4. ASSUME NEW w \in Viewer, Deliver(w) PROVE queue'[v] \in Seq(Sent') /\ wire'[v] \in Seq(Sent')
    <3>1. Tail(wire[w]) \in Seq(Sent')
      BY <1>4, <2>4, HeadTailProperties DEF Deliver
    <3>2. QED
      BY <1>4, <2>4, <3>1 DEF Deliver, connVars, TypeInv, WireOK
  <2>5. ASSUME NEW w \in Viewer, Break(w) \/ Leave(w)
        PROVE  queue'[v] \in Seq(Sent') /\ wire'[v] \in Seq(Sent')
    BY <1>4, <1>6, <2>5 DEF Break, Leave, connVars, TypeInv, WireOK
  <2>6. CASE UNCHANGED <<queue, wire>>
    BY <1>4, <2>6
  <2>7. QED
    BY <2>1, <2>2, <2>3, <2>4, <2>5, <2>6, NextShape
       DEF vars, connVars, Commit, Accept, Greet, HangUp, Poll, Read, Answer, FailRequest
<1>8. QED
  BY <1>5, <1>7 DEF SentInv

\* Steps that change nothing of what the fact says of a page.
LEMMA SameQuiet ==
    ASSUME NEW v \in Viewer, QuietInv(v), version' = version \/ ~hist'.heard[v],
           hist'.heard[v] => hist.heard[v], page'[v] = "here" => page[v] = "here",
           asked'[v] = asked[v], shown'[v] = shown[v], hist'.outcome[v] = hist.outcome[v]
    PROVE  QuietInv(v)'
BY DEF QuietInv, PageInv

\* A refresh asked once the scan ended.
LEMMA RefreshKeepsQuiet ==
    ASSUME TypeInv, NEW v \in Viewer, Refresh(v) PROVE PageInv(v)'
<1> DEFINE s == asked[v]
           t == Append(s, NewRefresh)
<1>1. s \in Seq(Asking) /\ asked'[v] = t
  BY DEF Refresh, TypeInv, AskedOK
<1>2. Len(t) = Len(s) + 1 /\ t[Len(s) + 1] = NewRefresh /\ Len(s) \in Nat /\ t # <<>>
  BY <1>1
<1>3. Fresh(NewRefresh)
  BY DEF Fresh, NewRefresh
<1> HIDE DEF t, s
<1>4. ASSUME NEW j \in 1..Len(t)
      PROVE  Fresh(t[j]) \/ \E k \in 1..Len(t) : k > j /\ Fresh(t[k])
  <2>1. CASE j = Len(s) + 1
    BY <1>2, <1>3, <2>1
  <2>2. CASE j # Len(s) + 1
    <3>1. Len(s) + 1 \in 1..Len(t) /\ Len(s) + 1 > j
      BY <1>2, <2>2
    <3>2. QED
      BY <1>2, <1>3, <3>1
  <2>3. QED
    BY <2>1, <2>2
<1>5. QED
  BY <1>1, <1>2, <1>4 DEF PageInv

LEMMA ReadKeepsQuiet ==
    ASSUME TypeInv, NEW v \in Viewer, NEW i \in DOMAIN asked[v], Read(v, i), version = End, PageInv(v)
    PROVE  PageInv(v)'
<1>1. PICK r \in Asking :
        /\ asked' = [asked EXCEPT ![v] = [asked[v] EXCEPT ![i] = r]]
        /\ r.late = asked[v][i].late
        /\ r.scan \in {asked[v][i].scan, version} /\ r.findings \in {asked[v][i].findings, version}
  BY ReadShape
<1> DEFINE s == asked[v]
           t == [s EXCEPT ![i] = r]
<1>2. s \in Seq(Asking) /\ asked'[v] = t /\ i \in 1..Len(s)
  BY <1>1 DEF TypeInv, AskedOK
<1>3. Len(t) = Len(s) /\ (\A j \in 1..Len(s) : t[j] = IF j = i THEN r ELSE s[j]) /\ t # <<>>
  <2>1. Len(t) = Len(s) /\ \A j \in 1..Len(s) : t[j] = IF j = i THEN r ELSE s[j]
    BY <1>2, ExceptSeq
  <2>2. QED
    BY <1>2, <2>1
<1>4. Fresh(s[i]) => Fresh(r)
  BY <1>1 DEF Fresh
<1> HIDE DEF t, s
<1>5. \A j \in 1..Len(s) : (Fresh(s[j]) => Fresh(t[j])) /\ (s[j].late => t[j].late)
  BY <1>1, <1>3, <1>4 DEF s
<1>6. \A j \in 1..Len(s) : Fresh(s[j]) \/ s[j].late \/ \E k \in 1..Len(s) : k > j /\ Fresh(s[k])
  BY DEF PageInv, s
<1>7. QED
  BY <1>2, <1>3, <1>5, <1>6 DEF PageInv

\* A refresh that ends: those before it do not count any more.
LEMMA SettleKeepsQuiet ==
    ASSUME TypeInv, NEW v \in Viewer, NEW i \in DOMAIN asked[v], PageInv(v),
           Answer(v, i) \/ FailRequest(v, i)
    PROVE  PageInv(v)'
<1> DEFINE s == asked[v]
           t == asked'[v]
<1>1. s \in Seq(Asking) /\ i \in 1..Len(s) /\ Len(s) \in Nat
  BY DEF TypeInv, AskedOK
<1>2. PICK o \in {"ok", "failed"} : Settle(v, i, o) /\ (o = "ok" => Answer(v, i))
  BY DEF Answer, FailRequest
<1>3. /\ t \in Seq(Asking) /\ Len(t) = Len(s) - 1
      /\ \A j \in 1..Len(t) : t[j] = IF j < i THEN [s[j] EXCEPT !.late = TRUE] ELSE s[j + 1]
  BY <1>2, SettledShape DEF TypeInv, AskedOK
<1>4. \A j \in 1..Len(s) : Fresh(s[j]) \/ s[j].late \/ \E k \in 1..Len(s) : k > j /\ Fresh(s[k])
  BY DEF PageInv
<1>5. \A j \in 1..Len(s) : s[j] \in Asking
  BY <1>1
<1>6. ASSUME t = <<>>, hist'.outcome[v] = "ok" PROVE shown'[v] = [scan |-> End, findings |-> End]
  <2>1. Len(s) = 1 /\ i = 1
    BY <1>1, <1>3, <1>6
  <2>2. hist'.outcome[v] = IF s[i].late THEN "late" ELSE o
    BY <1>2 DEF Settle, TypeInv, HistOK
  <2>3. o = "ok" /\ ~s[i].late
    BY <1>6, <2>2
  <2>4. Fresh(s[i])
    BY <1>4, <2>1, <2>3
  <2>5. s[i].scan # Unread /\ s[i].findings # Unread /\ shown'[v] = [scan |-> s[i].scan, findings |-> s[i].findings]
    BY <1>2, <2>3 DEF Answer, Show, TypeInv, ShownOK
  <2>6. QED
    BY <2>4, <2>5 DEF Fresh
<1> HIDE DEF s, t
<1>7. ASSUME NEW j \in 1..Len(t)
      PROVE  Fresh(t[j]) \/ t[j].late \/ \E k \in 1..Len(t) : k > j /\ Fresh(t[k])
  <2>0. j \in 1..Len(s) /\ j + 1 \in 1..Len(s)
    BY <1>1, <1>3
  <2>1. CASE j < i
    <3>1. s[j] \in Asking /\ t[j] = [s[j] EXCEPT !.late = TRUE]
      BY <1>3, <1>5, <2>0, <2>1
    <3>2. QED
      BY <3>1 DEF Asking
  <2>2. CASE ~(j < i)
    <3>1. j + 1 \in 1..Len(s) /\ t[j] = s[j + 1]
      BY <1>3, <2>0, <2>2
    <3>2. CASE Fresh(s[j + 1]) \/ s[j + 1].late
      BY <3>1, <3>2
    <3>3. ASSUME NEW k \in 1..Len(s), k > j + 1, Fresh(s[k])
          PROVE  \E l \in 1..Len(t) : l > j /\ Fresh(t[l])
      <4>1. k - 1 \in 1..Len(t) /\ k - 1 > j /\ ~(k - 1 < i) /\ (k - 1) + 1 = k
        BY <1>1, <1>3, <2>2, <3>3
      <4>2. t[k - 1] = s[k]
        BY <1>3, <4>1
      <4>3. QED
        BY <3>3, <4>1, <4>2
    <3>4. QED
      BY <1>4, <3>1, <3>2, <3>3
  <2>3. QED
    BY <2>1, <2>2
<1>8. QED
  BY <1>6, <1>7 DEF PageInv, t

LEMMA QuietStep == ASSUME TypeInv, TypeInv', SentInv, QuietsInv, [Next]_vars PROVE QuietsInv'
<1>1. version \in Nat /\ End \in Nat /\ version <= End
  BY LiveViewAssumption DEF TypeInv, HubOK, Version
<1>2. SUFFICES ASSUME NEW w \in Viewer PROVE QuietInv(w)'
  BY DEF QuietsInv
<1>3. QuietInv(w)
  BY DEF QuietsInv
<1>4. ASSUME NEW v \in Viewer, Deliver(v) PROVE QuietInv(w)'
  <2> DEFINE e == Head(wire[v])
  <2>1. e \in Sent
    BY <1>4, HeadTailProperties DEF Deliver, SentInv
  <2>2. /\ IF e.update THEN Refresh(v) ELSE UNCHANGED asked
        /\ hist'.outcome = hist.outcome /\ UNCHANGED <<page, shown, version>> /\ page[v] = "here"
        /\ hist'.heard[v] = (hist.heard[v] \/ e.v = End)
    BY <1>4 DEF Deliver, hubVars, TypeInv, HistOK
  <2>3. w # v => hist'.heard[w] = hist.heard[w] /\ asked'[w] = asked[w]
    BY <1>4 DEF Deliver, Refresh, TypeInv, HistOK, AskedOK
  <2> HIDE DEF e
  <2>4. CASE w # v
    BY <1>3, <2>2, <2>3, <2>4, SameQuiet
  <2>5. CASE w = v /\ e.update
    <3>1. PageInv(w)'
      BY <2>2, <2>5, RefreshKeepsQuiet
    <3>2. e.v <= version
      BY <2>1 DEF Sent
    <3>3. hist.heard[w] \/ e.v = End => version = End
      BY <1>1, <1>3, <3>2 DEF QuietInv
    <3>4. hist'.heard[w] => version' = End
      BY <2>2, <2>5, <3>3
    <3>5. QED
      BY <3>1, <3>4 DEF QuietInv
  <2>6. CASE w = v /\ ~e.update
    <3>1. e.v # End
      BY <2>1, <2>6 DEF Sent
    <3>2. QED
      BY <1>3, <2>2, <2>6, <3>1, SameQuiet
  <2>7. QED
    BY <2>4, <2>5, <2>6
<1>5. ASSUME NEW v \in Viewer, Poll(v) PROVE QuietInv(w)'
  <2>1. UNCHANGED <<version, page, shown, hist>> /\ Refresh(v)
    BY <1>5 DEF Poll, hubVars
  <2>2. CASE w # v
    BY <1>3, <2>1, <2>2, SameQuiet DEF Refresh, TypeInv, AskedOK
  <2>3. CASE w = v
    BY <1>3, <2>1, <2>3, RefreshKeepsQuiet DEF QuietInv
  <2>4. QED
    BY <2>2, <2>3
<1>6. ASSUME NEW v \in Viewer, NEW i \in DOMAIN asked[v], Read(v, i) PROVE QuietInv(w)'
  <2>1. UNCHANGED <<version, page, shown, hist>>
    BY <1>6 DEF Read, hubVars
  <2>2. CASE w # v
    <3>1. asked'[w] = asked[w]
      BY <1>6, <2>2 DEF Read, TypeInv, AskedOK
    <3>2. QED
      BY <1>3, <2>1, <3>1, SameQuiet
  <2>3. CASE w = v
    BY <1>3, <1>6, <2>1, <2>3, ReadKeepsQuiet DEF QuietInv
  <2>4. QED
    BY <2>2, <2>3
<1>7. ASSUME NEW v \in Viewer, NEW i \in DOMAIN asked[v], Answer(v, i) \/ FailRequest(v, i)
      PROVE  QuietInv(w)'
  <2>1. UNCHANGED <<version, page>> /\ hist'.heard = hist.heard
    BY <1>7 DEF Answer, FailRequest, Settle, hubVars, TypeInv, HistOK
  <2>2. CASE w # v
    <3>1. hist'.outcome[w] = hist.outcome[w]
      <4>1. ASSUME NEW o \in {"ok", "failed"}, Settle(v, i, o) PROVE hist'.outcome[w] = hist.outcome[w]
        <5> DEFINE p == IF asked[v][i].late THEN "late" ELSE o
                   n == IF o = "failed" THEN hist.faults + 1 ELSE hist.faults
        <5>1. hist' = [hist EXCEPT !.outcome[v] = p, !.faults = n]
          BY <4>1 DEF Settle, TypeInv, HistOK
        <5> HIDE DEF p, n
        <5>2. QED
          BY <2>2, <5>1 DEF TypeInv, HistOK
      <4>2. QED
        BY <1>7, <4>1 DEF Answer, FailRequest
    <3>2. shown'[w] = shown[w]
      BY <1>7, <2>2 DEF Answer, FailRequest, Show, TypeInv, ShownOK
    <3>3. asked'[w] = asked[w]
      BY <1>7, <2>2, SettledShape DEF Answer, FailRequest
    <3>4. QED
      BY <1>3, <2>1, <3>1, <3>2, <3>3, SameQuiet
  <2>3. CASE w = v
    BY <1>3, <1>7, <2>1, <2>3, SettleKeepsQuiet DEF QuietInv
  <2>4. QED
    BY <2>2, <2>3
<1>8. CASE Commit \/ Crash
  <2>1. hist'.heard = hist.heard /\ version < End
    BY <1>8 DEF Commit, Crash, TypeInv, HistOK
  <2>2. QED
    BY <1>1, <1>3, <2>1 DEF QuietInv
<1>9. ASSUME NEW v \in Viewer, Leave(v) PROVE QuietInv(w)'
  <2>1. CASE w = v
    BY <1>3, <1>9, <2>1 DEF QuietInv, Leave, hubVars, TypeInv, PageOK
  <2>2. CASE w # v
    BY <1>3, <1>9, <2>2, SameQuiet DEF Leave, hubVars, TypeInv, PageOK, AskedOK
  <2>3. QED
    BY <2>1, <2>2
<1>10. CASE /\ UNCHANGED <<version, page, asked, shown>>
            /\ hist'.heard = hist.heard /\ hist'.outcome = hist.outcome
  BY <1>3, <1>10, SameQuiet
<1>11. CASE UNCHANGED vars \/ Announce \/ \E v \in Viewer : Accept(v) \/ Greet(v) \/ Serve(v) \/ HangUp(v) \/ Break(v)
  <2>1. UNCHANGED <<version, page, asked, shown>> /\ hist'.heard = hist.heard /\ hist'.outcome = hist.outcome
    BY <1>11 DEF vars, hubVars, pageVars, Announce, Publish, Accept, Greet, Serve, HangUp, Break, TypeInv, HistOK
  <2>2. QED
    BY <1>10, <2>1
<1>12. QED
  BY <1>4, <1>5, <1>6, <1>7, <1>8, <1>9, <1>11, NextShape

LEMMA QuietInit == ASSUME Init PROVE SentInv /\ QuietsInv
<1>1. <<>> \in Seq(Sent)
  BY EmptySeq
<1>2. QED
  BY <1>1 DEF Init, SentInv, QuietsInv, QuietInv

\* ScanDetail.tsx, refresh: a page that heard the end of the scan and whose
\* refreshes all ended, the last one in time and without a failure, shows it.
THEOREM QuietCorrect == Spec => []QuietIsCurrent
<1>1. ASSUME TypeInv, QuietsInv PROVE QuietIsCurrent
  BY <1>1 DEF QuietsInv, QuietInv, PageInv, QuietIsCurrent
<1>2. QED
  BY <1>1, TypeInit, TypeStep, QuietInit, SentStep, QuietStep, PTL DEF Spec
=============================================================================

--------------------------- MODULE LlmClient_proofs ---------------------------
(* Proofs about LlmClient, for every number of threads, every interval and  *)
(* every number of retries.  Nothing is shown of how long a pause is: the   *)
(* provers know no power of two, and no property needs one.                 *)
EXTENDS LlmClient, TLAPS

State == {"pace", "paced", "post", "backoff", "done"}
Call  == [attempt : 0..MaxRetries, plain : BOOLEAN, attempts : Nat, last : Reply \cup {"none"}]

Types ==
    /\ pc \in [Caller -> State]
    /\ call \in [Caller -> Call]
    /\ lock \in Caller \cup {Nobody}
    /\ since \in 0..Interval
    /\ sleep = [c \in Caller |-> sleep[c]]

\* A request with response_format was sent for each attempt of the loop; those
\* without start over, after at most MaxRetries + 1 of them.
CallInv(c) ==
    /\ IF call[c].plain THEN call[c].attempts <= MaxRetries + 2 + call[c].attempt
                        ELSE call[c].attempts = call[c].attempt + 1
    /\ pc[c] = "backoff" => call[c].attempt < MaxRetries

\* Whoever is paced holds the lock, and sleeps out the interval.
PaceInv(c) ==
    /\ pc[c] = "paced" <=> lock = c
    /\ pc[c] = "paced" => sleep[c] \in Nat /\ since + sleep[c] >= Interval

IInv == Types /\ \A c \in Caller : CallInv(c) /\ PaceInv(c)

LEMMA InitInv == Init => IInv
BY LlmAssumption DEF Init, IInv, Types, CallInv, PaceInv, State, Call

\* A step of one thread disturbs no other, as long as the lock does not pass
\* from one to another and no time goes by while it is held.
LEMMA Others ==
    ASSUME IInv, NEW c \in Caller, NEW o \in Caller, o # c,
           pc'[o] = pc[o], call'[o] = call[o], sleep'[o] = sleep[o],
           lock' = lock \/ {lock, lock'} = {c, Nobody},
           since' = since \/ lock = c
    PROVE  CallInv(o)' /\ PaceInv(o)'
<1>1. CallInv(o) /\ PaceInv(o)
  BY DEF IInv
<1>2. lock' = o <=> lock = o
  BY LlmAssumption
<1>3. QED
  BY <1>1, <1>2 DEF CallInv, PaceInv

LEMMA TickStep ==
    ASSUME IInv, Tick
    PROVE  IInv'
<1>1. Types'
  BY LlmAssumption DEF IInv, Types, Tick
<1>2. ASSUME NEW c \in Caller PROVE CallInv(c)' /\ PaceInv(c)'
  <2>1. CallInv(c) /\ PaceInv(c)
    BY DEF IInv
  <2>2. CallInv(c)'
    BY <2>1 DEF CallInv, Tick
  <2>3. PaceInv(c)'
    <3>1. UNCHANGED <<pc, lock>>
      BY DEF Tick
    <3>2. CASE pc[c] = "paced"
      <4>1. sleep[c] \in Nat /\ since \in Nat /\ since + sleep[c] >= Interval /\ Interval \in Nat
        BY <2>1, <3>2, LlmAssumption DEF PaceInv, IInv, Types
      <4>2. since' = IF since < Interval THEN since + 1 ELSE since
        BY DEF Tick
      <4>3. sleep'[c] = IF sleep[c] > 0 THEN sleep[c] - 1 ELSE 0
        BY DEF Tick
      <4>4. sleep'[c] \in Nat /\ since' + sleep'[c] >= Interval
        BY <4>1, <4>2, <4>3
      <4>5. QED
        BY <2>1, <3>1, <4>4 DEF PaceInv
    <3>3. QED
      BY <2>1, <3>1, <3>2 DEF PaceInv
  <2>4. QED
    BY <2>2, <2>3
<1>3. QED
  BY <1>1, <1>2 DEF IInv

LEMMA AcquireStep ==
    ASSUME IInv, NEW c \in Caller, Acquire(c)
    PROVE  IInv'
<1>1. Types
  BY DEF IInv
<1>2. /\ pc[c] = "pace" /\ lock = Nobody /\ UNCHANGED <<call, since>>
      /\ \/ Interval = 0 /\ pc' = [pc EXCEPT ![c] = "post"] /\ UNCHANGED <<lock, sleep>>
         \/ /\ pc' = [pc EXCEPT ![c] = "paced"] /\ lock' = c
            /\ sleep' = [sleep EXCEPT ![c] = Interval - since]
  BY DEF Acquire, Goto, Sleep
<1>3. Types'
  BY <1>1, <1>2 DEF Types, State
<1>4. CallInv(c)' /\ PaceInv(c)'
  <2>1. CallInv(c) /\ PaceInv(c)
    BY DEF IInv
  <2>2. pc'[c] \in {"post", "paced"} /\ (pc'[c] = "paced" <=> lock' = c)
    BY <1>1, <1>2, LlmAssumption DEF Types
  <2>3. CallInv(c)'
    BY <1>2, <2>1, <2>2 DEF CallInv
  <2>4. pc'[c] = "paced" => sleep'[c] = Interval - since
    BY <1>1, <1>2 DEF Types
  <2>5. since \in 0..Interval /\ since' = since
    BY <1>1, <1>2 DEF Types
  <2>6. pc'[c] = "paced" => sleep'[c] \in Nat /\ since' + sleep'[c] >= Interval
    BY <2>4, <2>5, LlmAssumption
  <2>7. QED
    BY <2>2, <2>3, <2>6 DEF PaceInv
<1>5. ASSUME NEW o \in Caller, o # c PROVE CallInv(o)' /\ PaceInv(o)'
  BY <1>1, <1>2, <1>5, Others DEF Types
<1>6. QED
  BY <1>3, <1>4, <1>5 DEF IInv

LEMMA PacedStep ==
    ASSUME IInv, NEW c \in Caller, Paced(c)
    PROVE  IInv'
<1>1. Types
  BY DEF IInv
<1>2. /\ pc[c] = "paced" /\ since' = 0 /\ lock' = Nobody
      /\ pc' = [pc EXCEPT ![c] = "post"] /\ UNCHANGED <<call, sleep>>
  BY DEF Paced, Goto
<1>3. lock = c
  BY <1>2 DEF IInv, PaceInv
<1>4. Types'
  BY <1>1, <1>2, LlmAssumption DEF Types, State
<1>5. CallInv(c)' /\ PaceInv(c)'
  BY <1>1, <1>2, LlmAssumption DEF IInv, Types, CallInv, PaceInv
<1>6. ASSUME NEW o \in Caller, o # c PROVE CallInv(o)' /\ PaceInv(o)'
  BY <1>1, <1>2, <1>3, <1>6, Others DEF Types
<1>7. QED
  BY <1>4, <1>5, <1>6 DEF IInv

LEMMA PostStep ==
    ASSUME IInv, NEW c \in Caller, Post(c)
    PROVE  IInv'
<1>1. Types /\ CallInv(c) /\ PaceInv(c)
  BY DEF IInv
<1>2. PICK r \in Reply :
        \/ /\ MayRepeat(c, r)
           /\ call' = [call EXCEPT ![c] = [@ EXCEPT !.last = r]]
           /\ sleep' = [sleep EXCEPT ![c] = Backoff * 2 ^ call[c].attempt]
           /\ pc' = [pc EXCEPT ![c] = "backoff"]
        \/ /\ ~MayRepeat(c, r) /\ MayGoPlain(c, r)
           /\ call' = [call EXCEPT ![c] = [attempt |-> 0, plain |-> TRUE,
                                           attempts |-> @.attempts + 1, last |-> r]]
           /\ pc' = [pc EXCEPT ![c] = "pace"] /\ UNCHANGED sleep
        \/ /\ ~MayRepeat(c, r) /\ ~MayGoPlain(c, r)
           /\ call' = [call EXCEPT ![c].last = r]
           /\ pc' = [pc EXCEPT ![c] = "done"] /\ UNCHANGED sleep
  BY DEF Post, Goto, Sleep
<1>3. pc[c] = "post" /\ UNCHANGED <<lock, since>>
  BY DEF Post
<1> DEFINE k == call[c]
<1>4. k \in Call
  BY <1>1 DEF Types
<1>5. /\ call' = [call EXCEPT ![c] = call'[c]] /\ call'[c] \in Call
      /\ sleep' = [o \in Caller |-> sleep'[o]]
      /\ pc' = [pc EXCEPT ![c] = pc'[c]] /\ pc'[c] \in {"backoff", "pace", "done"}
      /\ CallInv(c)'
  <2>1. CASE /\ MayRepeat(c, r)
             /\ call' = [call EXCEPT ![c] = [@ EXCEPT !.last = r]]
             /\ sleep' = [sleep EXCEPT ![c] = Backoff * 2 ^ call[c].attempt]
             /\ pc' = [pc EXCEPT ![c] = "backoff"]
    <3>1. call'[c] = [k EXCEPT !.last = r] /\ pc'[c] = "backoff"
      BY <1>1, <2>1 DEF Types
    <3>2. k.attempt < MaxRetries
      BY <2>1 DEF MayRepeat
    <3>3. /\ call'[c] \in Call /\ call'[c].attempt = k.attempt
          /\ call'[c].plain = k.plain /\ call'[c].attempts = k.attempts
      BY <1>4, <3>1 DEF Call
    <3>4. CallInv(c)'
      BY <1>1, <3>1, <3>2, <3>3 DEF CallInv
    <3>5. QED
      BY <1>1, <2>1, <3>1, <3>3, <3>4 DEF Types
  <2>2. CASE /\ MayGoPlain(c, r)
             /\ call' = [call EXCEPT ![c] = [attempt |-> 0, plain |-> TRUE,
                                             attempts |-> @.attempts + 1, last |-> r]]
             /\ pc' = [pc EXCEPT ![c] = "pace"] /\ UNCHANGED sleep
    <3>1. call'[c] = [attempt |-> 0, plain |-> TRUE, attempts |-> k.attempts + 1, last |-> r]
          /\ pc'[c] = "pace"
      BY <1>1, <2>2 DEF Types
    <3>2. k.attempts = k.attempt + 1 /\ k.attempt \in 0..MaxRetries
      BY <1>1, <1>4, <2>2 DEF CallInv, MayGoPlain, Call
    <3>3. call'[c] \in Call
      BY <1>4, <3>1, LlmAssumption DEF Call
    <3>4. CallInv(c)'
      BY <3>1, <3>2, LlmAssumption DEF CallInv
    <3>5. QED
      BY <1>1, <2>2, <3>1, <3>3, <3>4 DEF Types
  <2>3. CASE call' = [call EXCEPT ![c].last = r] /\ pc' = [pc EXCEPT ![c] = "done"]
             /\ UNCHANGED sleep
    <3>1. call'[c] = [k EXCEPT !.last = r] /\ pc'[c] = "done"
      BY <1>1, <2>3 DEF Types
    <3>2. /\ call'[c] \in Call /\ call'[c].attempt = k.attempt
          /\ call'[c].plain = k.plain /\ call'[c].attempts = k.attempts
      BY <1>4, <3>1 DEF Call
    <3>3. CallInv(c)'
      BY <1>1, <3>1, <3>2 DEF CallInv
    <3>4. QED
      BY <1>1, <2>3, <3>1, <3>2, <3>3 DEF Types
  <2>4. QED
    BY <1>2, <2>1, <2>2, <2>3
<1>6. Types'
  BY <1>1, <1>3, <1>5 DEF Types, State
<1>7. PaceInv(c)'
  BY <1>1, <1>3, <1>5 DEF PaceInv
<1>8. ASSUME NEW o \in Caller, o # c PROVE CallInv(o)' /\ PaceInv(o)'
  <2>1. pc'[o] = pc[o] /\ call'[o] = call[o]
    BY <1>1, <1>5, <1>8 DEF Types
  <2>2. sleep'[o] = sleep[o]
    BY <1>1, <1>2, <1>8 DEF Types
  <2>3. QED
    BY <1>3, <1>8, <2>1, <2>2, Others
<1>9. QED
  BY <1>5, <1>6, <1>7, <1>8 DEF IInv

LEMMA RepeatStep ==
    ASSUME IInv, NEW c \in Caller, Repeat(c)
    PROVE  IInv'
<1>1. Types /\ CallInv(c) /\ PaceInv(c)
  BY DEF IInv
<1>2. /\ pc[c] = "backoff" /\ pc' = [pc EXCEPT ![c] = "pace"]
      /\ call' = [call EXCEPT ![c].attempt = @ + 1, ![c].attempts = @ + 1]
      /\ UNCHANGED <<lock, since, sleep>>
  BY DEF Repeat, Goto
<1> DEFINE k == call[c]
<1>3. k \in Call /\ k.attempt < MaxRetries
  BY <1>1, <1>2 DEF Types, CallInv
<1>4. /\ call'[c] = [k EXCEPT !.attempt = k.attempt + 1, !.attempts = k.attempts + 1]
      /\ pc'[c] = "pace"
  BY <1>1, <1>2 DEF Types
<1>5. /\ call'[c] \in Call /\ call'[c].attempt = k.attempt + 1
      /\ call'[c].plain = k.plain /\ call'[c].attempts = k.attempts + 1
  <2>1. k.attempt + 1 \in 0..MaxRetries /\ k.attempts + 1 \in Nat
    BY <1>3, LlmAssumption DEF Call
  <2>2. k \in Call
    BY <1>3
  <2> HIDE DEF k
  <2>3. QED
    BY <1>4, <2>1, <2>2 DEF Call
<1>6. CallInv(c)' /\ PaceInv(c)'
  <2>1. k.attempt \in Nat /\ k.attempts \in Nat
    BY <1>3 DEF Call
  <2>2. CallInv(c)'
    BY <1>1, <1>4, <1>5, <2>1, LlmAssumption DEF CallInv
  <2>3. QED
    BY <1>1, <1>2, <1>4, <2>2 DEF PaceInv
<1>7. ASSUME NEW o \in Caller, o # c PROVE CallInv(o)' /\ PaceInv(o)'
  BY <1>1, <1>2, <1>7, Others DEF Types
<1>8. Types'
  BY <1>1, <1>2, <1>5 DEF Types, State
<1>9. QED
  BY <1>6, <1>7, <1>8 DEF IInv

LEMMA StepInv ==
    ASSUME IInv, [Next]_vars
    PROVE  IInv'
<1>1. CASE UNCHANGED vars
  BY <1>1 DEF vars, IInv, Types, CallInv, PaceInv
<1>2. QED
  BY <1>1, TickStep, AcquireStep, PacedStep, PostStep, RepeatStep DEF Next, Step

\* Whoever is paced holds the lock and sleeps out the interval, and a call has
\* sent as many requests as its loop has made attempts.
THEOREM Invariance == Spec => []IInv
<1>1. Init => IInv
  BY InitInv
<1>2. IInv /\ [Next]_vars => IInv'
  BY StepInv
<1>3. QED
  BY <1>1, <1>2, PTL DEF Spec

\* chat_json sends at most MaxRetries + 1 requests with response_format and at
\* most as many without, however its replies alternate.
THEOREM AttemptsCorrect == Spec => []AttemptsAreBounded
<1>1. IInv => AttemptsAreBounded
  <2> SUFFICES ASSUME IInv, NEW c \in Caller
               PROVE  call[c].attempts <= IF call[c].plain THEN 2 * (MaxRetries + 1)
                                                           ELSE MaxRetries + 1
    BY DEF AttemptsAreBounded
  <2>1. call[c].attempt \in 0..MaxRetries /\ call[c].attempts \in Nat /\ CallInv(c)
    BY DEF IInv, Types, Call
  <2>2. QED
    BY <2>1, LlmAssumption DEF CallInv
<1>2. QED
  BY <1>1, Invariance, PTL

\* _pace: no request is paced before the interval since the one before it is
\* over, whoever calls and however often its request is repeated.
THEOREM PacedCorrect == Spec => PacedApart
<1>1. IInv /\ [Next]_vars
        => [\A c \in Caller : pc[c] = "paced" /\ pc'[c] = "post" => since = Interval]_vars
  <2> SUFFICES ASSUME IInv, Next, NEW c \in Caller, pc[c] = "paced", pc'[c] = "post"
               PROVE  since = Interval
    OBVIOUS
  <2>1. pc \in [Caller -> State] /\ since \in 0..Interval
        /\ sleep[c] \in Nat /\ since + sleep[c] >= Interval
    BY DEF IInv, Types, PaceInv
  <2>2. Awake(c)
    BY <2>1 DEF Next, Step, Tick, Acquire, Paced, Post, Repeat, Goto
  <2>3. QED
    BY <2>1, <2>2, LlmAssumption DEF Awake
<1>2. QED
  BY <1>1, Invariance, PTL DEF Spec, PacedApart
=============================================================================

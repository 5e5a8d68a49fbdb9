------------------------------ MODULE LlmClient ------------------------------
(***************************************************************************)
(* chat_json as the threads of one process call it: requests are paced     *)
(* under a lock, repeated with growing pauses, and sent a second time      *)
(* without response_format where a provider rejects it.                    *)
(*                                                                         *)
(* Time is counted in ticks and kept relative: how long ago the last       *)
(* request was paced, and how long a thread has still to sleep.            *)
(***************************************************************************)
EXTENDS Naturals

CONSTANTS
    Caller,      \* threads that have a call to make
    Interval,    \* ai_min_interval_seconds
    MaxRetries,  \* ai_max_retries
    Backoff,     \* ai_retry_backoff_seconds
    Nobody       \* the holder of a free lock

ASSUME LlmAssumption ==
    Interval \in Nat /\ MaxRetries \in Nat /\ Backoff \in Nat /\ Nobody \notin Caller

\* What a request comes to: an answer; a status of _RETRYABLE_STATUS; another
\* 4xx; a status that is neither; a timeout or a transport error; an exception
\* of another kind (the body is no JSON).
Reply == {"answer", "busy", "rejected", "other", "lost", "broken"}

VARIABLES
    pc,        \* where chat_json is
    call,      \* attempt: of the loop; plain: without response_format;
               \* attempts: of the call; last: reply to its last request
    lock,      \* who holds _RATE_LOCK
    since,     \* ticks since _LAST_REQUEST_AT, Interval if longer
    sleep      \* ticks a thread has still to sleep

vars == <<pc, call, lock, since, sleep>>

Init ==
    /\ pc = [c \in Caller |-> "pace"]
    /\ call = [c \in Caller |-> [attempt |-> 0, plain |-> FALSE, attempts |-> 1, last |-> "none"]]
    /\ lock = Nobody
    /\ since = Interval
    /\ sleep = [c \in Caller |-> 0]

Awake(c) == sleep[c] = 0

Sleep(c, ticks) == sleep' = [sleep EXCEPT ![c] = ticks]

Goto(c, there) == pc' = [pc EXCEPT ![c] = there]

\* The threads that sleep wake up no earlier than they meant to.
Tick ==
    /\ since < Interval \/ \E c \in Caller : sleep[c] > 0
    /\ since' = IF since < Interval THEN since + 1 ELSE since
    /\ sleep' = [c \in Caller |-> IF sleep[c] > 0 THEN sleep[c] - 1 ELSE 0]
    /\ UNCHANGED <<pc, call, lock>>

\* Faulty variant: the lock covers the look at the clock only.
AcquireBriefly(c) ==
    /\ pc[c] = "pace" /\ lock = Nobody
    /\ IF Interval = 0 THEN Goto(c, "post") ELSE Goto(c, "paced")
    /\ Sleep(c, Interval - since)
    /\ UNCHANGED <<call, lock, since>>

\* _pace: the lock is taken, and kept while its holder sleeps ...
Acquire(c) ==
    /\ pc[c] = "pace" /\ lock = Nobody
    /\ IF Interval = 0
       THEN Goto(c, "post") /\ UNCHANGED <<lock, sleep>>
       ELSE Goto(c, "paced") /\ lock' = c /\ Sleep(c, Interval - since)
    /\ UNCHANGED <<call, since>>

\* Faulty variant: the lock is given back only by those who did not sleep.
PacedKeepingLock(c) ==
    /\ pc[c] = "paced" /\ Awake(c)
    /\ since' = 0
    /\ lock' \in {lock, Nobody}
    /\ Goto(c, "post")
    /\ UNCHANGED <<call, sleep>>

\* ... until the interval is over.
Paced(c) ==
    /\ pc[c] = "paced" /\ Awake(c)
    /\ since' = 0
    /\ lock' = Nobody
    /\ Goto(c, "post")
    /\ UNCHANGED <<call, sleep>>

\* Faulty variant: one repetition too many.
MayRepeatInclusive(c, r) == r \in {"busy", "lost"} /\ call[c].attempt <= MaxRetries

MayRepeat(c, r) == r \in {"busy", "lost"} /\ call[c].attempt < MaxRetries

\* "retry without it. Do not use this path for rate limits"
MayGoPlain(c, r) == r = "rejected" /\ ~call[c].plain

\* _post_once, and what _post_with_retries and chat_json make of it.
Post(c) ==
    /\ pc[c] = "post"
    /\ \E r \in Reply :
         \/ /\ MayRepeat(c, r)
            /\ call' = [call EXCEPT ![c] = [@ EXCEPT !.last = r]]
            /\ Sleep(c, Backoff * 2 ^ call[c].attempt)
            /\ Goto(c, "backoff")
         \/ /\ ~MayRepeat(c, r) /\ MayGoPlain(c, r)
            /\ call' = [call EXCEPT ![c] = [attempt |-> 0, plain |-> TRUE,
                                            attempts |-> @.attempts + 1, last |-> r]]
            /\ Goto(c, "pace") /\ UNCHANGED sleep
         \/ /\ ~MayRepeat(c, r) /\ ~MayGoPlain(c, r)
            /\ call' = [call EXCEPT ![c].last = r]
            /\ Goto(c, "done") /\ UNCHANGED sleep
    /\ UNCHANGED <<lock, since>>

\* The pause is over: the next attempt is paced as every request is.
Repeat(c) ==
    /\ pc[c] = "backoff" /\ Awake(c)
    /\ call' = [call EXCEPT ![c].attempt = @ + 1, ![c].attempts = @ + 1]
    /\ Goto(c, "pace")
    /\ UNCHANGED <<lock, since, sleep>>

Step(c) == Acquire(c) \/ Paced(c) \/ Post(c) \/ Repeat(c)

Next == Tick \/ \E c \in Caller : Step(c)

Spec == Init /\ [][Next]_vars

\* Time passes, and a thread that can go on does; the lock favours nobody.
FairSpec == Spec /\ WF_vars(Tick) /\ \A c \in Caller : WF_vars(Step(c))

----------------------------------------------------------------------------
\* Every variable has its type.
TypeOK ==
    /\ pc \in [Caller -> {"pace", "paced", "post", "backoff", "done"}]
    /\ call \in [Caller -> [attempt : 0..MaxRetries, plain : BOOLEAN, attempts : Nat,
                            last : Reply \cup {"none"}]]
    /\ lock \in Caller \cup {Nobody}
    /\ since \in 0..Interval
    /\ sleep \in [Caller -> Nat]

\* _pace: whoever calls, and however often its request is repeated, no request
\* is paced before the interval since the one before it is over.
PacedApart ==
    [][\A c \in Caller : pc[c] = "paced" /\ pc'[c] = "post" => since = Interval]_vars

\* chat_json: a call sends at most MaxRetries + 1 requests with
\* response_format and at most as many without, however its replies alternate
\* between busy, lost and rejected.
AttemptsAreBounded ==
    \A c \in Caller :
      call[c].attempts <= IF call[c].plain THEN 2 * (MaxRetries + 1) ELSE MaxRetries + 1

\* chat_json: every call ends, and the lock is free again.
CallsEnd == <>[](lock = Nobody /\ \A c \in Caller : pc[c] = "done")
=============================================================================

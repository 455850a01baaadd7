------------------------------ MODULE OpenAIGuard ------------------------------
(***************************************************************************)
(* What stands between the users and OpenAI (utils/openai_client.py): the  *)
(* daily counters of tokens and queries and the circuit breaker, all of    *)
(* them keys in Redis that every API process and the worker share.         *)
(*                                                                         *)
(* A caller is an ask (charges one query, then embeds the question, then   *)
(* opens the answer stream, whose output tokens it charges when it ends)   *)
(* or an ingest job (charges the tokens of its document, then embeds).     *)
(* Each Redis command is a step, so that those of different callers        *)
(* interleave; the answer of OpenAI and the first command that follows it  *)
(* are one step.  Time counts in units beside which Redis is immediate:    *)
(* the clock moves only while no caller is between two commands.           *)
(***************************************************************************)
EXTENDS Naturals

CONSTANTS
    Callers,      \* requests and jobs in progress, of one user
    Threshold,    \* _CB_FAILURE_THRESHOLD: 3 in the code
    OpenPeriod,   \* _CB_OPEN_SECONDS: 60 s
    OpenKeyTTL,   \* life of the open_until key: _CB_OPEN_SECONDS + 5
    Window,       \* _CB_FAILURE_WINDOW: 120 s
    Attempts,     \* _RETRY_ATTEMPTS: 3
    Day,          \* length of a day
    TTLBuffer,    \* what seconds_until_utc_midnight adds: 1 h
    TokenLimit,   \* settings.MAX_DAILY_TOKENS_PER_USER
    QueryLimit,   \* settings.MAX_DAILY_QUERIES_PER_USER
    MaxTokens,    \* bound on the tokens of one charge
    MaxTime,      \* bound on the clock
    MaxCalls      \* bound on the callers that start, and further batches

ASSUME ThresholdAssumption == Threshold \in Nat \ {0}
ASSUME PeriodsAssumption ==
    /\ OpenPeriod \in Nat /\ OpenKeyTTL \in Nat /\ OpenPeriod <= OpenKeyTTL
    /\ Window \in Nat \ {0}
ASSUME AttemptsAssumption == Attempts \in Nat \ {0}
ASSUME DayAssumption == Day \in Nat \ {0} /\ TTLBuffer \in Nat
ASSUME LimitsAssumption == TokenLimit \in Nat /\ QueryLimit \in Nat
ASSUME BoundsAssumption == MaxTokens \in Nat /\ MaxTime \in Nat /\ MaxCalls \in Nat
--------------------------------------------------------------------------------
VARIABLES
    now,       \* the clock
    used,      \* used[k][d]: the counter quota:<k>:<user>:<day d>; 0 when absent
    usedEnd,   \* usedEnd[k][d]: when that key expires
    failures,  \* cb:openai:failures; 0 when absent
    failEnd,   \* when that key expires
    openUntil, \* cb:openai:open_until; 0 when absent
    openEnd,   \* when that key expires
    call,      \* call[c]: the caller in slot c
    calls,     \* how many callers and further batches started
    charged,   \* charged[k][d]: history, all that was added to the counter
    admitted,  \* admitted[k][d]: history, what those who were let through charged
    trips,     \* history: how often the breaker was opened
    tripEnd,   \* history: until when the last trip was to keep it open
    since,     \* history: when the failures the counter holds began
    lost       \* history: who was to set the TTL of the failure counter ended before

redisVars == <<used, usedEnd, failures, failEnd, openUntil, openEnd>>
quotaVars == <<used, usedEnd, charged, admitted>>
failVars  == <<failures, failEnd, since, lost>>
tripVars  == <<openUntil, openEnd, trips, tripEnd>>
vars == <<now, redisVars, call, calls, charged, admitted, trips, tripEnd, since, lost>>

Counter == {"tokens", "queries"}
Days    == 0..(MaxTime \div Day)
Never   == MaxTime + Day + TTLBuffer + OpenKeyTTL + Window + 1  \* no TTL

today == now \div Day

Zero == [k \in Counter |-> [d \in Days |-> 0]]

Kind   == {"ask", "ingest"}
Stage  == {"charge", "embed", "chat", "bill"}
CallPC == {"idle", "ttl", "check", "call", "sleep", "expire", "trip", "stream"}

Free == [pc |-> "idle", kind |-> "ask", stage |-> "charge", try |-> 0,
         amount |-> 0, total |-> 0, seen |-> 0]

Init ==
    /\ now = 0
    /\ used = Zero
    /\ usedEnd = [k \in Counter |-> [d \in Days |-> Never]]
    /\ failures = 0 /\ failEnd = Never
    /\ openUntil = 0 /\ openEnd = Never
    /\ call = [c \in Callers |-> Free]
    /\ calls = 0
    /\ charged = Zero /\ admitted = Zero
    /\ trips = 0 /\ tripEnd = 0
    /\ since = 0 /\ lost = FALSE

At(c, pc) == call[c].pc = pc

Goto(c, pc) == call' = [call EXCEPT ![c].pc = pc]

\* The slot is free again, whether the call succeeded or raised.
End(c) == call' = [call EXCEPT ![c] = Free]
--------------------------------------------------------------------------------
(* Plausible mistakes, each in the place of the definition named in its    *)
(* comment; no specification of this module uses them.                     *)

\* For OverLimit: the total before this charge is compared.
OverLimitBefore(k, total, amount) ==
    total - amount > (IF k = "tokens" THEN TokenLimit ELSE QueryLimit)

\* For CounterTTL: the buffer alone, without the rest of the day.
BufferOnly == TTLBuffer

\* For SetsTTL: every failure renews the window; only the one that reaches the
\* threshold sets it.
SetsTTLAlways(count) == count >= 1
SetsTTLAtThreshold(count) == count = Threshold

\* For Trip: the key's TTL is the slack alone, so that it expires before the
\* instant it holds.
TripShortKey(c) ==
    /\ At(c, "trip")
    /\ openUntil' = now + OpenPeriod
    /\ openEnd' = now + OpenKeyTTL - OpenPeriod
    /\ trips' = trips + 1
    /\ tripEnd' = now + OpenPeriod
    /\ End(c)
    /\ UNCHANGED <<now, quotaVars, failVars, calls>>

\* For RateLimited: one attempt too many.
RateLimitedOnceMore(c) ==
    /\ At(c, "call")
    /\ IF call[c].try > Attempts
       THEN End(c)
       ELSE call' = [call EXCEPT ![c].pc = "sleep", ![c].try = @ + 1]
    /\ UNCHANGED <<now, quotaVars, failVars, tripVars, calls>>

\* For RateLimited: the last attempt sleeps and tries again like the others.
RateLimitedForEver(c) ==
    /\ At(c, "call")
    /\ Goto(c, "sleep")
    /\ UNCHANGED <<now, quotaVars, failVars, tripVars, calls>>
--------------------------------------------------------------------------------
(* Daily counters.                                                         *)

Limit(k) == IF k = "tokens" THEN TokenLimit ELSE QueryLimit

\* The counter a caller charges before it goes to OpenAI, and by how much.
CounterOf(kind) == IF kind = "ask" THEN "queries" ELSE "tokens"
Amounts(kind)   == IF kind = "ask" THEN {1} ELSE 1..MaxTokens

OverLimit(k, total, amount) == total > Limit(k)

\* seconds_until_utc_midnight: to the end of the day and a buffer.
CounterTTL == Day * (today + 1) - now + TTLBuffer

\* MULTI INCRBY, PERSIST, EXEC: a TTL the key had is gone.
Add(k, amount) ==
    /\ used' = [used EXCEPT ![k][today] = @ + amount]
    /\ usedEnd' = [usedEnd EXCEPT ![k][today] = Never]
    /\ charged' = [charged EXCEPT ![k][today] = @ + amount]

\* The caller raises over the limit and goes on within it; an answer that was
\* streamed is billed and never judged.
Judge(c, me) ==
    LET k == CounterOf(me.kind) IN
    IF me.stage = "bill" \/ OverLimit(k, me.total, me.amount)
    THEN End(c) /\ UNCHANGED admitted
    ELSE /\ call' = [call EXCEPT ![c] = [me EXCEPT !.pc = "check", !.stage = "embed"]]
         /\ admitted' = [admitted EXCEPT ![k][today] = @ + me.amount]

\* Whoever finds that the counter holds just its own amount sets the TTL next;
\* anybody else has its total and is judged.
Charge(c, k, kind, stage, amount) ==
    /\ Add(k, amount)
    /\ LET me == [Free EXCEPT !.kind = kind, !.stage = stage, !.amount = amount,
                              !.total = used[k][today] + amount] IN
       IF me.total = amount
       THEN call' = [call EXCEPT ![c] = [me EXCEPT !.pc = "ttl"]] /\ UNCHANGED admitted
       ELSE Judge(c, me)
    /\ UNCHANGED <<now, failVars, tripVars>>

Start(c, kind, amount) ==
    /\ At(c, "idle")
    /\ calls < MaxCalls
    /\ calls' = calls + 1
    /\ Charge(c, CounterOf(kind), kind, "charge", amount)

\* EXPIRE; the second half of increment_counter_by.
SetCounterTTL(c) ==
    /\ At(c, "ttl")
    /\ LET k == IF call[c].stage = "bill" THEN "tokens" ELSE CounterOf(call[c].kind) IN
       usedEnd' = [usedEnd EXCEPT ![k][today] =
                     IF used[k][today] = 0 THEN @ ELSE now + CounterTTL]
    /\ Judge(c, call[c])
    /\ UNCHANGED <<now, used, charged, failVars, tripVars, calls>>
--------------------------------------------------------------------------------
(* The guarded call and the circuit breaker.                               *)

Open == now < openUntil

\* _is_circuit_open, asked once, before the first attempt.
Check(c) ==
    /\ At(c, "check")
    /\ IF Open
       THEN End(c)
       ELSE call' = [call EXCEPT ![c].pc = "call", ![c].try = 1, ![c].seen = trips]
    /\ UNCHANGED <<now, quotaVars, failVars, tripVars, calls>>

\* A document of more than one batch: asyncio.gather starts all their calls at once.
NextBatch(c) ==
    /\ At(c, "idle")
    /\ calls < MaxCalls
    /\ \E b \in Callers : At(b, "check") /\ call[b].kind = "ingest"
    /\ calls' = calls + 1
    /\ call' = [call EXCEPT ![c] = [Free EXCEPT !.pc = "check", !.kind = "ingest",
                                               !.stage = "embed"]]
    /\ UNCHANGED <<now, quotaVars, failVars, tripVars>>

\* OpenAI answers; DEL of the failure counter.  An ask goes on from the
\* embedding of its question to the answer and from there to the stream.
Succeeds(c) ==
    /\ At(c, "call")
    /\ failures' = 0 /\ failEnd' = Never /\ since' = now /\ lost' = FALSE
    /\ LET me == call[c] IN
       CASE me.kind = "ingest"  -> End(c)
         [] me.stage = "embed"  ->
              call' = [call EXCEPT ![c].pc = "check", ![c].stage = "chat"]
         [] OTHER               -> Goto(c, "stream")
    /\ UNCHANGED <<now, quotaVars, tripVars, calls>>

\* RateLimitError: sleep and try again, without a look at the breaker.
RateLimited(c) ==
    /\ At(c, "call")
    /\ IF call[c].try = Attempts
       THEN End(c)
       ELSE call' = [call EXCEPT ![c].pc = "sleep", ![c].try = @ + 1]
    /\ UNCHANGED <<now, quotaVars, failVars, tripVars, calls>>

Wake(c) ==
    /\ At(c, "sleep")
    /\ Goto(c, "call")
    /\ UNCHANGED <<now, quotaVars, failVars, tripVars, calls>>

\* "Only set TTL on the first write": which count makes its caller set it.
SetsTTL(count) == count = 1

\* A 5xx answer; INCR, after which the caller that counted 1 sets the TTL, one
\* that reached the threshold opens the breaker, and any other raises.
ServerError(c) ==
    /\ At(c, "call")
    /\ LET count == failures + 1 IN
       /\ failures' = count
       /\ since' = IF count = 1 THEN now ELSE since
       /\ call' = [call EXCEPT ![c] =
                     IF SetsTTL(count)          THEN [@ EXCEPT !.pc = "expire", !.total = count]
                     ELSE IF count >= Threshold THEN [@ EXCEPT !.pc = "trip"]
                     ELSE Free]
    /\ UNCHANGED <<now, quotaVars, failEnd, lost, tripVars, calls>>

\* EXPIRE, without effect if a success has deleted the key meanwhile.
SetFailureTTL(c) ==
    /\ At(c, "expire")
    /\ failEnd' = IF failures = 0 THEN failEnd ELSE now + Window
    /\ lost' = FALSE
    /\ IF call[c].total >= Threshold THEN Goto(c, "trip") ELSE End(c)
    /\ UNCHANGED <<now, quotaVars, failures, since, tripVars, calls>>

\* SET open_until; the failure counter stays as it is.
Trip(c) ==
    /\ At(c, "trip")
    /\ openUntil' = now + OpenPeriod
    /\ openEnd' = now + OpenKeyTTL
    /\ trips' = trips + 1
    /\ tripEnd' = now + OpenPeriod
    /\ End(c)
    /\ UNCHANGED <<now, quotaVars, failVars, calls>>

\* The stream ends, of itself or broken off; OpenAI reported usage or did not.
StreamEnds(c) ==
    /\ At(c, "stream")
    /\ UNCHANGED calls
    /\ \/ /\ End(c)
          /\ UNCHANGED <<now, quotaVars, failVars, tripVars>>
       \/ \E amount \in 1..MaxTokens : Charge(c, "tokens", "ask", "bill", amount)

\* Any other error of OpenAI, the client's timeout, a Redis command that fails,
\* the job's alarm or the end of the process.
Abort(c) ==
    /\ ~At(c, "idle")
    /\ End(c)
    /\ lost' = (lost \/ (At(c, "expire") /\ failures > 0))
    /\ UNCHANGED <<now, quotaVars, failures, failEnd, since, tripVars, calls>>

\* The clock; Redis drops the keys that expire.
Tick ==
    /\ now < MaxTime
    /\ \A c \in Callers : call[c].pc \in {"idle", "call", "sleep", "stream"}
    /\ now' = now + 1
    /\ used' = [k \in Counter |-> [d \in Days |->
                  IF usedEnd[k][d] <= now' THEN 0 ELSE used[k][d]]]
    /\ usedEnd' = [k \in Counter |-> [d \in Days |->
                  IF usedEnd[k][d] <= now' THEN Never ELSE usedEnd[k][d]]]
    /\ IF failEnd <= now'
       THEN failures' = 0 /\ failEnd' = Never /\ since' = now' /\ lost' = FALSE
       ELSE UNCHANGED failVars
    /\ IF openEnd <= now'
       THEN openUntil' = 0 /\ openEnd' = Never
       ELSE UNCHANGED <<openUntil, openEnd>>
    /\ UNCHANGED <<call, calls, charged, admitted, trips, tripEnd>>
--------------------------------------------------------------------------------
Answered(c) == Succeeds(c) \/ RateLimited(c) \/ ServerError(c)

Proceed(c) ==
    \/ SetCounterTTL(c)
    \/ Check(c) \/ Answered(c) \/ Wake(c)
    \/ SetFailureTTL(c) \/ Trip(c)
    \/ StreamEnds(c)
    \/ Abort(c)

Next ==
    \/ \E c \in Callers : \/ \E kind \in Kind : \E amount \in Amounts(kind) :
                                Start(c, kind, amount)
                          \/ NextBatch(c)
                          \/ Proceed(c)
    \/ Tick

Spec == Init /\ [][Next]_vars

\* A caller goes on; the timeouts of the clients make sure that OpenAI and
\* Redis answer or the call fails.
FairSpec == Spec /\ \A c \in Callers : WF_vars(Proceed(c))
--------------------------------------------------------------------------------
(* Properties.                                                             *)

Caller == [pc : CallPC, kind : Kind, stage : Stage, try : 0..Attempts,
           amount : Nat, total : Nat, seen : Nat]

\* Every variable has its type; a call makes at most Attempts attempts
\* (utils/openai_client.py:156-204).
TypeOK ==
    /\ now \in 0..MaxTime
    /\ used \in [Counter -> [Days -> Nat]]
    /\ usedEnd \in [Counter -> [Days -> Nat]]
    /\ charged \in [Counter -> [Days -> Nat]]
    /\ admitted \in [Counter -> [Days -> Nat]]
    /\ failures \in Nat /\ failEnd \in Nat /\ since \in Nat
    /\ openUntil \in Nat /\ openEnd \in Nat
    /\ trips \in Nat /\ tripEnd \in Nat
    /\ call \in [Callers -> Caller]
    /\ calls \in 0..MaxCalls
    /\ lost \in BOOLEAN

\* Of one day's allowance no more is given out than there is, however many
\* requests charge it at once and whatever becomes of the TTLs: what the callers
\* that were let through charged stays within the limit
\* (utils/openai_client.py:113-152, utils/redis_client.py:88-120).
AllowanceHolds == \A k \in Counter, d \in Days : admitted[k][d] <= Limit(k)

\* The counter of the current day holds all that was charged that day, also by
\* answers billed afterwards: neither the TTL the first write set nor the PERSIST
\* of the later ones loses a part of it before midnight
\* (utils/redis_client.py:32-37, 104-120).
CounterCoversDay == \A k \in Counter : used[k][today] = charged[k][today]

\* The failures that count together occurred within one Window from the first:
\* later ones do not stretch it, and it ends.  Not so if the caller that counted
\* the first died before it set the TTL (utils/redis_client.py:54-61).
FailureWindowEnds ==
    failures > 0 => \/ now < since + Window
                    \/ lost
                    \/ \E c \in Callers : At(c, "expire")

\* While the breaker is to be open, until OpenPeriod after the last trip, whoever
\* still talks to OpenAI had passed the breaker before that trip: only the retries
\* of calls under way get through, nobody is let in anew
\* (utils/openai_client.py:78-82, 98-105, 159-161).
NobodyLetInWhileOpen ==
    now < tripEnd => \A c \in Callers : call[c].pc \in {"call", "sleep"} =>
                                           call[c].seen < trips

\* Every call ends: with its answer, with an error of OpenAI, refused, or after
\* its last attempt (utils/openai_client.py:164-204).
CallsEnd == \A c \in Callers : ~At(c, "idle") ~> At(c, "idle")
================================================================================

----------------------------- MODULE OpenAIGuardProofs -----------------------------
(***************************************************************************)
(* Proofs about OpenAIGuard for any number of callers, any limits, any     *)
(* threshold, periods and number of attempts, and any length of the day.   *)
(***************************************************************************)
EXTENDS OpenAIGuard, TLAPS

--------------------------------------------------------------------------------
(* Days.                                                                   *)

\* A day begins and ends where it should.
LEMMA DayBounds ==
  ASSUME NEW n \in Nat
  PROVE  /\ n \div Day \in Nat
         /\ Day * (n \div Day) <= n
         /\ n < Day * ((n \div Day) + 1)
BY DayAssumption

\* A multiple of the day that is smaller is that of an earlier day.
LEMMA EarlierDay ==
  ASSUME NEW a \in Nat, NEW b \in Nat, Day * a < Day * b
  PROVE  a < b
<1>1. CASE a >= b
  <2>1. PICK k \in Nat : a = b + k
    BY <1>1
  <2>2. Day * a = Day * b + Day * k
    BY DayAssumption, <2>1
  <2>3. Day * k \in Nat /\ Day * b \in Nat
    BY DayAssumption
  <2> QED
    BY <2>2, <2>3
<1> QED
  BY <1>1

\* A later day ends later.
LEMMA LaterDayEnds ==
  ASSUME NEW a \in Nat, NEW b \in Nat, a <= b
  PROVE  /\ Day * (a + 1) \in Nat /\ Day * (b + 1) \in Nat
         /\ Day * (a + 1) <= Day * (b + 1)
<1>1. PICK k \in Nat : b = a + k
  OBVIOUS
<1>2. Day * (b + 1) = Day * (a + 1) + Day * k
  BY DayAssumption, <1>1
<1>3. Day * k \in Nat /\ Day * (a + 1) \in Nat /\ Day * (b + 1) \in Nat
  BY DayAssumption
<1> QED
  BY <1>2, <1>3

\* Later instants are not of an earlier day.
LEMMA DaysInOrder ==
  ASSUME NEW a \in Nat, NEW b \in Nat, a <= b
  PROVE  a \div Day <= b \div Day
<1> DEFINE p == a \div Day
           q == b \div Day
<1>1. /\ p \in Nat /\ q \in Nat /\ q + 1 \in Nat
      /\ Day * p <= a /\ b < Day * (q + 1)
  BY DayBounds
<1>2. Day * p \in Nat /\ Day * (q + 1) \in Nat
  BY <1>1, DayAssumption
<1>3. Day * p < Day * (q + 1)
  BY <1>1, <1>2
<1> HIDE DEF p, q
<1>4. p < q + 1
  BY <1>1, <1>3, EarlierDay
<1>5. p <= q
  BY <1>1, <1>4
<1> QED
  BY <1>5 DEF p, q

\* The clock is always in one of the days that have counters.
LEMMA TodayIsADay ==
  ASSUME NEW n \in 0..MaxTime
  PROVE  n \div Day \in Days
<1>1. n \in Nat /\ MaxTime \in Nat /\ n <= MaxTime
  BY BoundsAssumption
<1> QED
  BY <1>1, DayBounds, DaysInOrder DEF Days

\* The TTL of a daily counter reaches to midnight at least.
LEMMA TTLReachesMidnight ==
  ASSUME now \in Nat
  PROVE  /\ now + CounterTTL \in Nat
         /\ now + CounterTTL >= Day * (today + 1)
<1>1. today \in Nat /\ now < Day * (today + 1)
  BY DayBounds DEF today
<1>2. Day * (today + 1) \in Nat
  BY <1>1, DayAssumption
<1> DEFINE midnight == Day * (today + 1)
<1>3. midnight \in Nat /\ now < midnight
  BY <1>1, <1>2
<1> HIDE DEF midnight
<1>4. /\ now + (midnight - now + TTLBuffer) \in Nat
      /\ now + (midnight - now + TTLBuffer) >= midnight
  BY <1>3, DayAssumption
<1> QED
  BY <1>4 DEF midnight, CounterTTL

\* A key without a TTL outlives every day.
LEMMA NeverIsLate ==
  /\ Never \in Nat /\ MaxTime < Never
  /\ \A d \in Days : Day * (d + 1) <= Never
<1>1. Never \in Nat /\ MaxTime + Day < Never
  BY BoundsAssumption, DayAssumption, PeriodsAssumption DEF Never
<1>2. ASSUME NEW d \in Days PROVE Day * (d + 1) <= Never
  <2>1. d \in Nat /\ d <= MaxTime \div Day /\ MaxTime \div Day \in Nat
    BY DayBounds, BoundsAssumption DEF Days
  <2>2. Day * (d + 1) <= Day * ((MaxTime \div Day) + 1)
    BY <2>1, LaterDayEnds
  <2> DEFINE q == MaxTime \div Day
  <2>3. Day * q <= MaxTime /\ Day * q \in Nat
    BY DayBounds, BoundsAssumption, <2>1, DayAssumption
  <2>4. Day * (q + 1) = Day * q + Day
    BY <2>1, DayAssumption
  <2>5. Day * (d + 1) \in Nat /\ Day * (q + 1) \in Nat
    BY <2>1, DayAssumption
  <2> QED
    BY <1>1, <2>2, <2>3, <2>4, <2>5, BoundsAssumption, DayAssumption
<1> QED
  BY <1>1, <1>2, BoundsAssumption, DayAssumption
--------------------------------------------------------------------------------
(* Types.                                                                  *)

\* A slot that is free is well typed, and so is a caller that starts in it.
LEMMA FreeUpdates ==
  ASSUME NEW pc \in CallPC, NEW kind \in Kind, NEW stage \in Stage,
         NEW amount \in Nat, NEW total \in Nat
  PROVE  /\ Free \in Caller
         /\ [Free EXCEPT !.kind = kind, !.stage = stage, !.amount = amount,
                          !.total = total] \in Caller
         /\ [Free EXCEPT !.pc = pc, !.kind = kind, !.stage = stage] \in Caller
<1>1. /\ "idle" \in CallPC /\ "ask" \in Kind /\ "charge" \in Stage
      /\ 0 \in 0..Attempts /\ 0 \in Nat
  BY AttemptsAssumption DEF CallPC, Kind, Stage
<1> QED
  BY <1>1 DEF Free, Caller

\* The empty Redis is well typed.
LEMMA InitType == Init => TypeOK
<1> SUFFICES ASSUME Init
             PROVE  TypeOK
  OBVIOUS
<1>1. Zero \in [Counter -> [Days -> Nat]]
  BY DEF Zero
<1>2. [k \in Counter |-> [d \in Days |-> Never]] \in [Counter -> [Days -> Nat]]
  BY NeverIsLate
<1>3. Free \in Caller
  BY AttemptsAssumption DEF Free, Caller, CallPC, Kind, Stage
<1>4. call \in [Callers -> Caller]
  BY <1>3 DEF Init
<1>5. lost \in BOOLEAN
  BY Zenon DEF Init
<1> QED
  BY <1>1, <1>2, <1>4, <1>5, NeverIsLate, BoundsAssumption DEF Init, TypeOK

\* A slot that is free again is well typed.
LEMMA EndType ==
  ASSUME TypeOK, NEW c \in Callers, End(c)
  PROVE  call' \in [Callers -> Caller]
<1>1. Free \in Caller
  BY AttemptsAssumption DEF Free, Caller, CallPC, Kind, Stage
<1> QED
  BY <1>1 DEF TypeOK, End

\* So is a caller that was judged.
LEMMA JudgeType ==
  ASSUME TypeOK, NEW c \in Callers, NEW me \in Caller, Judge(c, me)
  PROVE  /\ call' \in [Callers -> Caller]
         /\ admitted' \in [Counter -> [Days -> Nat]]
<1>1. CASE End(c) /\ UNCHANGED admitted
  BY <1>1, EndType DEF TypeOK
<1>2. CASE /\ call' = [call EXCEPT ![c] = [me EXCEPT !.pc = "check", !.stage = "embed"]]
           /\ admitted' = [admitted EXCEPT ![CounterOf(me.kind)][today] = @ + me.amount]
  <2>1. [me EXCEPT !.pc = "check", !.stage = "embed"] \in Caller
    BY DEF Caller, CallPC, Stage
  <2>2. call' \in [Callers -> Caller]
    BY <1>2, <2>1 DEF TypeOK
  <2>3. CounterOf(me.kind) \in Counter /\ today \in Days /\ me.amount \in Nat
    BY TodayIsADay DEF TypeOK, today, CounterOf, Counter, Caller
  <2>4. admitted' \in [Counter -> [Days -> Nat]]
    BY <1>2, <2>3 DEF TypeOK
  <2> QED
    BY <2>2, <2>4
<1> QED
  BY <1>1, <1>2 DEF Judge

\* So are the counters and the caller after a charge.
LEMMA ChargeType ==
  ASSUME TypeOK, NEW c \in Callers, NEW k \in Counter, NEW kind \in Kind,
         NEW stage \in Stage, NEW amount \in Nat, Charge(c, k, kind, stage, amount),
         calls' \in 0..MaxCalls
  PROVE  TypeOK'
<1> DEFINE me == [Free EXCEPT !.kind = kind, !.stage = stage, !.amount = amount,
                              !.total = used[k][today] + amount]
<1>1. today \in Days
  BY TodayIsADay DEF TypeOK, today
<1>2. me \in Caller
  <2>1. used[k][today] + amount \in Nat /\ "ttl" \in CallPC
    BY <1>1 DEF TypeOK, CallPC
  <2> QED
    BY <2>1, FreeUpdates
<1>3. /\ call' \in [Callers -> Caller]
      /\ admitted' \in [Counter -> [Days -> Nat]]
  <2>1. CASE call' = [call EXCEPT ![c] = [me EXCEPT !.pc = "ttl"]] /\ UNCHANGED admitted
    <3> HIDE DEF me
    <3>1. [me EXCEPT !.pc = "ttl"] \in Caller
      BY <1>2 DEF Caller, CallPC
    <3> QED
      BY <2>1, <3>1 DEF TypeOK
  <2>2. CASE Judge(c, me)
    BY <1>2, <2>2, JudgeType
  <2> QED
    BY <2>1, <2>2 DEF Charge
<1>4. /\ used' \in [Counter -> [Days -> Nat]]
      /\ usedEnd' \in [Counter -> [Days -> Nat]]
      /\ charged' \in [Counter -> [Days -> Nat]]
  BY <1>1, NeverIsLate DEF Charge, Add, TypeOK
<1> QED
  BY <1>3, <1>4 DEF Charge, TypeOK, failVars, tripVars

\* Every step of a caller keeps the types.
LEMMA ProceedType ==
  ASSUME TypeOK, NEW c \in Callers, Proceed(c)
  PROVE  TypeOK'
<1>0. call[c] \in Caller /\ trips \in Nat /\ failures + 1 \in Nat
  BY DEF TypeOK
<1>a. /\ [call[c] EXCEPT !.pc = "call", !.try = 1, !.seen = trips] \in Caller
      /\ [call[c] EXCEPT !.pc = "check", !.stage = "chat"] \in Caller
      /\ [call[c] EXCEPT !.pc = "stream"] \in Caller
      /\ [call[c] EXCEPT !.pc = "call"] \in Caller
      /\ [call[c] EXCEPT !.pc = "expire", !.total = failures + 1] \in Caller
      /\ [call[c] EXCEPT !.pc = "trip"] \in Caller
  <2>1. 1 \in 0..Attempts /\ {"call", "check", "stream", "expire", "trip"} \subseteq CallPC
        /\ "chat" \in Stage
    BY AttemptsAssumption DEF CallPC, Stage
  <2>2. [call[c] EXCEPT !.pc = "call", !.try = 1, !.seen = trips] \in Caller
    BY <1>0, <2>1 DEF Caller
  <2> QED
    BY <1>0, <2>1, <2>2 DEF Caller
<1>b. ASSUME call[c].try # Attempts
      PROVE  [call[c] EXCEPT !.pc = "sleep", !.try = @ + 1] \in Caller
  <2>1. call[c].try + 1 \in 0..Attempts
    BY <1>0, <1>b, AttemptsAssumption DEF Caller
  <2>2. "sleep" \in CallPC
    BY DEF CallPC
  <2> QED
    BY <1>0, <2>1, <2>2 DEF Caller
<1> USE DEF TypeOK, quotaVars, failVars, tripVars
<1>1. CASE SetCounterTTL(c)
  <2> DEFINE k == IF call[c].stage = "bill" THEN "tokens" ELSE CounterOf(call[c].kind)
  <2>1. k \in Counter /\ today \in Days /\ now \in Nat
    BY TodayIsADay, BoundsAssumption DEF today, CounterOf, Counter
  <2>2. now + CounterTTL \in Nat
    BY <2>1, TTLReachesMidnight
  <2>3. usedEnd' = [usedEnd EXCEPT ![k][today] =
                      IF used[k][today] = 0 THEN @ ELSE now + CounterTTL]
    BY <1>1 DEF SetCounterTTL
  <2> HIDE DEF k
  <2>4. usedEnd' \in [Counter -> [Days -> Nat]]
    BY <2>1, <2>2, <2>3
  <2>5. /\ call' \in [Callers -> Caller]
        /\ admitted' \in [Counter -> [Days -> Nat]]
    BY <1>1, JudgeType DEF SetCounterTTL
  <2> QED
    BY <1>1, <2>4, <2>5 DEF SetCounterTTL
<1>2. CASE Check(c)
  <2>1. \/ End(c)
        \/ call' = [call EXCEPT ![c] = [call[c] EXCEPT !.pc = "call", !.try = 1,
                                                     !.seen = trips]]
    BY <1>2 DEF Check
  <2>2. call' \in [Callers -> Caller]
    BY <1>a, <2>1, EndType
  <2> QED
    BY <1>2, <2>2 DEF Check
<1>3. CASE Succeeds(c)
  <2>1. call' \in [Callers -> Caller]
    <3>1. \/ End(c)
          \/ call' = [call EXCEPT ![c] = [call[c] EXCEPT !.pc = "check", !.stage = "chat"]]
          \/ call' = [call EXCEPT ![c] = [call[c] EXCEPT !.pc = "stream"]]
      BY <1>3 DEF Succeeds, Goto
    <3> QED
      BY <1>a, <3>1, EndType
  <2>2. lost' \in BOOLEAN
    BY <1>3, Zenon DEF Succeeds
  <2> QED
    BY <1>3, <2>1, <2>2, NeverIsLate, BoundsAssumption DEF Succeeds
<1>4. CASE RateLimited(c)
  <2>1. CASE End(c)
    BY <1>4, <2>1, EndType DEF RateLimited
  <2>2. CASE ~End(c)
    <3>1. /\ call[c].try # Attempts
          /\ call' = [call EXCEPT ![c] = [call[c] EXCEPT !.pc = "sleep", !.try = @ + 1]]
      BY <1>4, <2>2 DEF RateLimited
    <3> QED
      BY <1>4, <1>b, <3>1 DEF RateLimited
  <2> QED
    BY <2>1, <2>2
<1>5. CASE Wake(c)
  <2>1. call' \in [Callers -> Caller]
    BY <1>5, <1>a DEF Wake, Goto
  <2> QED
    BY <1>5, <2>1 DEF Wake
<1>6. CASE ServerError(c)
  <2>1. Free \in Caller
    BY AttemptsAssumption DEF Free, Caller, CallPC, Kind, Stage
  <2>2. \/ call' = [call EXCEPT ![c] = [call[c] EXCEPT !.pc = "expire",
                                                     !.total = failures + 1]]
        \/ call' = [call EXCEPT ![c] = [call[c] EXCEPT !.pc = "trip"]]
        \/ call' = [call EXCEPT ![c] = Free]
    BY <1>6 DEF ServerError
  <2>3. call' \in [Callers -> Caller]
    BY <1>a, <2>1, <2>2
  <2> QED
    BY <1>6, <2>3, BoundsAssumption DEF ServerError
<1>7. CASE SetFailureTTL(c)
  <2>1. call' \in [Callers -> Caller]
    BY <1>7, <1>a, EndType DEF SetFailureTTL, Goto
  <2>2. lost' \in BOOLEAN
    BY <1>7, Zenon DEF SetFailureTTL
  <2> QED
    BY <1>7, <2>1, <2>2, PeriodsAssumption, BoundsAssumption DEF SetFailureTTL
<1>8. CASE Trip(c)
  <2>1. call' \in [Callers -> Caller]
    BY <1>8, EndType DEF Trip
  <2> QED
    BY <1>8, <2>1, PeriodsAssumption, BoundsAssumption DEF Trip
<1>9. CASE StreamEnds(c)
  <2>1. CASE End(c) /\ UNCHANGED <<now, quotaVars, failVars, tripVars>>
    BY <1>9, <2>1, EndType DEF StreamEnds
  <2>2. ASSUME NEW amount \in 1..MaxTokens, Charge(c, "tokens", "ask", "bill", amount)
        PROVE  TypeOK'
    <3>1. amount \in Nat /\ calls' \in 0..MaxCalls
      BY <1>9, BoundsAssumption DEF StreamEnds
    <3> QED
      BY <2>2, <3>1, ChargeType DEF Counter, Kind, Stage
  <2> QED
    BY <1>9, <2>1, <2>2 DEF StreamEnds
<1>10. CASE Abort(c)
  <2>1. lost' \in BOOLEAN
    BY <1>10, Zenon DEF Abort
  <2> QED
    BY <1>10, <2>1, EndType DEF Abort
<1> QED
  BY <1>1, <1>2, <1>3, <1>4, <1>5, <1>6, <1>7, <1>8, <1>9, <1>10 DEF Proceed, Answered

\* Every step keeps the types.
LEMMA NextType == TypeOK /\ [Next]_vars => TypeOK'
<1> SUFFICES ASSUME TypeOK, [Next]_vars
             PROVE  TypeOK'
  OBVIOUS
<1>1. ASSUME NEW c \in Callers, NEW kind \in Kind, NEW amount \in Amounts(kind),
             Start(c, kind, amount)
      PROVE  TypeOK'
  <2>1. amount \in Nat /\ calls' \in 0..MaxCalls
    BY <1>1, BoundsAssumption DEF Start, Amounts, TypeOK
  <2> QED
    BY <1>1, <2>1, ChargeType DEF Start, CounterOf, Counter, Stage
<1>2. ASSUME NEW c \in Callers, NextBatch(c) PROVE TypeOK'
  <2>1. [Free EXCEPT !.pc = "check", !.kind = "ingest", !.stage = "embed"] \in Caller
    BY FreeUpdates DEF CallPC, Kind, Stage
  <2>2. call' \in [Callers -> Caller]
    BY <1>2, <2>1 DEF NextBatch, TypeOK
  <2>3. calls' \in 0..MaxCalls
    BY <1>2, BoundsAssumption DEF NextBatch, TypeOK
  <2> QED
    BY <1>2, <2>2, <2>3 DEF NextBatch, TypeOK, quotaVars, failVars, tripVars
<1>3. CASE Tick
  <2>1. /\ now' \in 0..MaxTime
        /\ used' \in [Counter -> [Days -> Nat]]
        /\ usedEnd' \in [Counter -> [Days -> Nat]]
    BY <1>3, BoundsAssumption, NeverIsLate DEF Tick, TypeOK
  <2>2. failures' \in Nat /\ failEnd' \in Nat /\ since' \in Nat
    BY <1>3, <2>1, BoundsAssumption, NeverIsLate DEF Tick, TypeOK, failVars
  <2>3. openUntil' \in Nat /\ openEnd' \in Nat
    BY <1>3, NeverIsLate DEF Tick, TypeOK
  <2>4. lost' \in BOOLEAN
    BY <1>3, Zenon DEF Tick, TypeOK, failVars
  <2> QED
    BY <1>3, <2>1, <2>2, <2>3, <2>4 DEF Tick, TypeOK
<1>4. CASE UNCHANGED vars
  BY <1>4 DEF vars, redisVars, TypeOK
<1> QED
  BY <1>1, <1>2, <1>3, <1>4, ProceedType DEF Next

\* Every variable keeps its type; no call makes more than Attempts attempts
\* (utils/openai_client.py:156-204).
THEOREM GuardTypeCorrect == Spec => []TypeOK
BY InitType, NextType, PTL DEF Spec
--------------------------------------------------------------------------------
(* The daily counters.  Their key outlives its day, so that of the current *)
(* day and of those to come nothing is lost.  What stands between that and *)
(* the allowance is the caller that found the counter empty and is about   *)
(* to set its TTL: it has charged, was not judged yet, and will be let in  *)
(* by the total it saw, its own amount, whatever others charge meanwhile.  *)

\* The counter whose TTL a caller is about to set.
TTLKey(c) == IF call[c].stage = "bill" THEN "tokens" ELSE CounterOf(call[c].kind)

KeysOutliveTheirDay ==
    \A k \in Counter, d \in Days : Day * (d + 1) <= usedEnd[k][d]

CountersHoldAll ==
    \A k \in Counter, d \in Days :
       today <= d => used[k][d] = charged[k][d] /\ admitted[k][d] <= charged[k][d]

FirstIsPending ==
    \A c \in Callers : At(c, "ttl") =>
       /\ call[c].amount >= 1 /\ call[c].total = call[c].amount
       /\ call[c].amount <= used[TTLKey(c)][today]
       /\ call[c].stage # "bill" =>
            /\ admitted[TTLKey(c)][today] + call[c].amount <= charged[TTLKey(c)][today]
            /\ \/ admitted[TTLKey(c)][today] = 0
               \/ admitted[TTLKey(c)][today] + call[c].amount <= Limit(TTLKey(c))

OneFirst ==
    \A b, c \in Callers : At(b, "ttl") /\ At(c, "ttl") /\ TTLKey(b) = TTLKey(c) => b = c

QuotaInv ==
    /\ KeysOutliveTheirDay /\ CountersHoldAll /\ FirstIsPending /\ OneFirst
    /\ AllowanceHolds

\* A caller that goes on without touching the counters leaves them as they were.
LEMMA QuotaUntouched ==
  ASSUME TypeOK, QuotaInv, UNCHANGED <<now, quotaVars>>,
         \A x \in Callers : call'[x].pc = "ttl" => call'[x] = call[x]
  PROVE  QuotaInv'
<1>1. UNCHANGED <<now, used, usedEnd, charged, admitted, today>>
  BY DEF quotaVars, today
<1>2. \A x \in Callers : At(x, "ttl")' => At(x, "ttl") /\ call'[x] = call[x]
                                        /\ TTLKey(x)' = TTLKey(x)
  BY DEF At, TTLKey
<1>3. KeysOutliveTheirDay' /\ CountersHoldAll' /\ AllowanceHolds'
  BY <1>1 DEF QuotaInv, KeysOutliveTheirDay, CountersHoldAll, AllowanceHolds
<1>4. FirstIsPending'
  BY <1>1, <1>2 DEF QuotaInv, FirstIsPending
<1>5. OneFirst'
  BY <1>2 DEF QuotaInv, OneFirst
<1> QED
  BY <1>3, <1>4, <1>5 DEF QuotaInv

\* What judging does: the caller ends, or its charge is within the limit and it
\* is let in; either way it is not about to set a TTL.
LEMMA JudgeOutcome ==
  ASSUME TypeOK, NEW c \in Callers, NEW me \in Caller, Judge(c, me)
  PROVE  /\ \A x \in Callers : x # c => call'[x] = call[x]
         /\ call'[c].pc \in {"idle", "check"} /\ call'[c].seen \in {0, me.seen}
         /\ \/ admitted' = admitted
            \/ /\ me.stage # "bill" /\ me.total <= Limit(CounterOf(me.kind))
               /\ admitted' = [admitted EXCEPT ![CounterOf(me.kind)][today] = @ + me.amount]
<1>1. CASE End(c) /\ UNCHANGED admitted
  BY <1>1 DEF End, Free, TypeOK
<1>2. CASE /\ ~(me.stage = "bill" \/ OverLimit(CounterOf(me.kind), me.total, me.amount))
           /\ call' = [call EXCEPT ![c] = [me EXCEPT !.pc = "check", !.stage = "embed"]]
           /\ admitted' = [admitted EXCEPT ![CounterOf(me.kind)][today] = @ + me.amount]
  <2>1. /\ [me EXCEPT !.pc = "check", !.stage = "embed"].pc = "check"
        /\ [me EXCEPT !.pc = "check", !.stage = "embed"].seen = me.seen
    BY DEF Caller
  <2>2. me.total <= Limit(CounterOf(me.kind))
    BY <1>2, LimitsAssumption DEF OverLimit, Caller, Limit
  <2> QED
    BY <1>2, <2>1, <2>2 DEF TypeOK
<1> QED
  BY <1>1, <1>2 DEF Judge

\* A charge keeps the counters' invariant.
LEMMA ChargeKeepsQuota ==
  ASSUME TypeOK, QuotaInv, NEW c \in Callers, NEW k \in Counter, NEW kind \in Kind,
         NEW stage \in Stage, NEW amount \in Nat \ {0}, ~At(c, "ttl"),
         k = (IF stage = "bill" THEN "tokens" ELSE CounterOf(kind)),
         Charge(c, k, kind, stage, amount)
  PROVE  QuotaInv'
<1> DEFINE me == [Free EXCEPT !.kind = kind, !.stage = stage, !.amount = amount,
                              !.total = used[k][today] + amount]
<1>1. today \in Days /\ today' = today /\ today \in Nat
  BY TodayIsADay DEF TypeOK, today, Charge, Days
<1>2. /\ used[k][today] \in Nat /\ used[k][today] = charged[k][today]
      /\ admitted[k][today] \in Nat /\ admitted[k][today] <= charged[k][today]
  BY <1>1 DEF TypeOK, QuotaInv, CountersHoldAll
<1>3. me \in Caller
  <2>1. used[k][today] + amount \in Nat /\ "ttl" \in CallPC
    BY <1>2 DEF CallPC
  <2> QED
    BY <2>1, FreeUpdates
<1>4. /\ me.kind = kind /\ me.stage = stage /\ me.amount = amount
      /\ me.total = used[k][today] + amount
  BY DEF Free
<1>5. \A i \in Counter, d \in Days :
        LET here == i = k /\ d = today IN
        /\ used'[i][d] = IF here THEN used[i][d] + amount ELSE used[i][d]
        /\ charged'[i][d] = IF here THEN charged[i][d] + amount ELSE charged[i][d]
        /\ usedEnd'[i][d] = IF here THEN Never ELSE usedEnd[i][d]
  BY <1>1 DEF Charge, Add, TypeOK
<1>a. \/ /\ me.total = amount /\ UNCHANGED admitted
         /\ call' = [call EXCEPT ![c] = [me EXCEPT !.pc = "ttl"]]
      \/ Judge(c, me)
  BY DEF Charge
<1>b. stage # "bill" => CounterOf(me.kind) = k
  BY <1>4
<1> HIDE DEF me
<1>6. \A x \in Callers : x # c => call'[x] = call[x]
  <2>1. CASE call' = [call EXCEPT ![c] = [me EXCEPT !.pc = "ttl"]]
    BY <2>1 DEF TypeOK
  <2>2. CASE Judge(c, me)
    BY <1>3, <2>2, JudgeOutcome
  <2> QED
    BY <1>a, <2>1, <2>2
<1>7. \/ /\ me.total = amount /\ admitted' = admitted
         /\ call'[c] = [me EXCEPT !.pc = "ttl"]
      \/ call'[c].pc # "ttl" /\ admitted' = admitted
      \/ /\ call'[c].pc # "ttl" /\ stage # "bill" /\ me.total <= Limit(k)
         /\ admitted' = [admitted EXCEPT ![k][today] = @ + amount]
  <2>1. CASE /\ me.total = amount /\ UNCHANGED admitted
             /\ call' = [call EXCEPT ![c] = [me EXCEPT !.pc = "ttl"]]
    BY <2>1 DEF TypeOK
  <2>2. CASE Judge(c, me)
    BY <1>3, <1>4, <1>b, <2>2, JudgeOutcome
  <2> QED
    BY <1>a, <2>1, <2>2
<1>8. KeysOutliveTheirDay'
  BY <1>5, NeverIsLate DEF QuotaInv, KeysOutliveTheirDay
<1>9. \A i \in Counter, d \in Days :
         \/ admitted'[i][d] = admitted[i][d]
         \/ /\ i = k /\ d = today /\ stage # "bill" /\ call'[c].pc # "ttl"
            /\ admitted'[i][d] = admitted[i][d] + amount
            /\ charged[k][today] + amount <= Limit(k)
  BY <1>1, <1>2, <1>4, <1>7 DEF TypeOK
<1>10. CountersHoldAll'
  BY <1>1, <1>5, <1>9 DEF QuotaInv, CountersHoldAll, TypeOK
<1>11. AllowanceHolds'
  <2>1. \A i \in Counter : Limit(i) \in Nat
    BY LimitsAssumption DEF Limit
  <2> QED
    BY <1>2, <1>9, <2>1 DEF QuotaInv, AllowanceHolds, TypeOK
<1>12. \A x \in Callers : x # c => (At(x, "ttl")' <=> At(x, "ttl")) /\ TTLKey(x)' = TTLKey(x)
  BY <1>6 DEF At, TTLKey
<1>13. At(c, "ttl")' => /\ TTLKey(c)' = k /\ call'[c].amount = amount
                        /\ call'[c].total = amount /\ used[k][today] = 0
                        /\ call'[c].stage = stage /\ admitted' = admitted
  <2>1. /\ [me EXCEPT !.pc = "ttl"].kind = kind /\ [me EXCEPT !.pc = "ttl"].stage = stage
        /\ [me EXCEPT !.pc = "ttl"].amount = amount
        /\ [me EXCEPT !.pc = "ttl"].total = me.total
    BY <1>3, <1>4 DEF Caller
  <2>2. At(c, "ttl")' => /\ call'[c] = [me EXCEPT !.pc = "ttl"]
                         /\ me.total = amount /\ admitted' = admitted
    BY <1>7 DEF At
  <2>3. me.total = amount => used[k][today] = 0
    BY <1>2, <1>4
  <2> QED
    BY <1>4, <2>1, <2>2, <2>3 DEF TTLKey
<1>14. FirstIsPending'
  <2> SUFFICES ASSUME NEW x \in Callers, At(x, "ttl")'
               PROVE  /\ call'[x].amount >= 1 /\ call'[x].total = call'[x].amount
                      /\ call'[x].amount <= used'[TTLKey(x)'][today]
                      /\ call'[x].stage # "bill" =>
                           /\ admitted'[TTLKey(x)'][today] + call'[x].amount
                                <= charged'[TTLKey(x)'][today]
                           /\ \/ admitted'[TTLKey(x)'][today] = 0
                              \/ admitted'[TTLKey(x)'][today] + call'[x].amount
                                   <= Limit(TTLKey(x)')
    BY <1>1 DEF FirstIsPending
  <2>1. CASE x = c
    BY <1>1, <1>2, <1>5, <1>13, <2>1
  <2>2. CASE x # c
    <3>1. At(x, "ttl") /\ TTLKey(x)' = TTLKey(x) /\ call'[x] = call[x]
      BY <1>6, <1>12, <2>2
    <3>2. TTLKey(x) \in Counter /\ call[x].amount \in Nat
      BY DEF TTLKey, CounterOf, Counter, TypeOK, Caller
    <3>3. /\ call[x].amount >= 1 /\ call[x].total = call[x].amount
          /\ call[x].amount <= used[TTLKey(x)][today]
          /\ call[x].stage # "bill" =>
               /\ admitted[TTLKey(x)][today] + call[x].amount <= charged[TTLKey(x)][today]
               /\ \/ admitted[TTLKey(x)][today] = 0
                  \/ admitted[TTLKey(x)][today] + call[x].amount <= Limit(TTLKey(x))
      BY <3>1 DEF QuotaInv, FirstIsPending
    <3>4. CASE TTLKey(x) = k
      <4>1. /\ used'[k][today] = used[k][today] + amount
            /\ charged'[k][today] = charged[k][today] + amount
        BY <1>1, <1>5
      <4>2. \/ admitted'[k][today] = admitted[k][today]
            \/ /\ admitted'[k][today] = admitted[k][today] + amount
               /\ charged[k][today] + amount <= Limit(k)
        BY <1>1, <1>9
      <4>3. Limit(k) \in Nat
        BY LimitsAssumption DEF Limit
      <4> QED
        BY <1>2, <3>1, <3>2, <3>3, <3>4, <4>1, <4>2, <4>3
    <3>5. CASE TTLKey(x) # k
      <4>1. /\ used'[TTLKey(x)][today] = used[TTLKey(x)][today]
            /\ charged'[TTLKey(x)][today] = charged[TTLKey(x)][today]
            /\ admitted'[TTLKey(x)][today] = admitted[TTLKey(x)][today]
        BY <1>1, <1>5, <1>9, <3>2, <3>5
      <4> QED
        BY <3>1, <3>3, <4>1
    <3> QED
      BY <3>4, <3>5
  <2> QED
    BY <2>1, <2>2
<1>15. OneFirst'
  <2>1. ASSUME NEW x \in Callers, x # c, At(x, "ttl")', At(c, "ttl")', TTLKey(x)' = TTLKey(c)'
        PROVE  FALSE
    <3>1. At(x, "ttl") /\ TTLKey(x) = k /\ used[k][today] = 0
      BY <1>12, <1>13, <2>1
    <3> QED
      BY <3>1 DEF QuotaInv, FirstIsPending, TypeOK, Caller
  <2> QED
    BY <1>12, <2>1 DEF QuotaInv, OneFirst
<1> QED
  BY <1>8, <1>10, <1>11, <1>14, <1>15 DEF QuotaInv

\* Setting the TTL and judging who found the counter empty keeps it.
LEMMA SetCounterTTLKeepsQuota ==
  ASSUME TypeOK, QuotaInv, NEW c \in Callers, SetCounterTTL(c)
  PROVE  QuotaInv'
<1> DEFINE k == TTLKey(c)
           amount == call[c].amount
<1>1. today \in Days /\ today' = today /\ now \in Nat /\ call[c] \in Caller
  BY TodayIsADay, BoundsAssumption DEF TypeOK, today, SetCounterTTL
<1>2. k \in Counter /\ amount \in Nat /\ UNCHANGED <<used, charged>>
  BY <1>1 DEF TTLKey, CounterOf, Counter, Caller, SetCounterTTL
<1>3. /\ used[k][today] \in Nat /\ charged[k][today] \in Nat /\ admitted[k][today] \in Nat
      /\ amount >= 1 /\ call[c].total = amount
      /\ call[c].stage # "bill" =>
           /\ admitted[k][today] + amount <= charged[k][today]
           /\ \/ admitted[k][today] = 0
              \/ admitted[k][today] + amount <= Limit(k)
  BY <1>1, <1>2 DEF QuotaInv, FirstIsPending, SetCounterTTL, TypeOK
<1>4. /\ \A x \in Callers : x # c => call'[x] = call[x]
      /\ call'[c].pc # "ttl"
      /\ \/ admitted' = admitted
         \/ /\ call[c].stage # "bill" /\ amount <= Limit(k)
            /\ admitted' = [admitted EXCEPT ![k][today] = @ + amount]
  BY <1>1, <1>3, JudgeOutcome DEF SetCounterTTL, TTLKey
<1>5. \A i \in Counter, d \in Days :
         \/ admitted'[i][d] = admitted[i][d]
         \/ /\ i = k /\ d = today /\ admitted'[i][d] = admitted[i][d] + amount
            /\ admitted[k][today] + amount <= charged[k][today]
            /\ admitted[k][today] + amount <= Limit(k)
  BY <1>1, <1>2, <1>3, <1>4 DEF TypeOK
<1>6. usedEnd' = [usedEnd EXCEPT ![k][today] =
                    IF used[k][today] = 0 THEN @ ELSE now + CounterTTL]
  BY DEF SetCounterTTL, TTLKey
<1> HIDE DEF k, amount
<1>7. KeysOutliveTheirDay'
  <2>1. now + CounterTTL \in Nat /\ Day * (today + 1) <= now + CounterTTL
    BY <1>1, TTLReachesMidnight
  <2> QED
    BY <1>1, <1>2, <1>6, <2>1 DEF QuotaInv, KeysOutliveTheirDay, TypeOK
<1>8. CountersHoldAll'
  BY <1>1, <1>2, <1>5 DEF QuotaInv, CountersHoldAll
<1>9. AllowanceHolds'
  BY <1>5 DEF QuotaInv, AllowanceHolds
<1>10. \A x \in Callers : At(x, "ttl")' => /\ x # c /\ At(x, "ttl") /\ call'[x] = call[x]
                                         /\ TTLKey(x)' = TTLKey(x) /\ TTLKey(x) # k
  BY <1>4 DEF At, TTLKey, QuotaInv, OneFirst, SetCounterTTL, k
<1>11. FirstIsPending'
  <2> SUFFICES ASSUME NEW x \in Callers, At(x, "ttl")'
               PROVE  admitted'[TTLKey(x)][today] = admitted[TTLKey(x)][today]
    BY <1>1, <1>2, <1>10 DEF QuotaInv, FirstIsPending
  <2>1. TTLKey(x) \in Counter
    BY DEF TTLKey, CounterOf, Counter
  <2> QED
    BY <1>1, <1>5, <1>10, <2>1
<1>12. OneFirst'
  BY <1>10 DEF QuotaInv, OneFirst
<1> QED
  BY <1>7, <1>8, <1>9, <1>11, <1>12 DEF QuotaInv

\* The clock drops no counter of the current day or of a later one.
LEMMA TickKeepsQuota ==
  ASSUME TypeOK, QuotaInv, Tick
  PROVE  QuotaInv'
<1>1. /\ now \in Nat /\ now' = now + 1 /\ now' \in 0..MaxTime
      /\ UNCHANGED <<call, charged, admitted>>
  BY BoundsAssumption DEF Tick, TypeOK
<1>2. today \in Nat /\ today' \in Days /\ today' \in Nat /\ today <= today'
  BY <1>1, TodayIsADay, DaysInOrder, DayBounds DEF today
<1>3. \A x \in Callers : ~At(x, "ttl")'
  BY <1>1 DEF Tick, At
<1>4. ASSUME NEW k \in Counter, NEW d \in Days
      PROVE  /\ Day * (d + 1) <= usedEnd'[k][d]
             /\ today' <= d => used'[k][d] = used[k][d]
  <2>1. /\ usedEnd'[k][d] = IF usedEnd[k][d] <= now' THEN Never ELSE usedEnd[k][d]
        /\ used'[k][d] = IF usedEnd[k][d] <= now' THEN 0 ELSE used[k][d]
    BY DEF Tick
  <2>2. Day * (d + 1) <= usedEnd[k][d] /\ usedEnd[k][d] \in Nat
    BY DEF QuotaInv, KeysOutliveTheirDay, TypeOK
  <2>0. d \in Nat
    BY DayBounds, BoundsAssumption DEF Days
  <2>3. ASSUME today' <= d PROVE ~(usedEnd[k][d] <= now')
    <3>1. now' < Day * (today' + 1)
      BY <1>1, DayBounds DEF today
    <3>2. Day * (today' + 1) <= Day * (d + 1)
      BY <1>2, <2>0, <2>3, LaterDayEnds, Zenon
    <3>3. Day * (today' + 1) \in Nat /\ Day * (d + 1) \in Nat
      BY <1>2, <2>0, <2>3, LaterDayEnds, Zenon
    <3> HIDE DEF today
    <3> DEFINE a == Day * (today' + 1)
               b == Day * (d + 1)
    <3>4. a \in Nat /\ b \in Nat /\ now' < a /\ a <= b /\ b <= usedEnd[k][d]
      BY <2>2, <3>1, <3>2, <3>3
    <3> HIDE DEF a, b
    <3> QED
      BY <1>1, <2>2, <3>4
  <2> QED
    BY <2>1, <2>2, <2>3, NeverIsLate
<1>5. KeysOutliveTheirDay'
  BY <1>4 DEF KeysOutliveTheirDay
<1>6. CountersHoldAll'
  BY <1>1, <1>2, <1>4 DEF QuotaInv, CountersHoldAll, Days
<1>7. AllowanceHolds'
  BY <1>1 DEF QuotaInv, AllowanceHolds
<1>8. FirstIsPending' /\ OneFirst'
  BY <1>3 DEF FirstIsPending, OneFirst
<1> QED
  BY <1>5, <1>6, <1>7, <1>8 DEF QuotaInv

\* Every step of a caller keeps the counters' invariant.
LEMMA ProceedKeepsQuota ==
  ASSUME TypeOK, QuotaInv, NEW c \in Callers, Proceed(c)
  PROVE  QuotaInv'
<1>1. ASSUME UNCHANGED <<now, quotaVars>>, call'[c].pc # "ttl",
             \A x \in Callers : x # c => call'[x] = call[x]
      PROVE  QuotaInv'
  BY <1>1, QuotaUntouched
<1>2. call[c] \in Caller /\ DOMAIN call = Callers
  BY DEF TypeOK
<1>3. CASE SetCounterTTL(c)
  BY <1>3, SetCounterTTLKeepsQuota
<1>4. CASE StreamEnds(c)
  <2>1. ASSUME NEW amount \in 1..MaxTokens, Charge(c, "tokens", "ask", "bill", amount)
        PROVE  QuotaInv'
    <3>1. amount \in Nat \ {0} /\ ~At(c, "ttl")
      BY <1>4, BoundsAssumption DEF StreamEnds, At
    <3> QED
      BY <2>1, <3>1, ChargeKeepsQuota DEF Counter, Kind, Stage
  <2>2. CASE End(c) /\ UNCHANGED <<now, quotaVars>>
    BY <1>1, <2>2 DEF End, Free, TypeOK
  <2> QED
    BY <1>4, <2>1, <2>2 DEF StreamEnds
<1>5. CASE Check(c)
  <2>1. CASE End(c)
    BY <1>1, <1>5, <2>1 DEF Check, End, Free, TypeOK
  <2>2. CASE ~End(c)
    BY <1>1, <1>2, <1>5, <2>2 DEF Check, TypeOK, Caller
  <2> QED
    BY <2>1, <2>2
<1>6. CASE Succeeds(c)
  <2>1. CASE End(c)
    BY <1>1, <1>6, <2>1 DEF Succeeds, End, Free, TypeOK
  <2>2. CASE ~End(c)
    BY <1>1, <1>2, <1>6, <2>2 DEF Succeeds, Goto, TypeOK, Caller
  <2> QED
    BY <2>1, <2>2
<1>7. CASE RateLimited(c)
  <2>1. CASE End(c)
    BY <1>1, <1>7, <2>1 DEF RateLimited, End, Free, TypeOK
  <2>2. CASE ~End(c)
    BY <1>1, <1>2, <1>7, <2>2 DEF RateLimited, TypeOK, Caller
  <2> QED
    BY <2>1, <2>2
<1>8. CASE ServerError(c)
  BY <1>1, <1>2, <1>8 DEF ServerError, Free, TypeOK, Caller
<1>9. CASE Wake(c)
  BY <1>1, <1>2, <1>9 DEF Wake, Goto, TypeOK, Caller
<1>10. CASE SetFailureTTL(c)
  <2>1. CASE End(c)
    BY <1>1, <1>10, <2>1 DEF SetFailureTTL, End, Free, TypeOK
  <2>2. CASE ~End(c)
    BY <1>1, <1>2, <1>10, <2>2 DEF SetFailureTTL, Goto, TypeOK, Caller
  <2> QED
    BY <2>1, <2>2
<1>11. CASE Trip(c)
  BY <1>1, <1>11 DEF Trip, End, Free, TypeOK
<1>12. CASE Abort(c)
  BY <1>1, <1>12 DEF Abort, End, Free, TypeOK
<1> QED
  BY <1>3, <1>4, <1>5, <1>6, <1>7, <1>8, <1>9, <1>10, <1>11, <1>12 DEF Proceed, Answered

\* The counters' invariant holds from the start.
LEMMA QuotaInductive == Spec => []QuotaInv
<1>1. Init => QuotaInv
  <2> SUFFICES ASSUME Init PROVE QuotaInv
    OBVIOUS
  <2>1. /\ \A k \in Counter, d \in Days : /\ used[k][d] = 0 /\ charged[k][d] = 0
                                       /\ admitted[k][d] = 0 /\ usedEnd[k][d] = Never
        /\ \A c \in Callers : call[c].pc = "idle"
    BY DEF Init, Zero, Free
  <2>2. \A k \in Counter : Limit(k) \in Nat
    BY LimitsAssumption DEF Limit
  <2> QED
    BY <2>1, <2>2, NeverIsLate DEF QuotaInv, KeysOutliveTheirDay, CountersHoldAll,
       FirstIsPending, OneFirst, AllowanceHolds, At
<1>2. TypeOK /\ QuotaInv /\ [Next]_vars => QuotaInv'
  <2> SUFFICES ASSUME TypeOK, QuotaInv, [Next]_vars PROVE QuotaInv'
    OBVIOUS
  <2>1. ASSUME NEW c \in Callers, NEW kind \in Kind, NEW amount \in Amounts(kind),
               Start(c, kind, amount)
        PROVE  QuotaInv'
    <3>1. amount \in Nat \ {0} /\ ~At(c, "ttl") /\ CounterOf(kind) \in Counter
      BY <2>1, BoundsAssumption DEF Start, Amounts, At, CounterOf, Counter
    <3> QED
      BY <2>1, <3>1, ChargeKeepsQuota DEF Start, Stage
  <2>2. ASSUME NEW c \in Callers, NextBatch(c) PROVE QuotaInv'
    BY <2>2, QuotaUntouched DEF NextBatch, Free, TypeOK
  <2>3. CASE UNCHANGED vars
    BY <2>3, QuotaUntouched DEF vars, redisVars, quotaVars
  <2> QED
    BY <2>1, <2>2, <2>3, ProceedKeepsQuota, TickKeepsQuota DEF Next
<1> QED
  BY <1>1, <1>2, GuardTypeCorrect, PTL DEF Spec

\* Of one day's allowance no more is given out than there is
\* (utils/openai_client.py:113-152, utils/redis_client.py:88-120).
THEOREM AllowanceIsKept == Spec => []AllowanceHolds
BY QuotaInductive, PTL DEF QuotaInv

\* The counter of the current day holds all that was charged that day
\* (utils/redis_client.py:32-37, 104-120).
THEOREM NothingChargedIsLost == Spec => []CounterCoversDay
<1>1. TypeOK /\ QuotaInv => CounterCoversDay
  BY TodayIsADay DEF TypeOK, QuotaInv, CountersHoldAll, CounterCoversDay, today, Days
<1> QED
  BY <1>1, GuardTypeCorrect, QuotaInductive, PTL
--------------------------------------------------------------------------------
(* The breaker.                                                            *)

\* Until the last trip runs out, the key that keeps the breaker open is there.
TripHolds ==
    /\ now < tripEnd => openUntil = tripEnd /\ tripEnd <= openEnd
    /\ \A c \in Callers : call[c].seen <= trips

BreakerInv == TripHolds /\ NobodyLetInWhileOpen

\* Failures that count have a window that began with the first of them, unless
\* who counted the first is still about to set it or died before.
FailureInv ==
    /\ failures > 0 => \/ now < failEnd /\ failEnd <= since + Window
                       \/ lost
                       \/ \E c \in Callers : At(c, "expire")
    /\ \A c \in Callers : At(c, "expire") => since = now
\* What happens around the calls of OpenAI does not touch the breaker, and
\* leaves its caller outside a call.
LEMMA AroundTheCall ==
  ASSUME TypeOK, TripHolds, NEW c \in Callers,
         \/ \E kind \in Kind : \E amount \in Amounts(kind) : Start(c, kind, amount)
         \/ NextBatch(c) \/ SetCounterTTL(c) \/ StreamEnds(c)
  PROVE  /\ UNCHANGED <<now, failVars, tripVars>> /\ ~At(c, "expire")
         /\ \A x \in Callers : x # c => call'[x] = call[x]
         /\ call'[c].pc \in {"idle", "ttl", "check"}
         /\ call'[c].seen \in Nat /\ call'[c].seen <= trips
<1>1. call[c] \in Caller /\ call[c].seen <= trips /\ trips \in Nat
  BY DEF TypeOK, TripHolds
<1>2. ASSUME NEW k \in Counter, NEW kind \in Kind, NEW stage \in Stage, NEW amount \in Nat,
             Charge(c, k, kind, stage, amount)
      PROVE  /\ UNCHANGED <<now, failVars, tripVars>>
             /\ \A x \in Callers : x # c => call'[x] = call[x]
             /\ call'[c].pc \in {"idle", "ttl", "check"} /\ call'[c].seen = 0
  <2> DEFINE me == [Free EXCEPT !.kind = kind, !.stage = stage, !.amount = amount,
                                !.total = used[k][today] + amount]
  <2>1. used[k][today] + amount \in Nat /\ "ttl" \in CallPC
    BY <1>2, TodayIsADay DEF TypeOK, today, CallPC
  <2>2. me \in Caller /\ me.seen = 0
    BY <2>1, FreeUpdates DEF Free
  <2>3. \/ call' = [call EXCEPT ![c] = [me EXCEPT !.pc = "ttl"]]
        \/ Judge(c, me)
    BY <1>2 DEF Charge
  <2>4. UNCHANGED <<now, failVars, tripVars>>
    BY <1>2 DEF Charge
  <2> HIDE DEF me
  <2>5. CASE call' = [call EXCEPT ![c] = [me EXCEPT !.pc = "ttl"]]
    BY <2>2, <2>4, <2>5 DEF TypeOK, Caller
  <2>6. CASE Judge(c, me)
    BY <2>2, <2>4, <2>6, JudgeOutcome
  <2> QED
    BY <2>3, <2>5, <2>6
<1>3. ASSUME NEW kind \in Kind, NEW amount \in Amounts(kind), Start(c, kind, amount)
      PROVE  /\ UNCHANGED <<now, failVars, tripVars>> /\ ~At(c, "expire")
             /\ \A x \in Callers : x # c => call'[x] = call[x]
             /\ call'[c].pc \in {"idle", "ttl", "check"} /\ call'[c].seen = 0
  <2>1. amount \in Nat /\ ~At(c, "expire") /\ CounterOf(kind) \in Counter
    BY <1>3, BoundsAssumption DEF Start, Amounts, At, CounterOf, Counter
  <2> QED
    BY <1>2, <1>3, <2>1 DEF Start, Stage
<1>4. CASE NextBatch(c)
  BY <1>1, <1>4 DEF NextBatch, At, Free, TypeOK
<1>5. CASE SetCounterTTL(c)
  <2>1. /\ Judge(c, call[c]) /\ call[c].pc = "ttl"
        /\ UNCHANGED <<now, failVars, tripVars>>
    BY <1>5 DEF SetCounterTTL, At
  <2>2. call[c].seen \in Nat
    BY <1>1 DEF Caller
  <2>3. /\ \A x \in Callers : x # c => call'[x] = call[x]
        /\ call'[c].pc \in {"idle", "check"} /\ call'[c].seen \in {0, call[c].seen}
    BY <1>1, <2>1, JudgeOutcome
  <2> QED
    BY <1>1, <2>1, <2>2, <2>3 DEF At
<1>6. CASE StreamEnds(c)
  <2>1. CASE End(c) /\ UNCHANGED <<now, failVars, tripVars>>
    BY <1>1, <1>6, <2>1 DEF StreamEnds, End, Free, At, TypeOK
  <2>2. ASSUME NEW amount \in 1..MaxTokens, Charge(c, "tokens", "ask", "bill", amount)
        PROVE  /\ UNCHANGED <<now, failVars, tripVars>>
               /\ \A x \in Callers : x # c => call'[x] = call[x]
               /\ call'[c].pc \in {"idle", "ttl", "check"} /\ call'[c].seen = 0
    BY <1>2, <2>2, BoundsAssumption DEF Counter, Kind, Stage
  <2>3. ~At(c, "expire")
    BY <1>6 DEF StreamEnds, At
  <2> QED
    BY <1>1, <1>6, <2>1, <2>2, <2>3 DEF StreamEnds
<1> QED
  BY <1>1, <1>3, <1>4, <1>5, <1>6

\* Nobody who is let in during a call, or ends one, disturbs the breaker.
LEMMA BreakerUntouched ==
  ASSUME TypeOK, BreakerInv, UNCHANGED <<now, tripVars>>, NEW c \in Callers,
         \A x \in Callers : x # c => call'[x] = call[x],
         call'[c].seen \in Nat, call'[c].seen <= trips,
         call'[c].pc \in {"call", "sleep"} =>
            /\ call[c].pc \in {"call", "sleep"} /\ call'[c].seen = call[c].seen
  PROVE  BreakerInv'
BY DEF BreakerInv, TripHolds, NobodyLetInWhileOpen, tripVars

\* Every step keeps the breaker's invariant.
LEMMA NextKeepsBreaker ==
  ASSUME TypeOK, BreakerInv, Next
  PROVE  BreakerInv'
<1>1. ASSUME NEW c \in Callers,
             \/ \E kind \in Kind : \E amount \in Amounts(kind) : Start(c, kind, amount)
             \/ NextBatch(c) \/ SetCounterTTL(c) \/ StreamEnds(c)
      PROVE  BreakerInv'
  <2>1. /\ UNCHANGED <<now, failVars, tripVars>>
        /\ \A x \in Callers : x # c => call'[x] = call[x]
        /\ call'[c].pc \in {"idle", "ttl", "check"}
        /\ call'[c].seen \in Nat /\ call'[c].seen <= trips
    BY <1>1, AroundTheCall DEF BreakerInv
  <2> QED
    BY <2>1, BreakerUntouched
<1>2. ASSUME NEW c \in Callers, UNCHANGED <<now, tripVars>>, End(c)
      PROVE  BreakerInv'
  BY <1>2, BreakerUntouched DEF End, Free, TypeOK
<1>3. ASSUME NEW c \in Callers, UNCHANGED <<now, tripVars>>, NEW me,
             call' = [call EXCEPT ![c] = me], me.seen = call[c].seen,
             me.pc \in {"call", "sleep"} => call[c].pc \in {"call", "sleep"}
      PROVE  BreakerInv'
  BY <1>3, BreakerUntouched DEF TypeOK, Caller, BreakerInv, TripHolds
<1>4. ASSUME NEW c \in Callers, Check(c) PROVE BreakerInv'
  <2>1. CASE Open
    BY <1>2, <1>4, <2>1 DEF Check
  <2>2. CASE ~Open
    <3>1. /\ \A x \in Callers : x # c => call'[x] = call[x]
          /\ call'[c].seen = trips /\ UNCHANGED <<now, tripVars>>
      BY <1>4, <2>2 DEF Check, TypeOK, Caller
    <3>2. ~(now < tripEnd)
      BY <2>2 DEF Open, BreakerInv, TripHolds
    <3> QED
      BY <3>1, <3>2 DEF BreakerInv, TripHolds, NobodyLetInWhileOpen, TypeOK, tripVars
  <2> QED
    BY <2>1, <2>2
<1>5. ASSUME NEW c \in Callers, Succeeds(c) PROVE BreakerInv'
  <2>1. \/ End(c)
        \/ call' = [call EXCEPT ![c] = [call[c] EXCEPT !.pc = "check", !.stage = "chat"]]
        \/ call' = [call EXCEPT ![c] = [call[c] EXCEPT !.pc = "stream"]]
    BY <1>5 DEF Succeeds, Goto
  <2>2. UNCHANGED <<now, tripVars>>
    BY <1>5 DEF Succeeds
  <2>3. call[c] \in Caller
    BY DEF TypeOK
  <2> QED
    BY <1>2, <1>3, <2>1, <2>2, <2>3 DEF Caller
<1>6. ASSUME NEW c \in Callers, RateLimited(c) PROVE BreakerInv'
  <2>1. /\ UNCHANGED <<now, tripVars>> /\ call[c].pc = "call" /\ call[c] \in Caller
        /\ \/ End(c)
           \/ call' = [call EXCEPT ![c] = [call[c] EXCEPT !.pc = "sleep", !.try = @ + 1]]
    BY <1>6 DEF RateLimited, At, TypeOK
  <2> QED
    BY <1>2, <1>3, <2>1 DEF Caller
<1>7. ASSUME NEW c \in Callers, Wake(c) PROVE BreakerInv'
  <2>1. /\ UNCHANGED <<now, tripVars>> /\ call[c].pc = "sleep" /\ call[c] \in Caller
        /\ call' = [call EXCEPT ![c] = [call[c] EXCEPT !.pc = "call"]]
    BY <1>7 DEF Wake, Goto, At, TypeOK
  <2> QED
    BY <1>3, <2>1 DEF Caller
<1>8. ASSUME NEW c \in Callers, ServerError(c) PROVE BreakerInv'
  <2>1. /\ UNCHANGED <<now, tripVars>> /\ call[c] \in Caller
        /\ \/ call' = [call EXCEPT ![c] = [call[c] EXCEPT !.pc = "expire",
                                                       !.total = failures + 1]]
           \/ call' = [call EXCEPT ![c] = [call[c] EXCEPT !.pc = "trip"]]
           \/ End(c)
    BY <1>8 DEF ServerError, End, TypeOK
  <2> QED
    BY <1>2, <1>3, <2>1 DEF Caller
<1>9. ASSUME NEW c \in Callers, SetFailureTTL(c) PROVE BreakerInv'
  <2>1. /\ UNCHANGED <<now, tripVars>> /\ call[c] \in Caller
        /\ \/ End(c)
           \/ call' = [call EXCEPT ![c] = [call[c] EXCEPT !.pc = "trip"]]
    BY <1>9 DEF SetFailureTTL, Goto, TypeOK
  <2> QED
    BY <1>2, <1>3, <2>1 DEF Caller
<1>10. ASSUME NEW c \in Callers, Trip(c) PROVE BreakerInv'
  <2>1. /\ \A x \in Callers : x # c => call'[x] = call[x]
        /\ call'[c].pc = "idle" /\ call'[c].seen = 0
    BY <1>10 DEF Trip, End, Free, TypeOK
  <2>2. /\ now' = now /\ tripEnd' = now + OpenPeriod /\ openUntil' = now + OpenPeriod
        /\ openEnd' = now + OpenKeyTTL /\ trips' = trips + 1
    BY <1>10 DEF Trip
  <2>3. \A x \in Callers : call[x].seen \in Nat /\ call[x].seen <= trips
    BY DEF BreakerInv, TripHolds, TypeOK, Caller
  <2>4. \A x \in Callers : call'[x].seen <= trips'
                        /\ (call'[x].pc \in {"call", "sleep"} => call'[x].seen < trips')
    BY <2>1, <2>2, <2>3 DEF TypeOK
  <2>5. openUntil' = tripEnd' /\ tripEnd' <= openEnd'
    BY <2>2, PeriodsAssumption, BoundsAssumption DEF TypeOK
  <2> QED
    BY <2>4, <2>5 DEF BreakerInv, TripHolds, NobodyLetInWhileOpen
<1>11. ASSUME NEW c \in Callers, Abort(c) PROVE BreakerInv'
  BY <1>2, <1>11 DEF Abort
<1>12. CASE Tick
  <2>1. /\ now' = now + 1 /\ now \in Nat /\ UNCHANGED <<call, trips, tripEnd>>
        /\ IF openEnd <= now' THEN openUntil' = 0 /\ openEnd' = Never
                              ELSE UNCHANGED <<openUntil, openEnd>>
    BY <1>12, BoundsAssumption DEF Tick, TypeOK
  <2> QED
    BY <2>1 DEF BreakerInv, TripHolds, NobodyLetInWhileOpen, TypeOK
<1> QED
  BY <1>1, <1>4, <1>5, <1>6, <1>7, <1>8, <1>9, <1>10, <1>11, <1>12
  DEF Next, Proceed, Answered

\* The breaker's invariant holds from the start.
LEMMA BreakerInductive == Spec => []BreakerInv
<1>1. Init => BreakerInv
  BY BoundsAssumption DEF Init, Free, BreakerInv, TripHolds, NobodyLetInWhileOpen
<1>2. TypeOK /\ BreakerInv /\ [Next]_vars => BreakerInv'
  <2>1. BreakerInv /\ UNCHANGED vars => BreakerInv'
    BY DEF BreakerInv, TripHolds, NobodyLetInWhileOpen, vars, redisVars
  <2> QED
    BY <2>1, NextKeepsBreaker
<1> QED
  BY <1>1, <1>2, GuardTypeCorrect, PTL DEF Spec

\* While the breaker is to be open, whoever still talks to OpenAI had passed it
\* before it opened (utils/openai_client.py:78-82, 98-105, 159-161).
THEOREM BreakerLetsNobodyIn == Spec => []NobodyLetInWhileOpen
BY BreakerInductive, PTL DEF BreakerInv

\* Every step keeps the invariant of the failure counter.
LEMMA NextKeepsFailures ==
  ASSUME TypeOK, TripHolds, FailureInv, Next
  PROVE  FailureInv'
<1>1. ASSUME NEW c \in Callers, UNCHANGED <<now, failVars>>,
             \A x \in Callers : x # c => call'[x] = call[x],
             ~At(c, "expire"), ~At(c, "expire")'
      PROVE  FailureInv'
  <2>1. \A x \in Callers : At(x, "expire")' <=> At(x, "expire")
    BY <1>1 DEF At
  <2>2. UNCHANGED <<now, failures, failEnd, since, lost>>
    BY <1>1 DEF failVars
  <2> QED
    BY <2>1, <2>2 DEF FailureInv
<1>2. ASSUME NEW c \in Callers,
             \/ \E kind \in Kind : \E amount \in Amounts(kind) : Start(c, kind, amount)
             \/ NextBatch(c) \/ SetCounterTTL(c) \/ StreamEnds(c)
      PROVE  FailureInv'
  <2>1. /\ UNCHANGED <<now, failVars, tripVars>> /\ ~At(c, "expire")
        /\ \A x \in Callers : x # c => call'[x] = call[x]
        /\ call'[c].pc \in {"idle", "ttl", "check"}
    BY <1>2, AroundTheCall
  <2> QED
    BY <1>1, <2>1 DEF At
<1>3. ASSUME NEW c \in Callers, Check(c) \/ RateLimited(c) \/ Wake(c) \/ Trip(c)
      PROVE  FailureInv'
  <2>1. UNCHANGED <<now, failVars>> /\ ~At(c, "expire") /\ call[c] \in Caller
    BY <1>3 DEF Check, RateLimited, Wake, Trip, At, TypeOK
  <2>2. \/ End(c)
        \/ call' = [call EXCEPT ![c] = [call[c] EXCEPT !.pc = "call", !.try = 1,
                                                     !.seen = trips]]
        \/ call' = [call EXCEPT ![c] = [call[c] EXCEPT !.pc = "sleep", !.try = @ + 1]]
        \/ call' = [call EXCEPT ![c] = [call[c] EXCEPT !.pc = "call"]]
    BY <1>3 DEF Check, RateLimited, Wake, Trip, Goto
  <2>3. (\A x \in Callers : x # c => call'[x] = call[x]) /\ ~At(c, "expire")'
    <3>1. CASE End(c)
      BY <3>1 DEF End, Free, At, TypeOK
    <3>2. CASE ~End(c)
      <4>1. PICK me \in {[call[c] EXCEPT !.pc = "call", !.try = 1, !.seen = trips],
                         [call[c] EXCEPT !.pc = "sleep", !.try = @ + 1],
                         [call[c] EXCEPT !.pc = "call"]} :
              call' = [call EXCEPT ![c] = me]
        BY <2>2, <3>2
      <4>2. me.pc # "expire"
        BY <2>1 DEF Caller
      <4> QED
        BY <4>1, <4>2 DEF At, TypeOK
    <3> QED
      BY <3>1, <3>2
  <2> QED
    BY <1>1, <2>1, <2>3
<1>4. ASSUME NEW c \in Callers, Succeeds(c) PROVE FailureInv'
  <2>1. failures' = 0 /\ since' = now /\ now' = now
    BY <1>4 DEF Succeeds
  <2> QED
    BY <2>1 DEF FailureInv
<1>5. ASSUME NEW c \in Callers, ServerError(c) PROVE FailureInv'
  <2>1. /\ UNCHANGED <<now, failEnd, lost>> /\ failures' = failures + 1
        /\ since' = (IF failures' = 1 THEN now ELSE since) /\ ~At(c, "expire")
        /\ call[c] \in Caller
    BY <1>5 DEF ServerError, At, TypeOK
  <2>2. CASE failures' = 1
    <3>1. /\ \A x \in Callers : x # c => call'[x] = call[x]
          /\ At(c, "expire")'
      BY <1>5, <2>1, <2>2 DEF ServerError, SetsTTL, At, TypeOK, Caller
    <3>2. since' = now /\ now' = now
      BY <2>1, <2>2
    <3> QED
      BY <3>1, <3>2 DEF FailureInv
  <2>3. CASE failures' # 1
    <3>1. /\ \A x \in Callers : x # c => call'[x] = call[x]
          /\ ~At(c, "expire")'
      BY <1>5, <2>1, <2>3 DEF ServerError, SetsTTL, At, TypeOK, Caller, Free
    <3>2. \A x \in Callers : At(x, "expire")' <=> At(x, "expire")
      BY <2>1, <3>1 DEF At
    <3>3. failures > 0 /\ since' = since /\ UNCHANGED <<now, failEnd, lost>>
      BY <2>1, <2>3 DEF TypeOK
    <3> QED
      BY <3>2, <3>3 DEF FailureInv
  <2> QED
    BY <2>2, <2>3
<1>6. ASSUME NEW c \in Callers, SetFailureTTL(c) PROVE FailureInv'
  <2>1. /\ At(c, "expire") /\ UNCHANGED <<now, failures, since>>
        /\ failures > 0 => failEnd' = now + Window
    BY <1>6 DEF SetFailureTTL, TypeOK
  <2>2. \A x \in Callers : At(x, "expire")' => At(x, "expire")
    BY <1>6 DEF SetFailureTTL, Goto, End, Free, At, TypeOK, Caller
  <2> QED
    BY <2>1, <2>2, PeriodsAssumption, BoundsAssumption DEF FailureInv, TypeOK
<1>7. ASSUME NEW c \in Callers, Abort(c) PROVE FailureInv'
  <2>1. /\ UNCHANGED <<now, failures, failEnd, since>>
        /\ lost' = (lost \/ (At(c, "expire") /\ failures > 0))
    BY <1>7 DEF Abort
  <2>2. /\ \A x \in Callers : x # c => call'[x] = call[x]
        /\ \A x \in Callers : At(x, "expire")' => At(x, "expire")
    BY <1>7 DEF Abort, End, Free, At, TypeOK
  <2>3. \A x \in Callers : x # c => (At(x, "expire")' <=> At(x, "expire"))
    BY <2>2 DEF At
  <2>4. failures > 0 => \/ now < failEnd /\ failEnd <= since + Window
                       \/ lost'
                       \/ \E x \in Callers : At(x, "expire")'
    BY <2>1, <2>3 DEF FailureInv
  <2> QED
    BY <2>1, <2>2, <2>4 DEF FailureInv
<1>8. CASE Tick
  <2>1. \A x \in Callers : ~At(x, "expire") /\ ~At(x, "expire")'
    BY <1>8 DEF Tick, At
  <2>2. CASE failEnd <= now'
    BY <1>8, <2>1, <2>2 DEF Tick, FailureInv
  <2>3. CASE ~(failEnd <= now')
    BY <1>8, <2>1, <2>3, BoundsAssumption DEF Tick, FailureInv, failVars, TypeOK
  <2> QED
    BY <2>2, <2>3
<1> QED
  BY <1>2, <1>3, <1>4, <1>5, <1>6, <1>7, <1>8 DEF Next, Proceed, Answered

\* The failures that count together occurred within one Window from the first
\* (utils/openai_client.py:84-95, utils/redis_client.py:54-61).
THEOREM FailuresCountInOneWindow == Spec => []FailureWindowEnds
<1>1. Init => FailureInv
  BY DEF Init, Free, FailureInv, At
<1>2. TypeOK /\ BreakerInv /\ FailureInv /\ [Next]_vars => FailureInv'
  <2>1. FailureInv /\ UNCHANGED vars => FailureInv'
    BY DEF FailureInv, At, vars, redisVars
  <2> QED
    BY <2>1, NextKeepsFailures DEF BreakerInv
<1>3. TypeOK /\ FailureInv => FailureWindowEnds
  BY PeriodsAssumption, BoundsAssumption DEF TypeOK, FailureInv, FailureWindowEnds
<1> QED
  BY <1>1, <1>2, <1>3, GuardTypeCorrect, BreakerInductive, PTL DEF Spec
--------------------------------------------------------------------------------
(* How far a call is from its end.                                         *)

\* A caller that is about to set a TTL has charged, one that is at OpenAI has not
\* begun to bill.
StageInv(me) ==
    /\ me.pc = "ttl" => me.stage \in {"charge", "bill"}
    /\ me.pc \notin {"idle", "ttl"} => me.stage \in {"embed", "chat"}

\* What one step makes of a caller.
Follows(me, next) ==
    \/ next.pc = "idle"
    \/ me.pc = "idle" /\ StageInv(next)
    \/ /\ me.pc = "ttl" /\ me.stage # "bill"
       /\ next.pc = "check" /\ next.stage = "embed"
    \/ /\ me.pc = "call" /\ me.stage = "embed"
       /\ next.pc = "check" /\ next.stage = "chat"
    \/ /\ me.pc = "stream"
       /\ next.pc = "ttl" /\ next.stage = "bill"
    \/ /\ next.stage = me.stage
       /\ \/ me.pc = "check" /\ next.pc = "call" /\ next.try = 1
          \/ me.pc = "call" /\ next.pc = "sleep" /\ next.try = me.try + 1
          \/ me.pc = "sleep" /\ next.pc = "call" /\ next.try = me.try
          \/ me.pc = "call" /\ next.pc \in {"expire", "trip", "stream"}
          \/ me.pc = "expire" /\ next.pc = "trip"

\* The steps a guarded call takes at most: the look at the breaker, the attempts and
\* the sleeps between them, and what follows an error.
StepsOfCall == 2 * Attempts + 5

StepsOfStage(stage) ==
    CASE stage = "charge" -> 3 * StepsOfCall
      [] stage = "embed"  -> 2 * StepsOfCall
      [] stage = "chat"   -> StepsOfCall
      [] stage = "bill"   -> 0

StepsInStage(me) ==
    CASE me.pc = "check"  -> 2 * Attempts + 4
      [] me.pc = "sleep"  -> 2 * (Attempts - me.try) + 4
      [] me.pc = "call"   -> 2 * (Attempts - me.try) + 3
      [] me.pc = "expire" -> 2
      [] OTHER            -> 1

StepsLeft(me) == IF me.pc = "idle" THEN 0 ELSE StepsOfStage(me.stage) + StepsInStage(me)

CallsAdvance ==
    \A c \in Callers :
        /\ StepsLeft(call[c]) \in 0..(4 * StepsOfCall)
        /\ ~At(c, "idle") /\ call'[c] # call[c] => StepsLeft(call'[c]) < StepsLeft(call[c])

\* A step that follows brings the caller nearer to its end.
LEMMA FollowsAdvances ==
  ASSUME NEW me \in Caller, NEW next \in Caller, StageInv(me), Follows(me, next)
  PROVE  /\ StageInv(next)
         /\ StepsLeft(me) \in 0..(4 * StepsOfCall)
         /\ me.pc # "idle" => StepsLeft(next) < StepsLeft(me)
<1> DEFINE n == StepsOfCall
<1>1. /\ Attempts \in Nat /\ n = 2 * Attempts + 5 /\ n \in Nat
      /\ me.try \in 0..Attempts /\ next.try \in 0..Attempts
      /\ me.stage \in Stage /\ next.stage \in Stage /\ me.pc \in CallPC
  BY AttemptsAssumption DEF Caller, StepsOfCall
<1>2. StageInv(next)
  BY DEF Follows, StageInv
<1>3. ASSUME NEW x \in Caller
      PROVE  /\ StepsOfStage(x.stage) \in Nat /\ StepsOfStage(x.stage) <= 3 * n
             /\ StepsInStage(x) \in Nat /\ 1 <= StepsInStage(x) /\ StepsInStage(x) < n
  <2>1. x.stage \in Stage /\ x.try \in 0..Attempts
    BY DEF Caller
  <2>2. StepsOfStage(x.stage) \in Nat /\ StepsOfStage(x.stage) <= 3 * n
    BY <1>1, <2>1 DEF StepsOfStage, Stage
  <2>3. StepsInStage(x) \in Nat /\ 1 <= StepsInStage(x) /\ StepsInStage(x) < n
    BY <1>1, <2>1 DEF StepsInStage
  <2> QED
    BY <2>2, <2>3
<1>4. StepsLeft(me) \in 0..(4 * n)
  <2>1. /\ StepsOfStage(me.stage) \in Nat /\ StepsOfStage(me.stage) <= 3 * n
        /\ StepsInStage(me) \in Nat /\ StepsInStage(me) < n
    BY <1>3
  <2> QED
    BY <1>1, <2>1 DEF StepsLeft
<1>5. ASSUME me.pc # "idle" PROVE StepsLeft(next) < StepsLeft(me)
  <2>1. StepsLeft(me) = StepsOfStage(me.stage) + StepsInStage(me)
    BY <1>5 DEF StepsLeft
  <2>2. /\ StepsOfStage(me.stage) \in Nat /\ StepsInStage(me) \in Nat
        /\ StepsOfStage(next.stage) \in Nat /\ StepsInStage(next) \in Nat
        /\ 1 <= StepsInStage(me) /\ StepsInStage(next) < n
    BY <1>3
  <2>3. CASE next.pc = "idle"
    BY <2>1, <2>2, <2>3 DEF StepsLeft
  <2>4. CASE next.pc # "idle" /\ next.stage # me.stage
    <3>1. StepsOfStage(next.stage) + n <= StepsOfStage(me.stage)
      <4>1. \/ me.stage = "charge" /\ next.stage = "embed"
            \/ me.stage = "embed" /\ next.stage = "chat"
            \/ me.stage \in {"embed", "chat"} /\ next.stage = "bill"
        BY <1>5, <2>4 DEF Follows, StageInv
      <4> QED
        BY <1>1, <4>1 DEF StepsOfStage
    <3>2. StepsLeft(next) = StepsOfStage(next.stage) + StepsInStage(next)
      BY <2>4 DEF StepsLeft
    <3> QED
      BY <1>1, <2>1, <2>2, <3>1, <3>2
  <2>5. CASE next.pc # "idle" /\ next.stage = me.stage
    <3>1. StepsInStage(next) < StepsInStage(me)
      BY <1>1, <1>5, <2>5 DEF Follows, StageInv, StepsInStage
    <3>2. StepsLeft(next) = StepsOfStage(me.stage) + StepsInStage(next)
      BY <2>5 DEF StepsLeft
    <3> QED
      BY <2>1, <2>2, <3>1, <3>2
  <2> QED
    BY <2>3, <2>4, <2>5
<1> QED
  BY <1>2, <1>4, <1>5

\* Every step of a caller follows.
LEMMA CallersFollow ==
  ASSUME TypeOK, \A c \in Callers : StageInv(call[c]), Next, NEW c \in Callers
  PROVE  call'[c] = call[c] \/ Follows(call[c], call'[c])
<1>1. \A x \in Callers : call[x] \in Caller
  BY DEF TypeOK
<1>2. ASSUME NEW x \in Callers, End(x) PROVE call'[c] = call[c] \/ Follows(call[c], call'[c])
  BY <1>2 DEF End, Free, TypeOK, Follows
<1>3. ASSUME NEW x \in Callers, NEW me, Judge(x, me), me \in Caller,
             call[x].pc = "idle" \/ (call[x].pc = "ttl" /\ call[x].stage = me.stage)
                                 \/ me.stage = "bill"
      PROVE  call'[c] = call[c] \/ Follows(call[c], call'[c])
  <2>1. CASE End(x)
    BY <1>2, <2>1
  <2>2. CASE ~End(x)
    <3>1. /\ me.stage # "bill"
          /\ call' = [call EXCEPT ![x] = [me EXCEPT !.pc = "check", !.stage = "embed"]]
      BY <1>3, <2>2 DEF Judge
    <3>2. [me EXCEPT !.pc = "check", !.stage = "embed"].pc = "check"
          /\ [me EXCEPT !.pc = "check", !.stage = "embed"].stage = "embed"
      BY <1>3 DEF Caller
    <3> QED
      BY <1>3, <3>1, <3>2 DEF Follows, StageInv, TypeOK
  <2> QED
    BY <2>1, <2>2
<1>4. ASSUME NEW x \in Callers, NEW k \in Counter, NEW kind \in Kind, NEW stage \in Stage,
             NEW amount \in Nat, Charge(x, k, kind, stage, amount),
             \/ call[x].pc = "idle" /\ stage = "charge"
             \/ call[x].pc = "stream" /\ stage = "bill"
      PROVE  call'[c] = call[c] \/ Follows(call[c], call'[c])
  <2> DEFINE me == [Free EXCEPT !.kind = kind, !.stage = stage, !.amount = amount,
                                !.total = used[k][today] + amount]
  <2>1. used[k][today] + amount \in Nat /\ "ttl" \in CallPC
    BY <1>4, TodayIsADay DEF TypeOK, today, CallPC
  <2>2. me \in Caller /\ me.stage = stage
    BY <2>1, FreeUpdates DEF Free
  <2>3. \/ call' = [call EXCEPT ![x] = [me EXCEPT !.pc = "ttl"]]
        \/ Judge(x, me)
    BY <1>4 DEF Charge
  <2> HIDE DEF me
  <2>4. [me EXCEPT !.pc = "ttl"].pc = "ttl" /\ [me EXCEPT !.pc = "ttl"].stage = stage
    BY <2>2 DEF Caller
  <2>5. CASE call' = [call EXCEPT ![x] = [me EXCEPT !.pc = "ttl"]]
    BY <1>4, <2>4, <2>5 DEF TypeOK, Follows, StageInv
  <2>6. CASE Judge(x, me)
    BY <1>3, <1>4, <2>2, <2>6
  <2> QED
    BY <2>3, <2>5, <2>6
<1>5. ASSUME NEW x \in Callers, NEW kind \in Kind, NEW amount \in Amounts(kind),
             Start(x, kind, amount)
      PROVE  call'[c] = call[c] \/ Follows(call[c], call'[c])
  <2>1. amount \in Nat /\ CounterOf(kind) \in Counter /\ "charge" \in Stage
    BY BoundsAssumption DEF Amounts, CounterOf, Counter, Stage
  <2> QED
    BY <1>4, <1>5, <2>1 DEF Start, At
<1>6. ASSUME NEW x \in Callers, NextBatch(x)
      PROVE  call'[c] = call[c] \/ Follows(call[c], call'[c])
  BY <1>1, <1>6 DEF NextBatch, At, Free, TypeOK, Follows, StageInv
<1>7. ASSUME NEW x \in Callers, SetCounterTTL(x)
      PROVE  call'[c] = call[c] \/ Follows(call[c], call'[c])
  BY <1>1, <1>3, <1>7 DEF SetCounterTTL, At
<1>8. ASSUME NEW x \in Callers, StreamEnds(x)
      PROVE  call'[c] = call[c] \/ Follows(call[c], call'[c])
  <2>1. ASSUME NEW amount \in 1..MaxTokens, Charge(x, "tokens", "ask", "bill", amount)
        PROVE  call'[c] = call[c] \/ Follows(call[c], call'[c])
    BY <1>4, <1>8, <2>1, BoundsAssumption DEF StreamEnds, At, Counter, Kind, Stage
  <2> QED
    BY <1>2, <1>8, <2>1 DEF StreamEnds
<1>9. ASSUME NEW x \in Callers, Check(x) \/ RateLimited(x) \/ Wake(x) \/ Trip(x) \/ Abort(x)
      PROVE  call'[c] = call[c] \/ Follows(call[c], call'[c])
  BY <1>1, <1>2, <1>9 DEF Check, RateLimited, Wake, Trip, Abort, Goto, At, Follows, TypeOK, Caller
<1>10. ASSUME NEW x \in Callers, Succeeds(x)
       PROVE  call'[c] = call[c] \/ Follows(call[c], call'[c])
  BY <1>1, <1>2, <1>10 DEF Succeeds, Goto, At, Follows, TypeOK, Caller
<1>11. ASSUME NEW x \in Callers, ServerError(x) \/ SetFailureTTL(x)
       PROVE  call'[c] = call[c] \/ Follows(call[c], call'[c])
  <2>1. CASE End(x)
    BY <1>2, <2>1
  <2>2. ASSUME NEW me, call' = [call EXCEPT ![x] = me], me.stage = call[x].stage,
               \/ call[x].pc = "call" /\ me.pc \in {"expire", "trip"}
               \/ call[x].pc = "expire" /\ me.pc = "trip"
        PROVE  call'[c] = call[c] \/ Follows(call[c], call'[c])
    BY <2>2 DEF Follows, TypeOK
  <2>3. CASE ServerError(x)
    <3>1. /\ call[x].pc = "call"
          /\ \/ call' = [call EXCEPT ![x] = [call[x] EXCEPT !.pc = "expire",
                                                         !.total = failures + 1]]
             \/ call' = [call EXCEPT ![x] = [call[x] EXCEPT !.pc = "trip"]]
             \/ End(x)
      BY <2>3 DEF ServerError, End, At, TypeOK
    <3> QED
      BY <1>1, <2>1, <2>2, <3>1 DEF Caller
  <2>4. CASE SetFailureTTL(x)
    <3>1. /\ call[x].pc = "expire"
          /\ \/ End(x)
             \/ call' = [call EXCEPT ![x] = [call[x] EXCEPT !.pc = "trip"]]
      BY <2>4 DEF SetFailureTTL, Goto, At, TypeOK
    <3> QED
      BY <1>1, <2>1, <2>2, <3>1 DEF Caller
  <2> QED
    BY <1>11, <2>3, <2>4
<1>12. CASE Tick
  BY <1>12 DEF Tick
<1> QED
  BY <1>5, <1>6, <1>7, <1>8, <1>9, <1>10, <1>11, <1>12 DEF Next, Proceed, Answered

\* Whatever OpenAI answers and whatever fails, each step of a call brings it nearer to
\* its end: no retry, no charge and no state of the breaker takes it back, so that one
\* ask or ingest batch takes at most four times the 2 * Attempts + 5 steps of a guarded
\* call (utils/openai_client.py:156-204).
THEOREM CallsOnlyAdvance == Spec => [][CallsAdvance]_vars
<1> DEFINE Staged == \A c \in Callers : StageInv(call[c])
<1>1. Init => Staged
  <2> SUFFICES ASSUME Init, NEW c \in Callers PROVE StageInv(call[c])
    OBVIOUS
  <2>1. call[c] = Free
    BY DEF Init
  <2> QED
    BY <2>1 DEF Free, StageInv
<1>2. TypeOK /\ Staged /\ TypeOK' /\ [Next]_vars => Staged' /\ [CallsAdvance]_vars
  <2> SUFFICES ASSUME TypeOK, Staged, TypeOK', [Next]_vars
               PROVE  Staged' /\ [CallsAdvance]_vars
    OBVIOUS
  <2>1. CASE UNCHANGED vars
    BY <2>1 DEF vars
  <2>2. CASE Next
    <3>1. ASSUME NEW c \in Callers
          PROVE  /\ StageInv(call'[c]) /\ StepsLeft(call[c]) \in 0..(4 * StepsOfCall)
                 /\ ~At(c, "idle") /\ call'[c] # call[c] =>
                       StepsLeft(call'[c]) < StepsLeft(call[c])
      <4>1. call[c] \in Caller /\ call'[c] \in Caller /\ StageInv(call[c])
        BY DEF TypeOK
      <4>2. call'[c] = call[c] \/ Follows(call[c], call'[c])
        BY <2>2, CallersFollow
      <4>3. CASE Follows(call[c], call'[c])
        BY <4>1, <4>3, FollowsAdvances DEF At
      <4>4. CASE call'[c] = call[c]
        <5>1. Follows(call[c], Free) /\ Free \in Caller
          BY FreeUpdates DEF Follows, Free, CallPC, Kind, Stage
        <5> QED
          BY <4>1, <4>4, <5>1, FollowsAdvances
      <4> QED
        BY <4>2, <4>3, <4>4
    <3> QED
      BY <3>1 DEF CallsAdvance
  <2> QED
    BY <2>1, <2>2
<1> QED
  BY <1>1, <1>2, GuardTypeCorrect, PTL DEF Spec
================================================================================

--------------------------- MODULE PromptContextProofs ---------------------------
(***************************************************************************)
(* Proofs about PromptContext for any chunking, any budgets and any        *)
(* ranking of the chunks.                                                  *)
(***************************************************************************)
EXTENDS PromptContext, ChunkingProofs, WellFoundedInduction, SequenceTheorems

--------------------------------------------------------------------------------
(* Induction.                                                              *)

\* A set of numbers that is not empty has a least element.
LEMMA LeastNumber ==
  ASSUME NEW T \in SUBSET Nat, T # {}
  PROVE  \E m \in T : \A k \in T : m <= k
<1> DEFINE Less == {ss \in Nat \X Nat : ss[1] < ss[2]}
<1>1. IsWellFoundedOn(Less, Nat)
  BY NatLessThanWellFounded DEF OpToRel
<1>2. \E m \in T : \A k \in T : ~ <<k, m>> \in Less
  <2> HIDE DEF Less
  <2> QED
    BY <1>1, WFMin
<1>3. PICK m \in T : \A k \in T : ~ <<k, m>> \in Less
  BY <1>2
<1>4. ASSUME NEW k \in T PROVE m <= k
  <2>1. ~ (k < m) /\ k \in Nat /\ m \in Nat
    BY <1>3
  <2> QED
    BY <2>1
<1> QED
  BY <1>4

\* A set of numbers up to n that has 0, and with a number the next one, has all of them.
LEMMA LoopInduction ==
  ASSUME NEW n \in Nat, NEW T, 0 \in T, \A k \in 0..n : k < n /\ k \in T => k + 1 \in T
  PROVE  \A k \in 0..n : k \in T
<1> SUFFICES ASSUME (0..n) \ T # {} PROVE FALSE
  OBVIOUS
<1> DEFINE Rest == (0..n) \ T
<1>1. PICK m \in Rest : \A k \in Rest : m <= k
  <2>1. Rest \in SUBSET Nat
    OBVIOUS
  <2> HIDE DEF Rest
  <2> QED
    BY <2>1, LeastNumber DEF Rest
<1>2. m # 0 /\ m - 1 \in 0..n
  BY <1>1
<1>3. m - 1 \in T
  BY <1>1, <1>2
<1> QED
  BY <1>1, <1>2, <1>3

\* f[i] is the state in S of a loop after i of its n turns.
IsRun(f, S, start, n, turn) ==
    /\ f \in [0..n -> S]
    /\ f[0] = start
    /\ \A i \in 1..n : f[i] = turn[i][f[i - 1]]

\* A loop has a run.
LEMMA LoopRuns ==
  ASSUME NEW S, NEW start \in S, NEW n \in Nat, NEW turn \in [1..n -> [S -> S]]
  PROVE  \E f : IsRun(f, S, start, n, turn)
<1> DEFINE Runs(k, f) == f[0] = start /\ \A i \in 1..k : f[i] = turn[i][f[i - 1]]
           T == {k \in 0..n : \E f \in [0..k -> S] : Runs(k, f)}
<1>1. 0 \in T
  <2>1. [i \in 0..0 |-> start] \in [0..0 -> S] /\ Runs(0, [i \in 0..0 |-> start])
    OBVIOUS
  <2>2. \E f \in [0..0 -> S] : Runs(0, f)
    <3> HIDE DEF Runs
    <3> QED
      BY <2>1
  <2> QED
    BY <2>2
<1>2. ASSUME NEW k \in 0..n, k < n, k \in T PROVE k + 1 \in T
  <2>1. PICK f \in [0..k -> S] : Runs(k, f)
    BY <1>2
  <2> DEFINE g == [i \in 0..(k + 1) |-> IF i = k + 1 THEN turn[k + 1][f[k]] ELSE f[i]]
  <2>2. k + 1 \in 1..n /\ f[k] \in S
    BY <1>2
  <2>3. turn[k + 1][f[k]] \in S
    BY <2>2
  <2>4. g \in [0..(k + 1) -> S]
    BY <2>3
  <2>5. ASSUME NEW i \in 1..(k + 1) PROVE g[i] = turn[i][g[i - 1]]
    <3>1. i - 1 \in 0..k /\ g[i - 1] = f[i - 1]
      BY <1>2
    <3>2. CASE i = k + 1
      BY <3>1, <3>2
    <3>3. CASE i \in 1..k
      <4>1. g[i] = f[i] /\ f[i] = turn[i][f[i - 1]]
        BY <2>1, <3>3
      <4> HIDE DEF g
      <4> QED
        BY <3>1, <4>1
    <3> QED
      BY <3>2, <3>3
  <2>6. g[0] = start
    BY <2>1
  <2> HIDE DEF g
  <2>7. \E h \in [0..(k + 1) -> S] : Runs(k + 1, h)
    BY <2>4, <2>5, <2>6
  <2> QED
    BY <2>2, <2>7
<1>3. \A k \in 0..n : k \in T
  <2>1. \A k \in 0..n : k < n /\ k \in T => k + 1 \in T
    BY <1>2
  <2> HIDE DEF T
  <2> QED
    BY <1>1, <2>1, LoopInduction
<1> QED
  BY <1>3 DEF T, IsRun
--------------------------------------------------------------------------------
(* Sums.                                                                   *)

\* sum[i] is the sum of the first i of the counts.
Sums(sum, counts) ==
    /\ sum \in [0..Len(counts) -> Nat]
    /\ sum[0] = 0
    /\ \A i \in 1..Len(counts) : sum[i] = sum[i - 1] + counts[i]

\* Partial sums exist.
LEMMA SumsExist ==
  ASSUME NEW counts \in Seq(Nat)
  PROVE  \E sum : Sums(sum, counts)
<1> DEFINE n == Len(counts)
           turn == [i \in 1..n |-> [s \in Nat |-> s + counts[i]]]
<1>1. n \in Nat /\ \A i \in 1..n : counts[i] \in Nat
  OBVIOUS
<1>2. turn \in [1..n -> [Nat -> Nat]]
  BY <1>1
<1>3. \A s \in Nat, i \in 1..n : turn[i][s] = s + counts[i]
  BY <1>1
<1>4. PICK f : IsRun(f, Nat, 0, n, turn)
  <2> HIDE DEF n, turn
  <2> QED
    BY <1>1, <1>2, LoopRuns
<1>5. ASSUME NEW i \in 1..n PROVE f[i] = f[i - 1] + counts[i]
  <2> HIDE DEF n, turn
  <2>1. f[i - 1] \in Nat
    BY <1>1, <1>4 DEF IsRun
  <2>2. f[i] = turn[i][f[i - 1]]
    BY <1>4 DEF IsRun
  <2> QED
    BY <1>3, <2>1, <2>2
<1> QED
  BY <1>4, <1>5 DEF Sums, IsRun

\* Total is the last of them.
LEMMA TotalIsSum ==
  ASSUME NEW counts \in Seq(Nat), NEW sum, Sums(sum, counts)
  PROVE  Total(counts) = sum[Len(counts)]
<1> DEFINE n == Len(counts)
           Run(f) == f = [i \in 0..n |-> IF i = 0 THEN 0 ELSE f[i - 1] + counts[i]]
<1>1. Run(sum)
  BY DEF Sums
<1>2. PICK f : Run(f) /\ Total(counts) = f[n]
  <2> DEFINE f == CHOOSE f : Run(f)
  <2>1. Run(f)
    <3> HIDE DEF Run
    <3> QED
      BY <1>1
  <2>2. Total(counts) = f[n]
    BY DEF Total
  <2> QED
    BY <2>1, <2>2
<1>3. \A k \in 0..n : k \in {i \in 0..n : f[i] = sum[i]}
  <2> DEFINE T == {i \in 0..n : f[i] = sum[i]}
  <2>1. 0 \in T
    BY <1>1, <1>2
  <2>2. \A k \in 0..n : k < n /\ k \in T => k + 1 \in T
    BY <1>1, <1>2
  <2>3. n \in Nat
    OBVIOUS
  <2> HIDE DEF T
  <2> QED
    BY <2>1, <2>2, <2>3, LoopInduction DEF T
<1> QED
  BY <1>2, <1>3

\* Partial sums grow.
LEMMA SumsGrow ==
  ASSUME NEW counts \in Seq(Nat), NEW sum, Sums(sum, counts),
         NEW i \in 0..Len(counts), NEW j \in 0..Len(counts), i <= j
  PROVE  sum[i] <= sum[j]
<1> DEFINE n == Len(counts)
           T == {k \in 0..n : i <= k => sum[i] <= sum[k]}
<1>1. n \in Nat /\ \A k \in 1..n : counts[k] \in Nat
  OBVIOUS
<1>2. \A k \in 0..n : sum[k] \in Nat
  BY DEF Sums
<1>3. 0 \in T
  BY <1>1, <1>2
<1>4. \A k \in 0..n : k < n /\ k \in T => k + 1 \in T
  <2> SUFFICES ASSUME NEW k \in 0..n, k < n, k \in T, i <= k + 1
               PROVE  sum[i] <= sum[k + 1]
    BY <1>1
  <2>1. k + 1 \in 1..n /\ (k + 1) - 1 = k
    BY <1>1
  <2>2. sum[k + 1] = sum[k] + counts[k + 1]
    <3>1. \A m \in 1..n : sum[m] = sum[m - 1] + counts[m]
      BY DEF Sums
    <3> HIDE DEF n, T
    <3> QED
      BY <2>1, <3>1
  <2>3. counts[k + 1] \in Nat
    BY <1>1, <2>1
  <2>4. sum[i] \in Nat /\ sum[k] \in Nat
    BY <1>2
  <2>5. CASE i = k + 1
    <3>1. \A a \in Nat : a <= a
      OBVIOUS
    <3> QED
      BY <2>4, <2>5, <3>1, Zenon
  <2>6. CASE i <= k
    <3>1. sum[i] <= sum[k]
      BY <2>6
    <3>2. \A a, b, c \in Nat : a <= b => a <= b + c
      OBVIOUS
    <3> QED
      BY <2>2, <2>3, <2>4, <3>1, <3>2, Zenon
  <2> QED
    BY <1>1, <2>5, <2>6
<1>5. j \in T
  <2> HIDE DEF T
  <2> QED
    BY <1>1, <1>3, <1>4, LoopInduction
<1> QED
  BY <1>5

\* Counts that are no smaller have sums that are no smaller.
LEMMA SumsCompare ==
  ASSUME NEW v \in Seq(Nat), NEW w \in Seq(Nat), Len(v) = Len(w),
         NEW s, Sums(s, v), NEW t, Sums(t, w),
         NEW k \in 0..Len(v), \A i \in 1..k : v[i] <= w[i]
  PROVE  s[k] <= t[k]
<1> DEFINE T == {i \in 0..k : s[i] <= t[i]}
<1>1. k \in Nat /\ k \in 0..k /\ \A i \in 1..k : v[i] \in Nat /\ w[i] \in Nat
  OBVIOUS
<1>2. \A i \in 0..k : s[i] \in Nat /\ t[i] \in Nat
  <2>1. \A i \in 0..k : i \in 0..Len(v)
    OBVIOUS
  <2>2. s \in [0..Len(v) -> Nat] /\ t \in [0..Len(v) -> Nat]
    BY DEF Sums
  <2> QED
    BY <2>1, <2>2
<1>3. 0 \in T
  BY <1>1 DEF Sums
<1>4. \A i \in 0..k : i < k /\ i \in T => i + 1 \in T
  <2> SUFFICES ASSUME NEW i \in 0..k, i < k, i \in T
               PROVE  s[i + 1] <= t[i + 1]
    BY <1>1
  <2>1. /\ i + 1 \in 1..k /\ i + 1 \in 1..Len(v) /\ (i + 1) - 1 = i
        /\ v[i + 1] \in Nat /\ w[i + 1] \in Nat /\ v[i + 1] <= w[i + 1]
    BY <1>1
  <2>2. s[i + 1] = s[i] + v[i + 1]
    <3>1. \A m \in 1..Len(v) : s[m] = s[m - 1] + v[m]
      BY DEF Sums
    <3> QED
      BY <2>1, <3>1
  <2>3. t[i + 1] = t[i] + w[i + 1]
    <3>1. \A m \in 1..Len(v) : t[m] = t[m - 1] + w[m]
      BY DEF Sums
    <3> QED
      BY <2>1, <3>1
  <2>4. s[i] \in Nat /\ t[i] \in Nat /\ s[i] <= t[i]
    BY <1>2
  <2>5. \A a, b, c, d \in Nat : a <= b /\ c <= d => a + c <= b + d
    OBVIOUS
  <2>6. s[i] + v[i + 1] <= t[i] + w[i + 1]
    BY <2>1, <2>4, <2>5, Zenon
  <2> QED
    BY <2>2, <2>3, <2>6, Zenon
<1>5. k \in T
  <2> HIDE DEF T
  <2> QED
    BY <1>1, <1>3, <1>4, LoopInduction
<1> QED
  BY <1>5
--------------------------------------------------------------------------------
(* The context.                                                            *)

\* block[i] is what build_context_block holds after i of its turns.
ContextRun(block, rows) ==
    /\ DOMAIN block = 0..Len(rows)
    /\ block[0] = [included |-> <<>>, used |-> 0]
    /\ \A i \in 1..Len(rows) : block[i] = Include(block[i - 1], rows[i])

\* What a turn of the loop makes of rows of R with their token counts.
LEMMA IncludeType ==
  ASSUME NEW R, \A r \in R : r.tokens \in Nat, NEW row \in R,
         NEW b \in [included : Seq(R), used : Nat]
  PROVE  Include(b, row) \in [included : Seq(R), used : Nat]
<1>1. Append(b.included, row) \in Seq(R) /\ b.used + row.tokens \in Nat
  OBVIOUS
<1> QED
  BY <1>1 DEF Include

\* build_context_block returns what its last turn leaves.
LEMMA ContextRuns ==
  ASSUME NEW R, \A r \in R : r.tokens \in Nat, NEW rows \in Seq(R)
  PROVE  \E block \in [0..Len(rows) -> [included : Seq(R), used : Nat]] :
           /\ ContextRun(block, rows)
           /\ ContextBlock(rows) = block[Len(rows)].included
<1> DEFINE n == Len(rows)
           State == [included : Seq(R), used : Nat]
           start == [included |-> <<>>, used |-> 0]
           turn == [i \in 1..n |-> [b \in State |-> Include(b, rows[i])]]
           Run(f) == f = [i \in 0..n |-> IF i = 0 THEN start ELSE Include(f[i - 1], rows[i])]
<1>1. n \in Nat /\ \A i \in 1..n : rows[i] \in R
  OBVIOUS
<1>2. start \in State
  OBVIOUS
<1>3. \A i \in 1..n, b \in State : Include(b, rows[i]) \in State
  BY <1>1, IncludeType
<1>4. \E f : Run(f)
  <2>1. turn \in [1..n -> [State -> State]]
    BY <1>3
  <2>2. \A i \in 1..n, b \in State : turn[i][b] = Include(b, rows[i])
    OBVIOUS
  <2>3. PICK f : IsRun(f, State, start, n, turn)
    <3> HIDE DEF n, State, start, turn
    <3> QED
      BY <1>1, <1>2, <2>1, LoopRuns
  <2>4. Run(f)
    <3> HIDE DEF n, State, start, turn
    <3>1. \A i \in 1..n : f[i - 1] \in State
      BY <1>1, <2>3 DEF IsRun
    <3>2. \A i \in 0..n : f[i] = IF i = 0 THEN start ELSE Include(f[i - 1], rows[i])
      BY <1>1, <2>2, <2>3, <3>1 DEF IsRun
    <3> QED
      BY <2>3, <3>2 DEF IsRun
  <2> HIDE DEF Run
  <2> QED
    BY <2>4
<1>5. PICK f : Run(f) /\ ContextBlock(rows) = f[n].included
  <2> DEFINE f == CHOOSE f : Run(f)
  <2>1. Run(f)
    <3> HIDE DEF Run
    <3> QED
      BY <1>4
  <2>2. ContextBlock(rows) = f[n].included
    BY DEF ContextBlock
  <2> QED
    BY <2>1, <2>2
<1>6. \A i \in 0..n : f[i] = IF i = 0 THEN start ELSE Include(f[i - 1], rows[i])
  BY <1>5
<1>7. \A k \in 0..n : k \in {i \in 0..n : f[i] \in State}
  <2> DEFINE T == {i \in 0..n : f[i] \in State}
  <2>1. 0 \in T
    <3> HIDE DEF State, start, n
    <3> QED
      BY <1>1, <1>2, <1>6
  <2>2. \A k \in 0..n : k < n /\ k \in T => k + 1 \in T
    <3> HIDE DEF State, start, n
    <3> SUFFICES ASSUME NEW k \in 0..n, k < n, f[k] \in State
                 PROVE  k + 1 \in 0..n /\ f[k + 1] \in State
      OBVIOUS
    <3>1. k + 1 \in 1..n /\ k + 1 # 0 /\ (k + 1) - 1 = k
      BY <1>1
    <3> QED
      BY <1>3, <1>6, <3>1
  <2> HIDE DEF T
  <2> QED
    BY <1>1, <2>1, <2>2, LoopInduction DEF T
<1>8. f \in [0..n -> State]
  <2> HIDE DEF State, start, n
  <2> QED
    BY <1>5, <1>7
<1>9. ContextRun(f, rows)
  BY <1>1, <1>5, <1>6, <1>8 DEF ContextRun
<1> QED
  BY <1>5, <1>8, <1>9

\* The turns that include their chunk.
Fitting(block, rows) ==
    {i \in 1..Len(rows) : block[i - 1].used + rows[i].tokens <= ContextBudget}

\* The counts of which Tokens(rows, S) is the total.
Weights(rows, S) == [i \in 1..Len(rows) |-> IF i \in S THEN rows[i].tokens ELSE 0]

\* After each turn, used is the sum of the tokens of the chunks included so far, and
\* within the budget.
LEMMA ContextUsed ==
  ASSUME NEW R, \A r \in R : r.tokens \in Nat, NEW rows \in Seq(R),
         NEW block \in [0..Len(rows) -> [included : Seq(R), used : Nat]],
         ContextRun(block, rows),
         NEW sum, Sums(sum, Weights(rows, Fitting(block, rows)))
  PROVE  \A i \in 0..Len(rows) : block[i].used = sum[i] /\ sum[i] <= ContextBudget
<1> DEFINE n == Len(rows)
           weights == Weights(rows, Fitting(block, rows))
           T == {i \in 0..n : block[i].used = sum[i] /\ sum[i] <= ContextBudget}
<1>1. n \in Nat /\ \A i \in 1..n : rows[i].tokens \in Nat
  OBVIOUS
<1>2. /\ Len(weights) = n
      /\ \A i \in 1..n : weights[i] = IF i \in Fitting(block, rows) THEN rows[i].tokens ELSE 0
  BY DEF Weights
<1>3. \A i \in 0..n : block[i].used \in Nat
  OBVIOUS
<1>4. sum[0] = 0 /\ \A i \in 1..n : sum[i] = sum[i - 1] + weights[i]
  <2> HIDE DEF weights, n
  <2> QED
    BY <1>2 DEF Sums, weights
<1>5. 0 \in T
  BY <1>4, LimitsAssumption DEF ContextRun
<1>6. \A k \in 0..n : k < n /\ k \in T => k + 1 \in T
  <2> SUFFICES ASSUME NEW k \in 0..n, k < n, k \in T PROVE k + 1 \in T
    OBVIOUS
  <2>1. k + 1 \in 1..n /\ k + 1 \in 0..n /\ (k + 1) - 1 = k
    BY <1>1
  <2>2. block[k + 1] = Include(block[k], rows[k + 1])
    BY <2>1 DEF ContextRun
  <2>3. sum[k + 1] = sum[k] + weights[k + 1]
    <3> HIDE DEF weights, n
    <3> QED
      BY <1>4, <2>1
  <2>4. CASE k + 1 \in Fitting(block, rows)
    <3>1. block[k].used + rows[k + 1].tokens <= ContextBudget
      BY <2>1, <2>4 DEF Fitting
    <3>2. weights[k + 1] = rows[k + 1].tokens
      <4> HIDE DEF weights, n
      <4> QED
        BY <1>2, <2>1, <2>4
    <3>3. block[k + 1].used = block[k].used + rows[k + 1].tokens
      <4>1. ~ (block[k].used + rows[k + 1].tokens > ContextBudget)
        BY <1>1, <1>3, <2>1, <3>1, LimitsAssumption
      <4> QED
        BY <2>2, <4>1 DEF Include
    <3> HIDE DEF weights, n
    <3> QED
      BY <2>1, <2>3, <3>1, <3>2, <3>3
  <2>5. CASE k + 1 \notin Fitting(block, rows)
    <3>1. ~ (block[k].used + rows[k + 1].tokens <= ContextBudget)
      BY <2>1, <2>5 DEF Fitting
    <3>2. weights[k + 1] = 0
      <4> HIDE DEF weights, n
      <4> QED
        BY <1>2, <2>1, <2>5
    <3>3. block[k + 1].used = block[k].used
      <4>1. block[k].used + rows[k + 1].tokens > ContextBudget
        BY <1>1, <1>3, <2>1, <3>1, LimitsAssumption
      <4> QED
        BY <2>2, <4>1 DEF Include
    <3>4. sum[k] \in Nat
      BY <1>3
    <3> HIDE DEF weights, n
    <3> QED
      BY <2>1, <2>3, <3>2, <3>3, <3>4
  <2> QED
    BY <2>4, <2>5
<1>7. \A k \in 0..n : k \in T
  <2> HIDE DEF T, n
  <2> QED
    BY <1>1, <1>5, <1>6, LoopInduction
<1> QED
  BY <1>7

\* After each turn, the chunks included are those of the turns that included theirs.
LEMMA ContextIncluded ==
  ASSUME NEW R, \A r \in R : r.tokens \in Nat, NEW rows \in Seq(R),
         NEW block \in [0..Len(rows) -> [included : Seq(R), used : Nat]],
         ContextRun(block, rows),
         NEW x
  PROVE  Contains(block[Len(rows)].included, x)
           <=> \E i \in Fitting(block, rows) : rows[i] = x
<1> DEFINE n == Len(rows)
           Has(i) == Contains(block[i].included, x)
           Given(i) == \E k \in Fitting(block, rows) : k <= i /\ rows[k] = x
           T == {i \in 0..n : Has(i) <=> Given(i)}
<1>1. n \in Nat /\ \A i \in 1..n : rows[i] \in R /\ rows[i].tokens \in Nat
  OBVIOUS
<1>2. \A i \in 0..n : block[i].used \in Nat /\ block[i].included \in Seq(R)
  OBVIOUS
<1>3. 0 \in T
  <2>1. ~ Has(0)
    BY DEF ContextRun, Contains
  <2>2. ~ Given(0)
    BY DEF Fitting
  <2> QED
    BY <1>1, <2>1, <2>2
<1>4. \A k \in 0..n : k < n /\ k \in T => k + 1 \in T
  <2> SUFFICES ASSUME NEW k \in 0..n, k < n, Has(k) <=> Given(k)
               PROVE  Has(k + 1) <=> Given(k + 1)
    <3>1. \A k \in 0..n : k < n => k + 1 \in 0..n
      BY <1>1
    <3> HIDE DEF Has, Given
    <3> QED
      BY <3>1
  <2>1. k + 1 \in 1..n /\ k + 1 \in 0..n /\ (k + 1) - 1 = k
    BY <1>1
  <2>2. block[k + 1] = Include(block[k], rows[k + 1])
    BY <2>1 DEF ContextRun
  <2>3. CASE k + 1 \in Fitting(block, rows)
    <3>1. ~ (block[k].used + rows[k + 1].tokens > ContextBudget)
      BY <1>1, <1>2, <2>1, <2>3, LimitsAssumption DEF Fitting
    <3>2. block[k + 1].included = Append(block[k].included, rows[k + 1])
      BY <2>2, <3>1 DEF Include
    <3>3. Has(k + 1) <=> Has(k) \/ rows[k + 1] = x
      <4> DEFINE s == block[k].included
                 e == rows[k + 1]
                 t == block[k + 1].included
      <4>1. /\ s \in Seq(R) /\ e \in R /\ t = Append(s, e)
        BY <1>1, <1>2, <2>1, <3>2
      <4> HIDE DEF s, e, t
      <4>2. /\ Len(t) = Len(s) + 1 /\ Len(s) \in Nat
            /\ \A i \in 1..Len(s) : t[i] = s[i]
            /\ t[Len(s) + 1] = e
        BY <4>1
      <4>3. Contains(t, x) => Contains(s, x) \/ e = x
        <5> SUFFICES ASSUME NEW i \in 1..Len(t), t[i] = x, e # x
                     PROVE  Contains(s, x)
          BY DEF Contains
        <5>1. i \in 1..Len(s)
          BY <4>2
        <5> QED
          BY <4>2, <5>1 DEF Contains
      <4>4. Contains(s, x) => Contains(t, x)
        <5> SUFFICES ASSUME NEW i \in 1..Len(s), s[i] = x
                     PROVE  Contains(t, x)
          BY DEF Contains
        <5>1. i \in 1..Len(t) /\ t[i] = x
          BY <4>2
        <5> QED
          BY <5>1 DEF Contains
      <4>5. e = x => Contains(t, x)
        <5>1. Len(t) \in 1..Len(t) /\ t[Len(t)] = e
          BY <4>2
        <5> QED
          BY <5>1 DEF Contains
      <4> QED
        BY <4>3, <4>4, <4>5 DEF s, e, t
    <3>4. Given(k + 1) <=> Given(k) \/ rows[k + 1] = x
      <4>1. \A i \in Fitting(block, rows) : i \in Nat
        BY DEF Fitting
      <4>2. \A i \in Fitting(block, rows) : i <= k + 1 <=> i <= k \/ i = k + 1
        BY <4>1
      <4> QED
        BY <2>1, <2>3, <4>1, <4>2
    <3> QED
      BY <3>3, <3>4
  <2>4. CASE k + 1 \notin Fitting(block, rows)
    <3>1. block[k].used + rows[k + 1].tokens > ContextBudget
      BY <1>1, <1>2, <2>1, <2>4, LimitsAssumption DEF Fitting
    <3>2. Has(k + 1) <=> Has(k)
      BY <2>2, <3>1 DEF Include
    <3>3. \A i \in Fitting(block, rows) : i <= k + 1 <=> i <= k
      <4>1. \A i \in Fitting(block, rows) : i \in Nat /\ i # k + 1
        BY <2>4 DEF Fitting
      <4> QED
        BY <4>1
    <3> QED
      BY <3>2, <3>3
  <2> QED
    BY <2>3, <2>4
<1>5. n \in T
  <2>1. n \in 0..n
    BY <1>1
  <2> HIDE DEF T, n
  <2> QED
    BY <1>1, <1>3, <1>4, <2>1, LoopInduction
<1>6. \A k \in Fitting(block, rows) : k <= n
  BY DEF Fitting
<1> QED
  BY <1>5, <1>6

\* The token counts of a selection are a sequence of numbers, and Tokens their total.
LEMMA WeightsFacts ==
  ASSUME NEW R, \A r \in R : r.tokens \in Nat, NEW rows \in Seq(R), NEW S
  PROVE  /\ Weights(rows, S) \in Seq(Nat)
         /\ Len(Weights(rows, S)) = Len(rows)
         /\ \A i \in 1..Len(rows) :
               Weights(rows, S)[i] = IF i \in S THEN rows[i].tokens ELSE 0
         /\ Tokens(rows, S) = Total(Weights(rows, S))
<1>1. DOMAIN rows = 1..Len(rows) /\ \A i \in 1..Len(rows) : rows[i].tokens \in Nat
  OBVIOUS
<1>2. Tokens(rows, S) = Total(Weights(rows, S))
  BY <1>1 DEF Tokens, Weights
<1> QED
  BY <1>1, <1>2 DEF Weights

\* build_context_block's greedy packing is the best there is, for any budget and any
\* chunks without repetition: what it includes fits, and no selection that fits has a
\* chunk ranked above all those it gives up for it (services/prompt.py:91-107).
THEOREM ContextIsBest ==
  ASSUME NEW R, \A r \in R : r.tokens \in Nat, NEW rows \in Seq(R), IsInjective(rows)
  PROVE  BestContext(rows)
<1> DEFINE n == Len(rows)
           kept == {i \in DOMAIN rows : Contains(ContextBlock(rows), rows[i])}
<1>1. n \in Nat /\ DOMAIN rows = 1..n /\ \A i \in 1..n : rows[i].tokens \in Nat
  OBVIOUS
<1>2. PICK block \in [0..n -> [included : Seq(R), used : Nat]] :
        ContextRun(block, rows) /\ ContextBlock(rows) = block[n].included
  BY ContextRuns
<1> DEFINE F == Fitting(block, rows)
<1>3. F \subseteq 1..n
  BY DEF Fitting
<1>4. kept = F
  <2>1. \A x : Contains(ContextBlock(rows), x) <=> \E i \in F : rows[i] = x
    BY <1>2, ContextIncluded
  <2>2. \A i \in 1..n : (\E j \in F : rows[j] = rows[i]) <=> i \in F
    BY <1>1, <1>3 DEF IsInjective
  <2> HIDE DEF F
  <2> QED
    BY <1>1, <1>3, <2>1, <2>2
<1>5. PICK sum : Sums(sum, Weights(rows, F))
  <2> HIDE DEF F
  <2> QED
    BY WeightsFacts, SumsExist
<1>6. \A i \in 0..n : block[i].used = sum[i] /\ sum[i] <= ContextBudget
  BY <1>2, <1>5, ContextUsed
<1>7. Tokens(rows, F) <= ContextBudget
  <2>1. Tokens(rows, F) = sum[n]
    <3>1. /\ Weights(rows, F) \in Seq(Nat) /\ Len(Weights(rows, F)) = n
          /\ Tokens(rows, F) = Total(Weights(rows, F))
      BY WeightsFacts
    <3> HIDE DEF F
    <3> QED
      BY <1>5, <3>1, TotalIsSum
  <2> QED
    BY <1>1, <1>6, <2>1
<1>8. ASSUME NEW S \in SUBSET (1..n), Tokens(rows, S) <= ContextBudget,
             NEW i \in S \ F, \A j \in F \ S : ~ (j < i)
      PROVE  FALSE
  <2>1. i \in 1..n /\ i - 1 \in 0..n /\ i \in 0..n /\ n \in 0..n /\ i <= n
    BY <1>1, <1>8
  <2>2. /\ Weights(rows, S) \in Seq(Nat) /\ Len(Weights(rows, S)) = n
        /\ \A j \in 1..n : Weights(rows, S)[j] = IF j \in S THEN rows[j].tokens ELSE 0
        /\ Tokens(rows, S) = Total(Weights(rows, S))
    BY WeightsFacts
  <2>3. /\ Weights(rows, F) \in Seq(Nat) /\ Len(Weights(rows, F)) = n
        /\ \A j \in 1..n : Weights(rows, F)[j] = IF j \in F THEN rows[j].tokens ELSE 0
    BY WeightsFacts
  <2>4. PICK other : Sums(other, Weights(rows, S))
    BY <2>2, SumsExist
  <2>5. \A j \in 1..(i - 1) : Weights(rows, F)[j] <= Weights(rows, S)[j]
    <3> SUFFICES ASSUME NEW j \in 1..(i - 1)
                 PROVE  Weights(rows, F)[j] <= Weights(rows, S)[j]
      OBVIOUS
    <3>1. j \in 1..n /\ j < i /\ rows[j].tokens \in Nat
      BY <1>1, <2>1
    <3>2. j \in F => j \in S
      BY <1>8, <3>1
    <3> HIDE DEF F
    <3> QED
      BY <2>2, <2>3, <3>1, <3>2
  <2>6. sum[i - 1] <= other[i - 1]
    <3> DEFINE v == Weights(rows, F)
               w == Weights(rows, S)
    <3>1. /\ v \in Seq(Nat) /\ w \in Seq(Nat) /\ Len(v) = n /\ Len(w) = n
          /\ Sums(sum, v) /\ Sums(other, w) /\ \A j \in 1..(i - 1) : v[j] <= w[j]
      BY <1>5, <2>2, <2>3, <2>4, <2>5
    <3> HIDE DEF v, w
    <3>2. i - 1 \in 0..Len(v)
      BY <2>1, <3>1
    <3> HIDE DEF n
    <3> QED
      BY <3>1, <3>2, SumsCompare
  <2>7. other[i] = other[i - 1] + rows[i].tokens
    BY <1>8, <2>1, <2>2, <2>4 DEF Sums
  <2>8. ~ (sum[i - 1] + rows[i].tokens <= ContextBudget)
    BY <1>6, <1>8, <2>1 DEF Fitting
  <2>9. other[i] <= other[n] /\ other[n] = Tokens(rows, S)
    BY <2>1, <2>2, <2>4, SumsGrow, TotalIsSum
  <2>10. /\ sum[i - 1] \in Nat /\ rows[i].tokens \in Nat
         /\ other[i - 1] \in Nat /\ other[i] \in Nat /\ other[n] \in Nat
    <3>1. sum[i - 1] \in Nat
      BY <1>6, <2>1
    <3>2. other \in [0..n -> Nat]
      BY <2>2, <2>4 DEF Sums
    <3> QED
      BY <1>1, <2>1, <3>1, <3>2
  <2> HIDE DEF F, n
  <2> QED
    BY <1>8, <2>6, <2>7, <2>8, <2>9, <2>10, LimitsAssumption
<1>9. \A S \in SUBSET DOMAIN rows : Tokens(rows, S) <= ContextBudget => Preferred(F, S)
  <2> HIDE DEF F
  <2> QED
    BY <1>1, <1>8 DEF Preferred
<1> QED
  <2>1. Tokens(rows, kept) <= ContextBudget
    BY <1>4, <1>7
  <2>2. \A S \in SUBSET DOMAIN rows : Tokens(rows, S) <= ContextBudget => Preferred(kept, S)
    BY <1>4, <1>9
  <2> QED
    BY <2>1, <2>2 DEF BestContext
--------------------------------------------------------------------------------
(* The history.                                                            *)

\* The n most recent messages.
Newest(messages, n) == SubSeq(messages, Len(messages) - n + 1, Len(messages))

\* block[i] is what build_history_block holds after i of its turns.
HistoryRun(block, messages) ==
    /\ DOMAIN block = 0..Len(messages)
    /\ block[0] = [selected |-> <<>>, used |-> 0, full |-> FALSE]
    /\ \A i \in 1..Len(messages) :
          block[i] = Recall(block[i - 1], messages[Len(messages) - i + 1])

HistoryState == [selected : Seq(Nat), used : Nat, full : BOOLEAN]

\* What a turn of the loop makes of a message's tokens.
LEMMA RecallCases ==
  ASSUME NEW b \in HistoryState, NEW tokens \in Nat
  PROVE  /\ b.full => Recall(b, tokens) = b
         /\ ~ b.full /\ b.used + tokens <= HistoryBudget =>
              Recall(b, tokens) = [selected |-> <<tokens>> \o b.selected,
                                   used     |-> b.used + tokens, full |-> FALSE]
         /\ ~ b.full /\ ~ (b.used + tokens <= HistoryBudget) =>
              Recall(b, tokens) =
                [selected |-> IF b.selected = <<>> /\ HistoryBudget > 0
                              THEN <<HistoryBudget>> ELSE b.selected,
                 used     |-> b.used, full |-> TRUE]
<1>1. b = [selected |-> b.selected, used |-> b.used, full |-> b.full] /\ b.full \in BOOLEAN
  BY DEF HistoryState
<1>2. CASE b.full
  BY <1>2 DEF Recall
<1>3. CASE ~ b.full /\ b.used + tokens <= HistoryBudget
  BY <1>1, <1>3 DEF Recall, HistoryState
<1>4. CASE ~ b.full /\ ~ (b.used + tokens <= HistoryBudget)
  BY <1>1, <1>4 DEF Recall, HistoryState
<1> QED
  BY <1>2, <1>3, <1>4

\* It is a state of the loop again.
LEMMA RecallType ==
  ASSUME NEW b \in HistoryState, NEW tokens \in Nat
  PROVE  Recall(b, tokens) \in HistoryState
<1>1. b.selected \in Seq(Nat) /\ b.used \in Nat /\ b.full \in BOOLEAN
  BY DEF HistoryState
<1>2. <<tokens>> \o b.selected \in Seq(Nat) /\ <<HistoryBudget>> \in Seq(Nat)
  BY <1>1, LimitsAssumption
<1>3. b.used + tokens \in Nat
  BY <1>1
<1>4. CASE b.full
  BY <1>4, RecallCases
<1>5. CASE ~ b.full /\ b.used + tokens <= HistoryBudget
  <2> DEFINE longer == <<tokens>> \o b.selected
  <2>1. longer \in Seq(Nat)
    BY <1>2
  <2>2. Recall(b, tokens) = [selected |-> longer, used |-> b.used + tokens, full |-> FALSE]
    BY <1>5, RecallCases
  <2> HIDE DEF longer
  <2> QED
    BY <1>3, <2>1, <2>2 DEF HistoryState
<1>6. CASE ~ b.full /\ ~ (b.used + tokens <= HistoryBudget)
  <2> DEFINE kept == IF b.selected = <<>> /\ HistoryBudget > 0
                     THEN <<HistoryBudget>> ELSE b.selected
  <2>1. kept \in Seq(Nat)
    BY <1>1, <1>2
  <2>2. Recall(b, tokens) = [selected |-> kept, used |-> b.used, full |-> TRUE]
    BY <1>6, RecallCases
  <2> HIDE DEF kept
  <2> QED
    BY <1>1, <2>1, <2>2 DEF HistoryState
<1> QED
  BY <1>4, <1>5, <1>6

\* build_history_block returns what its last turn leaves.
LEMMA HistoryRuns ==
  ASSUME NEW messages \in Seq(Nat)
  PROVE  \E block \in [0..Len(messages) -> HistoryState] :
           /\ HistoryRun(block, messages)
           /\ HistoryBlock(messages) = block[Len(messages)].selected
<1> DEFINE n == Len(messages)
           start == [selected |-> <<>>, used |-> 0, full |-> FALSE]
           turn == [i \in 1..n |-> [b \in HistoryState |-> Recall(b, messages[n - i + 1])]]
           Run(f) == f = [i \in 0..n |-> IF i = 0 THEN start
                                         ELSE Recall(f[i - 1], messages[n - i + 1])]
<1>1. n \in Nat /\ \A i \in 1..n : messages[n - i + 1] \in Nat
  OBVIOUS
<1>2. start \in HistoryState
  BY DEF HistoryState
<1>3. \A i \in 1..n, b \in HistoryState : Recall(b, messages[n - i + 1]) \in HistoryState
  BY <1>1, RecallType
<1>4. \E f : Run(f)
  <2>1. turn \in [1..n -> [HistoryState -> HistoryState]]
    BY <1>3
  <2>2. \A i \in 1..n, b \in HistoryState : turn[i][b] = Recall(b, messages[n - i + 1])
    OBVIOUS
  <2>3. PICK f : IsRun(f, HistoryState, start, n, turn)
    <3> HIDE DEF n, start, turn
    <3> QED
      BY <1>1, <1>2, <2>1, LoopRuns
  <2>4. Run(f)
    <3> HIDE DEF n, start, turn
    <3>1. \A i \in 1..n : f[i - 1] \in HistoryState
      BY <1>1, <2>3 DEF IsRun
    <3>2. \A i \in 1..n : f[i] = Recall(f[i - 1], messages[n - i + 1])
      BY <2>2, <2>3, <3>1 DEF IsRun
    <3>3. \A i \in 0..n : i = 0 \/ i \in 1..n
      BY <1>1
    <3>4. \A i \in 0..n : f[i] = IF i = 0 THEN start
                                 ELSE Recall(f[i - 1], messages[n - i + 1])
      BY <2>3, <3>2, <3>3 DEF IsRun
    <3> QED
      BY <2>3, <3>4 DEF IsRun
  <2> HIDE DEF Run
  <2> QED
    BY <2>4
<1>5. PICK f : Run(f) /\ HistoryBlock(messages) = f[n].selected
  <2> DEFINE f == CHOOSE f : Run(f)
  <2>1. Run(f)
    <3> HIDE DEF Run
    <3> QED
      BY <1>4
  <2>2. HistoryBlock(messages) = f[n].selected
    BY DEF HistoryBlock
  <2> QED
    BY <2>1, <2>2
<1>6. \A i \in 0..n : f[i] = IF i = 0 THEN start ELSE Recall(f[i - 1], messages[n - i + 1])
  BY <1>5
<1>7. \A k \in 0..n : k \in {i \in 0..n : f[i] \in HistoryState}
  <2> DEFINE T == {i \in 0..n : f[i] \in HistoryState}
  <2>1. 0 \in T
    <3> HIDE DEF start, n
    <3> QED
      BY <1>1, <1>2, <1>6
  <2>2. \A k \in 0..n : k < n /\ k \in T => k + 1 \in T
    <3> HIDE DEF start, n
    <3> SUFFICES ASSUME NEW k \in 0..n, k < n, f[k] \in HistoryState
                 PROVE  k + 1 \in 0..n /\ f[k + 1] \in HistoryState
      OBVIOUS
    <3>1. k + 1 \in 1..n /\ k + 1 \in 0..n /\ k + 1 # 0 /\ (k + 1) - 1 = k
      BY <1>1
    <3>2. f[k + 1] = Recall(f[k], messages[n - (k + 1) + 1])
      BY <1>6, <3>1
    <3> QED
      BY <1>3, <3>1, <3>2
  <2> HIDE DEF T
  <2> QED
    BY <1>1, <2>1, <2>2, LoopInduction DEF T
<1>8. f \in [0..n -> HistoryState]
  <2> HIDE DEF start, n
  <2> QED
    BY <1>5, <1>7
<1>9. HistoryRun(f, messages)
  <2>1. \A i \in 1..n : i \in 0..n /\ i # 0
    BY <1>1
  <2>2. \A i \in 1..n : f[i] = Recall(f[i - 1], messages[n - i + 1])
    BY <1>6, <2>1
  <2> QED
    BY <1>1, <1>6, <1>8, <2>2 DEF HistoryRun
<1> QED
  BY <1>5, <1>8, <1>9

\* The newest messages, one more of them, and none.
LEMMA NewestFacts ==
  ASSUME NEW messages \in Seq(Nat), NEW n \in 0..Len(messages)
  PROVE  /\ Newest(messages, n) \in Seq(Nat)
         /\ Len(Newest(messages, n)) = n
         /\ \A i \in 1..n : Newest(messages, n)[i] = messages[Len(messages) - n + i]
         /\ Newest(messages, n) = <<>> <=> n = 0
         /\ n < Len(messages) =>
              Newest(messages, n + 1) = <<messages[Len(messages) - n]>> \o Newest(messages, n)
<1> DEFINE size == Len(messages)
           first == size - n + 1
           newest == SubSeq(messages, first, size)
<1>1. /\ size \in Nat /\ n \in Nat /\ n <= size /\ first \in Int /\ size - first + 1 = n
      /\ \A i \in first..size : messages[i] \in Nat
  OBVIOUS
<1>2. /\ newest \in Seq(Nat)
      /\ Len(newest) = IF first <= size THEN size - first + 1 ELSE 0
      /\ \A i \in 1..(size - first + 1) : newest[i] = messages[first + i - 1]
  BY <1>1, SubSeqProperties
<1>3. Len(newest) = n /\ \A i \in 1..n : newest[i] = messages[size - n + i]
  <2>1. \A i \in 1..n : first + i - 1 = size - n + i
    BY <1>1
  <2> QED
    BY <1>1, <1>2, <2>1
<1>4. newest = <<>> <=> n = 0
  <2> HIDE DEF newest
  <2> QED
    BY <1>2, <1>3
<1>5. ASSUME n < size
      PROVE  Newest(messages, n + 1) = <<messages[size - n]>> \o newest
  <2>1. size - n \in 1..size /\ size \in (size - n)..size /\ size - (n + 1) + 1 = size - n
    BY <1>1, <1>5
  <2>2. SubSeq(messages, size - n, size)
          = <<messages[size - n]>> \o SubSeq(messages, (size - n) + 1, size)
    BY <2>1, SubSeqRecursiveFirst
  <2> QED
    BY <2>1, <2>2 DEF Newest
<1> QED
  BY <1>2, <1>3, <1>4, <1>5 DEF Newest

\* The total of the newest messages is a difference of two partial sums.
LEMMA NewestTotal ==
  ASSUME NEW messages \in Seq(Nat), NEW sum, Sums(sum, messages),
         NEW n \in 0..Len(messages)
  PROVE  Total(Newest(messages, n)) = sum[Len(messages)] - sum[Len(messages) - n]
<1> DEFINE size == Len(messages)
           newest == Newest(messages, n)
           part == [i \in 0..n |-> sum[size - n + i] - sum[size - n]]
<1>1. size \in Nat /\ n \in Nat /\ n <= size /\ size - n \in 0..size
  OBVIOUS
<1>2. \A i \in 0..n : size - n + i \in 0..size
  BY <1>1
<1>3. \A k \in 0..size : sum[k] \in Nat
  BY DEF Sums
<1>4. /\ newest \in Seq(Nat) /\ Len(newest) = n
      /\ \A i \in 1..n : newest[i] = messages[size - n + i]
  BY NewestFacts
<1>5. \A i \in 0..n : part[i] \in Nat
  <2> SUFFICES ASSUME NEW i \in 0..n PROVE sum[size - n + i] - sum[size - n] \in Nat
    OBVIOUS
  <2>1. size - n + i \in 0..size /\ size - n <= size - n + i
    BY <1>1
  <2>2. \A j, k \in 0..size : j <= k => sum[j] <= sum[k]
    BY SumsGrow, Zenon
  <2>3. sum[size - n] <= sum[size - n + i]
    BY <1>1, <2>1, <2>2, Zenon
  <2>4. sum[size - n + i] \in Nat /\ sum[size - n] \in Nat
    BY <1>1, <1>3, <2>1
  <2>5. \A a, b \in Nat : a <= b => b - a \in Nat
    OBVIOUS
  <2> QED
    BY <2>3, <2>4, <2>5, Zenon
<1>6. part[0] = 0
  BY <1>1, <1>3
<1>7. \A i \in 1..n : part[i] = part[i - 1] + newest[i]
  <2> SUFFICES ASSUME NEW i \in 1..n PROVE part[i] = part[i - 1] + newest[i]
    OBVIOUS
  <2>1. /\ i \in 0..n /\ i - 1 \in 0..n /\ size - n + i \in 1..size
        /\ size - n + (i - 1) = (size - n + i) - 1
    BY <1>1
  <2>2. sum[size - n + i] = sum[(size - n + i) - 1] + messages[size - n + i]
    BY <2>1 DEF Sums
  <2>3. messages[size - n + i] \in Nat /\ newest[i] = messages[size - n + i]
    BY <1>4, <2>1
  <2>4. part[i] = sum[size - n + i] - sum[size - n]
    BY <2>1
  <2>5. part[i - 1] = sum[(size - n + i) - 1] - sum[size - n]
    BY <2>1
  <2>6. sum[size - n] \in Nat /\ sum[(size - n + i) - 1] \in Nat
    BY <1>1, <1>2, <1>3, <2>1
  <2> HIDE DEF part, newest, size
  <2> QED
    BY <2>2, <2>3, <2>4, <2>5, <2>6
<1>8. Sums(part, newest)
  <2>1. part \in [0..n -> Nat]
    <3> DOMAIN part = 0..n /\ part = [i \in 0..n |-> part[i]]
      OBVIOUS
    <3> HIDE DEF part
    <3> QED
      BY <1>5
  <2> HIDE DEF part, newest
  <2> QED
    BY <1>4, <1>6, <1>7, <2>1 DEF Sums
<1>9. Total(newest) = part[n]
  <2> HIDE DEF part, newest
  <2> QED
    BY <1>4, <1>8, TotalIsSum
<1>10. n \in 0..n /\ size - n + n = size
  BY <1>1
<1> QED
  BY <1>9, <1>10

\* The n newest messages fit.
FitsBudget(messages, n) == Total(Newest(messages, n)) <= HistoryBudget

\* More messages take more tokens: one, the tokens of that message.
LEMMA NewestGrow ==
  ASSUME NEW messages \in Seq(Nat), NEW n \in 0..Len(messages)
  PROVE  /\ Total(Newest(messages, n)) \in Nat
         /\ Total(Newest(messages, 0)) = 0
         /\ n < Len(messages) =>
              Total(Newest(messages, n + 1))
                = Total(Newest(messages, n)) + messages[Len(messages) - n]
         /\ \A m \in n..Len(messages) :
               Total(Newest(messages, n)) <= Total(Newest(messages, m))
<1> DEFINE size == Len(messages)
<1>1. PICK sum : Sums(sum, messages)
  BY SumsExist
<1>2. /\ size \in Nat /\ n \in 0..size /\ size - n \in 0..size /\ size \in 0..size
      /\ size - 0 = size /\ 0 \in 0..size
  OBVIOUS
<1>3. \A k \in 0..size : Total(Newest(messages, k)) = sum[size] - sum[size - k]
  BY <1>1, NewestTotal
<1>4. \A k \in 0..size : sum[k] \in Nat
  BY <1>1 DEF Sums
<1>5. sum[size - n] <= sum[size]
  BY <1>1, <1>2, SumsGrow
<1>6. ASSUME n < size
      PROVE  Total(Newest(messages, n + 1)) = Total(Newest(messages, n)) + messages[size - n]
  <2>1. n + 1 \in 0..size /\ size - n \in 1..size /\ size - (n + 1) = (size - n) - 1
    BY <1>2, <1>6
  <2>2. sum[size - n] = sum[(size - n) - 1] + messages[size - n]
    BY <1>1, <2>1 DEF Sums
  <2>3. /\ messages[size - n] \in Nat /\ sum[size - n] \in Nat /\ sum[size] \in Nat
        /\ sum[(size - n) - 1] \in Nat
    <3>1. (size - n) - 1 \in 0..size
      BY <2>1
    <3> QED
      BY <1>2, <1>4, <2>1, <3>1
  <2>4. /\ Total(Newest(messages, n + 1)) = sum[size] - sum[(size - n) - 1]
        /\ Total(Newest(messages, n)) = sum[size] - sum[size - n]
    BY <1>2, <1>3, <2>1
  <2> HIDE DEF size
  <2>5. sum[size] - sum[(size - n) - 1] = (sum[size] - sum[size - n]) + messages[size - n]
    <3> DEFINE a == sum[size]
               b == sum[size - n]
               c == sum[(size - n) - 1]
               d == messages[size - n]
    <3>1. a \in Nat /\ b \in Nat /\ c \in Nat /\ d \in Nat /\ b = c + d
      BY <2>2, <2>3
    <3> HIDE DEF a, b, c, d
    <3>2. a - c = (a - b) + d
      BY <3>1
    <3> QED
      BY <3>2 DEF a, b, c, d
  <2> QED
    BY <2>4, <2>5, Zenon
<1>7. ASSUME NEW m \in n..size
      PROVE  Total(Newest(messages, n)) <= Total(Newest(messages, m))
  <2>1. m \in 0..size /\ size - m \in 0..size /\ size - m <= size - n
    BY <1>2
  <2>2. sum[size - m] <= sum[size - n]
    BY <1>1, <1>2, <2>1, SumsGrow
  <2>3. /\ Total(Newest(messages, n)) = sum[size] - sum[size - n]
        /\ Total(Newest(messages, m)) = sum[size] - sum[size - m]
    BY <1>2, <1>3, <2>1
  <2>4. sum[size] \in Nat /\ sum[size - n] \in Nat /\ sum[size - m] \in Nat
    BY <1>2, <1>4, <2>1
  <2> QED
    BY <2>2, <2>3, <2>4
<1>8. Total(Newest(messages, n)) \in Nat /\ Total(Newest(messages, 0)) = 0
  <2>1. sum[size] \in Nat /\ sum[size - n] \in Nat
    BY <1>2, <1>4
  <2>2. /\ Total(Newest(messages, n)) = sum[size] - sum[size - n]
        /\ Total(Newest(messages, 0)) = sum[size] - sum[size]
    BY <1>2, <1>3
  <2> QED
    BY <1>5, <2>1, <2>2
<1> QED
  BY <1>6, <1>7, <1>8

\* After i turns the history is all the messages of these turns, which fit, or the
\* first message that did not fit has ended it.
HistoryInv(block, messages, i) ==
    /\ ~ block[i].full => /\ block[i].selected = Newest(messages, i)
                          /\ block[i].used = Total(Newest(messages, i))
                          /\ FitsBudget(messages, i)
    /\ block[i].full =>
         \E k \in 0..(i - 1) :
            /\ FitsBudget(messages, k) /\ ~ FitsBudget(messages, k + 1)
            /\ block[i].selected = IF k = 0 /\ HistoryBudget > 0 THEN <<HistoryBudget>>
                                   ELSE Newest(messages, k)

\* That holds after every turn.
LEMMA HistoryTurns ==
  ASSUME NEW messages \in Seq(Nat),
         NEW block \in [0..Len(messages) -> HistoryState], HistoryRun(block, messages),
         NEW i \in 0..Len(messages)
  PROVE  HistoryInv(block, messages, i)
<1> DEFINE n == Len(messages)
           All(j) == /\ block[j].selected = Newest(messages, j)
                     /\ block[j].used = Total(Newest(messages, j))
                     /\ FitsBudget(messages, j)
           Ended(j, k) ==
              /\ FitsBudget(messages, k) /\ ~ FitsBudget(messages, k + 1)
              /\ block[j].selected = IF k = 0 /\ HistoryBudget > 0 THEN <<HistoryBudget>>
                                     ELSE Newest(messages, k)
           Inv(j) == /\ ~ block[j].full => All(j)
                     /\ block[j].full => \E k \in 0..(j - 1) : Ended(j, k)
           T == {j \in 0..n : Inv(j)}
<1>1. n \in Nat
  OBVIOUS
<1>2. 0 \in T
  <2>1. /\ block[0].selected = <<>> /\ block[0].used = 0 /\ ~ block[0].full
    BY DEF HistoryRun
  <2>2. Newest(messages, 0) = <<>> /\ Total(Newest(messages, 0)) = 0
    <3>1. 0 \in 0..Len(messages)
      OBVIOUS
    <3>2. Newest(messages, 0) = <<>>
      BY <3>1, NewestFacts
    <3>3. Total(Newest(messages, 0)) = 0
      BY <3>1, NewestGrow
    <3> QED
      BY <3>2, <3>3
  <2>3. FitsBudget(messages, 0)
    BY <2>2, LimitsAssumption DEF FitsBudget
  <2> QED
    BY <1>1, <2>1, <2>2, <2>3
<1>3. \A j \in 0..n : j < n /\ j \in T => j + 1 \in T
  <2> SUFFICES ASSUME NEW j \in 0..n, j < n, Inv(j) PROVE Inv(j + 1)
    <3>1. \A j \in 0..n : j < n => j + 1 \in 0..n
      BY <1>1
    <3> HIDE DEF Inv
    <3> QED
      BY <3>1
  <2>1. j + 1 \in 1..n /\ j + 1 \in 0..n /\ (j + 1) - 1 = j /\ n - (j + 1) + 1 = n - j
    BY <1>1
  <2> DEFINE tokens == messages[n - j]
  <2>2. tokens \in Nat /\ block[j] \in HistoryState /\ block[j + 1] = Recall(block[j], tokens)
    <3>1. n - j \in 1..n
      BY <2>1
    <3>2. block[j + 1] = Recall(block[(j + 1) - 1], messages[n - (j + 1) + 1])
      BY <2>1 DEF HistoryRun
    <3>3. block[j + 1] = Recall(block[j], tokens)
      BY <2>1, <3>2
    <3>4. tokens \in Nat
      BY <3>1
    <3> QED
      BY <3>3, <3>4
  <2>3. /\ Newest(messages, j + 1) = <<tokens>> \o Newest(messages, j)
        /\ Newest(messages, j) = <<>> <=> j = 0
        /\ Total(Newest(messages, j + 1)) = Total(Newest(messages, j)) + tokens
    BY <2>1, NewestFacts, NewestGrow
  <2> HIDE DEF tokens
  <2>4. CASE block[j].full
    <3>1. block[j + 1] = block[j]
      BY <2>2, <2>4, RecallCases
    <3>2. PICK k \in 0..(j - 1) : Ended(j, k)
      BY <2>4
    <3>3. k \in 0..((j + 1) - 1)
      BY <2>1
    <3>4. Ended(j + 1, k)
      BY <3>1, <3>2
    <3> HIDE DEF Ended
    <3> QED
      BY <2>4, <3>1, <3>3, <3>4
  <2>5. CASE ~ block[j].full /\ block[j].used + tokens <= HistoryBudget
    <3>1. block[j + 1] = [selected |-> <<tokens>> \o block[j].selected,
                          used |-> block[j].used + tokens, full |-> FALSE]
      BY <2>2, <2>5, RecallCases
    <3>2. /\ block[j + 1].selected = <<tokens>> \o block[j].selected
          /\ block[j + 1].used = block[j].used + tokens /\ ~ block[j + 1].full
      <4> DEFINE next == block[j + 1]
                 selected == <<tokens>> \o block[j].selected
                 used == block[j].used + tokens
      <4>1. next = [selected |-> selected, used |-> used, full |-> FALSE]
        BY <3>1, Zenon
      <4> HIDE DEF next, selected, used
      <4>2. next.selected = selected /\ next.used = used /\ ~ next.full
        BY <4>1
      <4> QED
        BY <4>2 DEF next, selected, used
    <3>3. All(j + 1)
      BY <2>3, <2>5, <3>2 DEF FitsBudget
    <3> QED
      BY <3>2, <3>3
  <2>6. CASE ~ block[j].full /\ ~ (block[j].used + tokens <= HistoryBudget)
    <3>1. block[j + 1] = [selected |-> IF block[j].selected = <<>> /\ HistoryBudget > 0
                                       THEN <<HistoryBudget>> ELSE block[j].selected,
                          used |-> block[j].used, full |-> TRUE]
      BY <2>2, <2>6, RecallCases
    <3>2. /\ block[j + 1].selected = IF block[j].selected = <<>> /\ HistoryBudget > 0
                                     THEN <<HistoryBudget>> ELSE block[j].selected
          /\ block[j + 1].full
      BY <3>1
    <3>3. Ended(j + 1, j)
      BY <2>3, <2>6, <3>2 DEF FitsBudget
    <3>4. j \in 0..((j + 1) - 1)
      BY <2>1
    <3> HIDE DEF Ended
    <3> QED
      BY <3>2, <3>3, <3>4
  <2> QED
    BY <2>4, <2>5, <2>6
<1>4. i \in T
  <2> HIDE DEF T, n
  <2>1. i \in 0..n
    BY DEF n
  <2> QED
    BY <1>1, <1>2, <1>3, <2>1, LoopInduction
<1> QED
  BY <1>4 DEF HistoryInv

\* build_history_block keeps the longest end of the chat that fits, for any budget and
\* any messages; of a newest message beyond the budget it keeps the end
\* (services/prompt.py:134-147).
THEOREM HistoryIsLongest ==
  ASSUME NEW messages \in Seq(Nat)
  PROVE  LongestHistory(messages)
<1> DEFINE size == Len(messages)
           Best(n) == /\ FitsBudget(messages, n)
                      /\ \A m \in (n + 1)..size : ~ FitsBudget(messages, m)
           Answer(n) == IF n = 0 /\ size > 0 /\ HistoryBudget > 0 THEN <<HistoryBudget>>
                        ELSE Newest(messages, n)
<1>1. size \in Nat /\ size \in 0..size
  OBVIOUS
<1>2. PICK block \in [0..size -> HistoryState] :
        HistoryRun(block, messages) /\ HistoryBlock(messages) = block[size].selected
  BY HistoryRuns
<1> HistoryInv(block, messages, size)
  BY <1>1, <1>2, HistoryTurns
<1>3. PICK k \in 0..size : Best(k) /\ HistoryBlock(messages) = Answer(k)
  <2>1. CASE ~ block[size].full
    <3>1. HistoryBlock(messages) = Newest(messages, size) /\ FitsBudget(messages, size)
      BY <1>2, <2>1 DEF HistoryInv
    <3>2. Best(size) /\ HistoryBlock(messages) = Answer(size)
      BY <1>1, <3>1
    <3> HIDE DEF Best, Answer
    <3> QED
      BY <1>1, <3>2
  <2>2. CASE block[size].full
    <3>1. PICK k \in 0..(size - 1) :
            /\ FitsBudget(messages, k) /\ ~ FitsBudget(messages, k + 1)
            /\ block[size].selected = IF k = 0 /\ HistoryBudget > 0 THEN <<HistoryBudget>>
                                      ELSE Newest(messages, k)
      BY <2>2 DEF HistoryInv
    <3>2. k \in 0..size /\ k + 1 \in 0..size /\ size > 0
      BY <1>1
    <3>3. HistoryBlock(messages) = Answer(k)
      BY <1>2, <3>1, <3>2
    <3>4. ASSUME NEW m \in (k + 1)..size PROVE ~ FitsBudget(messages, m)
      <4>1. /\ Total(Newest(messages, k + 1)) \in Nat
            /\ Total(Newest(messages, k + 1)) <= Total(Newest(messages, m))
        BY <3>2, NewestGrow
      <4>2. m \in 0..size
        BY <3>2
      <4>3. Total(Newest(messages, m)) \in Nat
        BY <4>2, NewestGrow
      <4> QED
        BY <3>1, <4>1, <4>3, LimitsAssumption DEF FitsBudget
    <3>5. Best(k)
      BY <3>1, <3>4
    <3> HIDE DEF Best, Answer
    <3> QED
      BY <3>2, <3>3, <3>5
  <2> QED
    BY <2>1, <2>2
<1>4. \A n \in 0..size : Best(n) => n = k
  <2> SUFFICES ASSUME NEW n \in 0..size, Best(n), n # k PROVE FALSE
    OBVIOUS
  <2>1. CASE n < k
    <3>1. k \in (n + 1)..size
      BY <2>1
    <3> QED
      BY <1>3, <3>1
  <2>2. CASE k < n
    <3>1. n \in (k + 1)..size
      BY <2>2
    <3> QED
      BY <1>3, <3>1
  <2> QED
    BY <2>1, <2>2
<1>5. (CHOOSE n \in 0..size : Best(n)) = k
  <2> HIDE DEF Best
  <2> QED
    BY <1>3, <1>4
<1>6. HistoryBlock(messages) = Answer(CHOOSE n \in 0..size : Best(n))
  BY <1>3, <1>5
<1> QED
  BY <1>6 DEF LongestHistory, FitsBudget, Newest
--------------------------------------------------------------------------------
(* The question.                                                           *)

\* What is found is a sequence of rows, without repetition and with their tokens, each
\* of which fits the budget on its own.
LEMMA FoundRows ==
  ASSUME CInv, NEW other \in 0..Size, NEW rows \in Found(other)
  PROVE  /\ \A r \in Rows(other) : r.tokens \in Nat /\ r.tokens <= ContextBudget
         /\ rows \in Seq(Rows(other))
         /\ IsInjective(rows)
<1>1. \A i \in DOMAIN chunks : chunks[i].count \in 1..Size
  <2>1. DOMAIN chunks = 1..Len(chunks)
    BY DEF CInv, TypeOK
  <2> QED
    BY <2>1 DEF CInv, ChunkGrid
<1>2. \A r \in Rows(other) : \E n \in 1..Size, label \in {ThisLabel, OtherLabel} :
        r.tokens = n + label
  <2>1. ASSUME NEW i \in DOMAIN chunks,
               NEW r, r = [doc |-> "this", index |-> i, tokens |-> chunks[i].count + ThisLabel]
        PROVE  \E n \in 1..Size, label \in {ThisLabel, OtherLabel} : r.tokens = n + label
    <3>1. r.tokens = chunks[i].count + ThisLabel
      BY <2>1
    <3> QED
      BY <1>1, <3>1
  <2>2. ASSUME other # 0,
               NEW r, r = [doc |-> "other", index |-> 1, tokens |-> other + OtherLabel]
        PROVE  \E n \in 1..Size, label \in {ThisLabel, OtherLabel} : r.tokens = n + label
    <3>1. r.tokens = other + OtherLabel /\ other \in 1..Size
      BY <2>2
    <3> QED
      BY <3>1
  <2>3. ASSUME NEW r \in Rows(other)
        PROVE  \/ \E i \in DOMAIN chunks :
                     r = [doc |-> "this", index |-> i, tokens |-> chunks[i].count + ThisLabel]
               \/ /\ other # 0
                  /\ r = [doc |-> "other", index |-> 1, tokens |-> other + OtherLabel]
    BY <2>3 DEF Rows
  <2> QED
    BY <2>1, <2>2, <2>3
<1>3. ASSUME NEW r \in Rows(other) PROVE r.tokens \in Nat /\ r.tokens <= ContextBudget
  <2>1. PICK n \in 1..Size, label \in {ThisLabel, OtherLabel} : r.tokens = n + label
    BY <1>2
  <2>2. label \in Nat /\ Size + label <= ContextBudget
    BY LabelAssumption
  <2> QED
    BY <2>1, <2>2, SizeAssumption, LimitsAssumption
<1>4. PICK m \in 0..TopK : rows \in [1..m -> Rows(other)]
  BY DEF Found, BoundedSeq, SeqOf
<1>5. rows \in Seq(Rows(other))
  BY <1>4, LimitsAssumption
<1> QED
  BY <1>3, <1>5 DEF Found

\* The context of no rows is empty, and of rows that each fit it is not.
LEMMA ContextNotEmpty ==
  ASSUME NEW R, \A r \in R : r.tokens \in Nat,
         NEW rows \in Seq(R), \A r \in R : r.tokens <= ContextBudget
  PROVE  ContextBlock(rows) = <<>> <=> rows = <<>>
<1> DEFINE n == Len(rows)
<1>1. PICK block \in [0..n -> [included : Seq(R), used : Nat]] :
        ContextRun(block, rows) /\ ContextBlock(rows) = block[n].included
  BY ContextRuns
<1>2. block[0].included = <<>> /\ block[0].used = 0
  BY <1>1 DEF ContextRun
<1>3. ASSUME rows = <<>> PROVE ContextBlock(rows) = <<>>
  BY <1>1, <1>2, <1>3
<1>4. ASSUME rows # <<>> PROVE ContextBlock(rows) # <<>>
  <2>1. 1 \in 1..n /\ rows[1] \in R
    BY <1>4
  <2>2. 1 \in Fitting(block, rows)
    BY <1>2, <2>1 DEF Fitting
  <2>3. Contains(ContextBlock(rows), rows[1])
    <3>1. \A x : Contains(ContextBlock(rows), x)
                   <=> \E i \in Fitting(block, rows) : rows[i] = x
      BY <1>1, ContextIncluded
    <3> QED
      BY <2>2, <3>1
  <2> QED
    BY <2>3 DEF Contains
<1> QED
  BY <1>3, <1>4

\* What is relevant of the rows found is again rows without repetition.
LEMMA RelevantRows ==
  ASSUME NEW R, NEW rows \in Seq(R), IsInjective(rows), NEW near \in 0..Len(rows)
  PROVE  /\ Relevant(rows, near) \in Seq(R)
         /\ IsInjective(Relevant(rows, near))
         /\ Relevant(rows, near) = <<>> <=> rows = <<>>
<1>1. CASE near = 0
  BY <1>1 DEF Relevant
<1>2. CASE near # 0
  <2> DEFINE some == SubSeq(rows, 1, near)
  <2>1. /\ near \in Nat /\ 1 <= near /\ near <= Len(rows) /\ near - 1 + 1 = near
        /\ \A i \in 1..near : i \in 1..Len(rows) /\ rows[i] \in R /\ 1 + i - 1 = i
    BY <1>2
  <2>2. some \in Seq(R) /\ Len(some) = near /\ \A i \in 1..near : some[i] = rows[i]
    <3>1. /\ some \in Seq(R)
          /\ Len(some) = IF 1 <= near THEN near - 1 + 1 ELSE 0
          /\ \A i \in 1..(near - 1 + 1) : some[i] = rows[1 + i - 1]
      BY <2>1, SubSeqProperties
    <3> HIDE DEF some
    <3> QED
      BY <2>1, <3>1
  <2>3. Relevant(rows, near) = some
    BY <1>2 DEF Relevant
  <2> HIDE DEF some
  <2>4. DOMAIN some = 1..near /\ DOMAIN rows = 1..Len(rows)
    BY <2>2
  <2>5. IsInjective(some)
    BY <2>1, <2>2, <2>4 DEF IsInjective
  <2>6. some # <<>> /\ rows # <<>>
    BY <2>1, <2>2
  <2> QED
    BY <2>2, <2>3, <2>5, <2>6
<1> QED
  BY <1>1, <1>2

\* Whatever was chunked and found: the context is the best selection that fits, the
\* history the longest, and an answer counts as a fallback exactly when nothing near
\* was found, for any budgets of which the first has room for a chunk and its label
\* (services/prompt.py:76-150, routers/query.py:87-93).
THEOREM BudgetsFilled == Spec => []PromptFillsBudgets
<1>1. CInv => PromptFillsBudgets
  <2> SUFFICES ASSUME CInv PROVE PromptFillsBudgets
    OBVIOUS
  <2>1. ASSUME NEW other \in 0..Size, NEW rows \in Found(other), NEW near \in 0..Len(rows)
        PROVE  /\ BestContext(Relevant(rows, near))
               /\ IsFallback(rows, near) <=> near = 0
    <3> DEFINE R == Rows(other)
               relevant == Relevant(rows, near)
    <3>1. /\ \A r \in R : r.tokens \in Nat /\ r.tokens <= ContextBudget
          /\ rows \in Seq(R) /\ IsInjective(rows)
      BY FoundRows
    <3>2. /\ relevant \in Seq(R) /\ IsInjective(relevant)
          /\ relevant = <<>> <=> rows = <<>>
      BY <3>1, RelevantRows
    <3> HIDE DEF R, relevant
    <3>3. BestContext(relevant)
      BY <3>1, <3>2, ContextIsBest
    <3>4. ContextBlock(relevant) = <<>> <=> rows = <<>>
      BY <3>1, <3>2, ContextNotEmpty
    <3>5. rows = <<>> => near = 0
      OBVIOUS
    <3>6. IsFallback(rows, near) <=> near = 0
      BY <3>4, <3>5 DEF IsFallback, relevant
    <3> QED
      BY <3>3, <3>6 DEF relevant
  <2>2. ASSUME NEW messages \in BoundedSeq(1..(HistoryBudget + 1), MaxMessages)
        PROVE  LongestHistory(messages)
    <3>1. PICK m \in 0..MaxMessages : messages \in [1..m -> 1..(HistoryBudget + 1)]
      BY DEF BoundedSeq, SeqOf
    <3>2. messages \in Seq(Nat)
      BY <3>1, LimitsAssumption
    <3> QED
      BY <3>2, HistoryIsLongest
  <2> QED
    BY <2>1, <2>2 DEF PromptFillsBudgets
<1> QED
  BY <1>1, ChunkingInvariant, PTL
================================================================================

-------------------------- MODULE Admission_proofs --------------------------
(***************************************************************************)
(* Proofs about admission, for any capacity, rate and idle time, any       *)
(* number of clients and handlers, and a clock that may be set back at any *)
(* time.                                                                   *)
(***************************************************************************)
EXTENDS Admission, FiniteSetTheorems, TLAPS

-----------------------------------------------------------------------------
(* The inductive invariant *)

\* What a bucket has and has earned by now, whether or not it has been used or
\* forgotten since.
Earned(k) ==
  IF k \in tracked
  THEN Smaller(Capacity,
               tokens[k] + Refill * ((IF updatedAt[k] > now THEN updatedAt[k] ELSE now) - updatedAt[k]))
  ELSE Capacity

\* The budget when a bucket was renewed n times since it was first used in the
\* observation, and how much of the observation is left of these n idle times:
\* no less than the bucket has been idle for.
Balanced(n, level) ==
  /\ n * IdleTtl <= advanced
  /\ granted + level <= Capacity + Refill * advanced + Windfall * n

IdleTimesFit(n) ==
  \/ granted = 0 /\ n = 0
  \/ watched \in tracked => now - updatedAt[watched] <= advanced - n * IdleTtl

BudgetInv == \E n \in 0 .. advanced : Balanced(n, Earned(watched)) /\ IdleTimesFit(n)

IInv ==
  /\ AdmissionTypeOK
  /\ BudgetInv
  /\ SlotsMatchHandlers

-----------------------------------------------------------------------------
(* Arithmetic *)

LEMMA RefillGrows ==
  ASSUME NEW x \in Int, NEW y \in Int, x <= y
  PROVE  Refill * x <= Refill * y
<1>1. Refill \in Nat
  BY AdmissionAssumption
<1>2. PICK d \in Nat : y = x + d
  <2>1. y - x \in Nat /\ y = x + (y - x)
    OBVIOUS
  <2> QED
    BY <2>1
<1>3. Refill * y = Refill * x + Refill * d
  BY <1>1, <1>2
<1>4. Refill * d >= 0
  BY <1>1
<1> QED
  BY <1>1, <1>3, <1>4

LEMMA RefillOfOneMore ==
  ASSUME NEW x \in Int
  PROVE  Refill * (x + 1) = Refill * x + Refill /\ Refill * x \in Int
BY AdmissionAssumption

LEMMA SmallerIsSmaller ==
  ASSUME NEW a \in Int, NEW b \in Int
  PROVE  /\ Smaller(a, b) \in {a, b}
         /\ Smaller(a, b) <= a /\ Smaller(a, b) <= b
BY DEF Smaller

LEMMA ConstantsTyped ==
  /\ Capacity \in Nat /\ Refill \in Nat /\ Cost \in Nat /\ IdleTtl \in Nat \ {0}
  /\ SweepInterval \in Nat /\ MaxClients \in Nat /\ Maximum \in Nat
  /\ MaxTime \in Nat /\ Horizon \in Nat
BY AdmissionAssumption

LEMMA WindfallTyped ==
  /\ Windfall \in 0 .. Capacity
  /\ Smaller(Capacity, Refill * IdleTtl) = Capacity - Windfall
<1>1. Capacity \in Nat /\ Refill * IdleTtl \in Nat
  BY ConstantsTyped
<1> QED
  BY <1>1 DEF Windfall, Smaller

\* One idle time more.
LEMMA OneMoreIdleTime ==
  ASSUME NEW n \in Nat
  PROVE  /\ n * IdleTtl \in Nat /\ n <= n * IdleTtl
         /\ (n + 1) * IdleTtl = n * IdleTtl + IdleTtl
         /\ Windfall * n \in Nat /\ Windfall * (n + 1) = Windfall * n + Windfall
<1>1. PICK d \in Nat : IdleTtl = 1 + d
  <2>1. IdleTtl - 1 \in Nat /\ IdleTtl = 1 + (IdleTtl - 1)
    BY ConstantsTyped
  <2> QED
    BY <2>1
<1>2. n * IdleTtl = n + n * d /\ n * d \in Nat
  BY <1>1
<1>3. (n + 1) * IdleTtl = n * IdleTtl + IdleTtl
  BY ConstantsTyped
<1>4. Windfall \in Nat
  BY WindfallTyped, ConstantsTyped
<1>5. Windfall * n \in Nat /\ Windfall * (n + 1) = Windfall * n + Windfall
  BY <1>4
<1> QED
  BY <1>2, <1>3, <1>5

-----------------------------------------------------------------------------
(* Buckets *)

\* A bucket has what it earned, and is full when it was forgotten: it gains a
\* windfall at most, and that only after an idle time.
LEMMA LevelIsEarned ==
  ASSUME AdmissionTypeOK, NEW k \in Key
  PROVE  /\ Level(k) \in 0 .. Capacity /\ Earned(k) \in 0 .. Capacity
         /\ k \notin Expired => Level(k) = Earned(k)
         /\ k \in Expired => /\ Level(k) = Capacity /\ Capacity <= Earned(k) + Windfall
                            /\ k \in tracked /\ k \notin Kept /\ now - updatedAt[k] >= IdleTtl
<1> DEFINE since == (IF updatedAt[k] > now THEN updatedAt[k] ELSE now) - updatedAt[k]
<1>1. /\ tokens[k] \in 0 .. Capacity /\ updatedAt[k] \in 0 .. MaxTime
      /\ now \in 0 .. MaxTime /\ Capacity \in Nat /\ Refill \in Nat /\ IdleTtl \in Nat
  BY ConstantsTyped DEF AdmissionTypeOK
<1>2. since \in Nat
  BY <1>1, ConstantsTyped
<1>3. Refill * since \in Nat
  <2> HIDE DEF since
  <2> QED BY <1>1, <1>2
<1>4. Smaller(Capacity, tokens[k] + Refill * since) \in 0 .. Capacity
  <2> HIDE DEF since
  <2> QED BY <1>1, <1>3 DEF Smaller
<1>5. CASE k \in Kept
  BY <1>4, <1>5 DEF Level, Earned, EffectiveNow, Kept
<1>6. CASE k \in Expired
  <2>1. k \in tracked /\ k \notin Kept /\ now - updatedAt[k] >= IdleTtl /\ since >= IdleTtl
    BY <1>1, <1>6, ConstantsTyped DEF Expired, Kept
  <2>2. Refill * since >= Refill * IdleTtl /\ Refill * IdleTtl \in Nat
    <3> HIDE DEF since
    <3> QED BY <1>1, <1>2, <2>1, RefillGrows
  <2>3. Smaller(Capacity, tokens[k] + Refill * since) >= Capacity - Windfall
    <3> HIDE DEF since
    <3> QED BY <1>1, <1>3, <2>2, WindfallTyped DEF Smaller
  <2>4. /\ Earned(k) = Smaller(Capacity, tokens[k] + Refill * since)
        /\ Level(k) = Capacity
    BY <2>1 DEF Earned, Level
  <2> HIDE DEF since
  <2> QED
    BY <1>1, <1>4, <1>6, <2>1, <2>3, <2>4, WindfallTyped
<1>7. CASE k \notin tracked
  BY <1>1, <1>7 DEF Level, Earned, Kept, Expired
<1> QED
  BY <1>5, <1>6, <1>7 DEF Kept

\* What the sweep in a request makes of the watched bucket is in the budget.
LEMMA SweepKeepsBudget ==
  ASSUME AdmissionTypeOK, BudgetInv
  PROVE  \E n \in 0 .. advanced :
           /\ Balanced(n, Level(watched))
           /\ \/ granted = 0 /\ n = 0
              \/ watched \in Kept => now - updatedAt[watched] <= advanced - n * IdleTtl
<1>1. PICK n \in 0 .. advanced : Balanced(n, Earned(watched)) /\ IdleTimesFit(n)
  BY DEF BudgetInv
<1>2. /\ watched \in Key /\ granted \in Nat /\ advanced \in Nat /\ n \in Nat
      /\ now \in Nat /\ updatedAt[watched] \in Nat /\ Capacity \in Nat
      /\ Level(watched) \in 0 .. Capacity /\ Earned(watched) \in 0 .. Capacity
      /\ Refill * advanced \in Nat /\ Windfall \in Nat /\ IdleTtl \in Nat
  BY LevelIsEarned, WindfallTyped, ConstantsTyped DEF AdmissionTypeOK
<1>3. CASE watched \notin Expired
  <2>1. Level(watched) = Earned(watched) /\ (watched \in Kept => watched \in tracked)
    BY <1>2, <1>3, LevelIsEarned DEF Kept
  <2> QED
    BY <1>1, <2>1 DEF IdleTimesFit
<1>4. CASE watched \in Expired /\ granted = 0 /\ n = 0
  <2>1. 0 * IdleTtl = 0 /\ Windfall * 0 = 0
    BY <1>2
  <2>2. Balanced(0, Level(watched))
    BY <1>2, <1>4, <2>1 DEF Balanced
  <2> QED
    BY <1>2, <1>4, <2>2
<1>5. CASE watched \in Expired /\ ~(granted = 0 /\ n = 0)
  <2>1. /\ Level(watched) = Capacity /\ Capacity <= Earned(watched) + Windfall
        /\ watched \notin Kept /\ IdleTtl <= advanced - n * IdleTtl
    <3>1. /\ now - updatedAt[watched] >= IdleTtl
          /\ now - updatedAt[watched] <= advanced - n * IdleTtl
      BY <1>1, <1>2, <1>5, LevelIsEarned DEF IdleTimesFit
    <3> QED
      BY <1>2, <1>5, <3>1, LevelIsEarned, OneMoreIdleTime
  <2>2. (n + 1) * IdleTtl <= advanced /\ n + 1 <= (n + 1) * IdleTtl
    BY <1>2, <2>1, OneMoreIdleTime
  <2>3. granted + Level(watched) <= Capacity + Refill * advanced + Windfall * (n + 1)
    BY <1>1, <1>2, <2>1, OneMoreIdleTime DEF Balanced
  <2>4. n + 1 \in 0 .. advanced
    BY <1>2, <2>2, OneMoreIdleTime
  <2> QED
    BY <2>1, <2>2, <2>3, <2>4 DEF Balanced
<1> QED
  BY <1>3, <1>4, <1>5

\* The conjuncts of AdmissionTypeOK about the limiter.
LimiterOK ==
  /\ now \in 0 .. MaxTime
  /\ tracked \subseteq Key
  /\ Cardinality(tracked \ {Overflow}) <= MaxClients
  /\ tokens \in [Key -> 0 .. Capacity]
  /\ updatedAt \in [Key -> 0 .. MaxTime]
  /\ nextSweepAt \in 0 .. MaxTime + SweepInterval
  /\ watched \in Key /\ granted \in Nat /\ advanced \in 0 .. Horizon

LEMMA BucketOfIsAKey ==
  ASSUME NEW c \in Client
  PROVE  BucketOf(c) \in {c, Overflow} /\ BucketOf(c) \in Key
BY DEF BucketOf, Key

LEMMA ClientsStayBounded ==
  ASSUME AdmissionTypeOK, NEW c \in Client
  PROVE  Cardinality((Kept \cup {BucketOf(c)}) \ {Overflow}) <= MaxClients
<1> DEFINE own == Kept \ {Overflow}
<1>1. IsFiniteSet(tracked \ {Overflow})
  BY AdmissionAssumption, FS_Subset DEF AdmissionTypeOK, Key
<1>2. /\ IsFiniteSet(own) /\ Cardinality(own) \in Nat
      /\ Cardinality(own) <= MaxClients
  BY <1>1, FS_Subset, FS_CardinalityType, ConstantsTyped DEF AdmissionTypeOK, Kept
<1>3. CASE c \in Kept \/ BucketOf(c) = Overflow
  <2>1. (Kept \cup {BucketOf(c)}) \ {Overflow} = own
    BY <1>3 DEF BucketOf
  <2> QED
    BY <1>2, <2>1
<1>4. CASE c \notin Kept /\ BucketOf(c) # Overflow
  <2>1. c \notin own /\ Cardinality(own) < MaxClients /\ BucketOf(c) = c
    BY <1>4 DEF BucketOf
  <2>2. (Kept \cup {BucketOf(c)}) \ {Overflow} = own \cup {c}
    BY <1>4, <2>1
  <2>3. Cardinality(own \cup {c}) = Cardinality(own) + 1
    BY <1>2, <2>1, FS_AddElement
  <2> QED
    BY <1>2, <2>1, <2>2, <2>3, ConstantsTyped
<1> QED
  BY <1>3, <1>4

LEMMA consumeKeepsLimiter ==
  ASSUME AdmissionTypeOK, NEW c \in Client, NEW spent \in Nat, spent <= Level(BucketOf(c)),
         consume(c, spent)
  PROVE  LimiterOK'
<1> DEFINE k == BucketOf(c)
<1>1. /\ k \in Key /\ Level(k) \in 0 .. Capacity
      /\ EffectiveNow(k) \in 0 .. MaxTime
  BY BucketOfIsAKey, LevelIsEarned DEF EffectiveNow, AdmissionTypeOK
<1>2. Level(k) - spent \in 0 .. Capacity
  BY <1>1, ConstantsTyped
<1>3. /\ tracked' = Kept \cup {k}
      /\ tokens' = [j \in Key |-> IF j = k THEN Level(k) - spent ELSE IF j \in Kept THEN tokens[j] ELSE 0]
      /\ updatedAt' = [j \in Key |-> IF j = k THEN EffectiveNow(k) ELSE IF j \in Kept THEN updatedAt[j] ELSE 0]
      /\ nextSweepAt' \in {nextSweepAt, now + SweepInterval}
      /\ granted' \in {granted + spent, granted}
      /\ UNCHANGED <<now, watched, advanced>>
  BY DEF consume
<1>4. tracked' \subseteq Key
  BY <1>1, <1>3 DEF Kept, AdmissionTypeOK
<1>5. Cardinality(tracked' \ {Overflow}) <= MaxClients
  BY <1>3, ClientsStayBounded
<1>6. tokens' \in [Key -> 0 .. Capacity]
  BY <1>2, <1>3, ConstantsTyped DEF AdmissionTypeOK
<1>7. updatedAt' \in [Key -> 0 .. MaxTime]
  BY <1>1, <1>3, ConstantsTyped DEF AdmissionTypeOK
<1>8. nextSweepAt' \in 0 .. MaxTime + SweepInterval
  BY <1>3, ConstantsTyped DEF AdmissionTypeOK
<1>9. granted' \in Nat
  BY <1>3 DEF AdmissionTypeOK
<1> QED
  BY <1>3, <1>4, <1>5, <1>6, <1>7, <1>8, <1>9 DEF AdmissionTypeOK, LimiterOK

LEMMA consumeKeepsBudget ==
  ASSUME AdmissionTypeOK, BudgetInv, NEW c \in Client, NEW spent \in Nat, spent <= Level(BucketOf(c)),
         consume(c, spent)
  PROVE  BudgetInv'
<1> DEFINE k == BucketOf(c)
<1>1. /\ k \in Key /\ Level(k) \in 0 .. Capacity /\ Level(watched) \in 0 .. Capacity
      /\ EffectiveNow(k) \in Nat /\ now \in Nat /\ EffectiveNow(k) >= now
      /\ watched \in Key /\ granted \in Nat /\ advanced \in Nat /\ Earned(watched) \in 0 .. Capacity
  BY BucketOfIsAKey, LevelIsEarned, ConstantsTyped DEF EffectiveNow, AdmissionTypeOK
<1>2. /\ tracked' = Kept \cup {k}
      /\ tokens' = [j \in Key |-> IF j = k THEN Level(k) - spent ELSE IF j \in Kept THEN tokens[j] ELSE 0]
      /\ updatedAt' = [j \in Key |-> IF j = k THEN EffectiveNow(k) ELSE IF j \in Kept THEN updatedAt[j] ELSE 0]
      /\ granted' = IF k = watched THEN granted + spent ELSE granted
      /\ UNCHANGED <<now, watched, advanced>>
  BY DEF consume
<1>3. PICK n \in 0 .. advanced :
        /\ Balanced(n, Level(watched))
        /\ \/ granted = 0 /\ n = 0
           \/ watched \in Kept => now - updatedAt[watched] <= advanced - n * IdleTtl
  BY SweepKeepsBudget
\* What is spent goes from the bucket to what is granted.
<1>4. granted' + Earned(watched)' = granted + Level(watched)
  <2>1. CASE k = watched
    <3>1. /\ watched' \in tracked'
          /\ tokens'[watched'] = Level(k) - spent
          /\ updatedAt'[watched'] = EffectiveNow(k)
      BY <1>1, <1>2, <2>1
    <3>2. (IF updatedAt'[watched'] > now' THEN updatedAt'[watched'] ELSE now') - updatedAt'[watched'] = 0
      BY <1>1, <1>2, <3>1
    <3>3. Earned(watched)' = Smaller(Capacity, Level(k) - spent + Refill * 0)
      BY <3>1, <3>2 DEF Earned
    <3>4. Earned(watched)' = Level(k) - spent
      BY <1>1, <3>3, ConstantsTyped DEF Smaller
    <3> QED
      BY <1>1, <1>2, <2>1, <3>4
  <2>2. CASE k # watched /\ watched \in Kept
    <3>1. /\ watched' \in tracked' /\ watched \in tracked /\ watched \notin Expired
          /\ tokens'[watched'] = tokens[watched]
          /\ updatedAt'[watched'] = updatedAt[watched]
      BY <1>1, <1>2, <2>2 DEF Kept
    <3>2. Earned(watched)' = Earned(watched)
      BY <1>2, <3>1 DEF Earned
    <3> QED
      BY <1>1, <1>2, <2>2, <3>1, <3>2, LevelIsEarned
  <2>3. CASE k # watched /\ watched \notin Kept
    <3>1. Level(watched) = Capacity /\ watched' \notin tracked'
      BY <1>2, <2>3 DEF Level
    <3>2. Earned(watched)' = Capacity
      BY <3>1 DEF Earned
    <3> QED
      BY <1>2, <2>3, <3>1, <3>2
  <2> QED
    BY <2>1, <2>2, <2>3
<1>5. Balanced(n, Earned(watched))'
  <2>1. n' = n /\ Capacity' = Capacity /\ Windfall' = Windfall
    BY DEF Windfall
  <2> QED
    BY <1>2, <1>3, <1>4 DEF Balanced, Windfall
<1>6. IdleTimesFit(n)'
  <2>1. CASE k = watched
    <3>1. updatedAt'[watched'] = EffectiveNow(k)
      BY <1>1, <1>2, <2>1
    <3>2. now' - updatedAt'[watched'] <= 0
      BY <1>1, <1>2, <3>1
    <3>3. advanced' - n * IdleTtl >= 0 /\ n * IdleTtl \in Nat
      BY <1>1, <1>2, <1>3, OneMoreIdleTime DEF Balanced
    <3> QED
      BY <1>1, <1>2, <3>1, <3>2, <3>3 DEF IdleTimesFit
  <2>2. CASE k # watched
    <3>1. watched' \in tracked' => watched \in Kept /\ updatedAt'[watched'] = updatedAt[watched]
      BY <1>1, <1>2, <2>2
    <3> QED
      BY <1>2, <1>3, <2>2, <3>1 DEF IdleTimesFit
  <2> QED
    BY <2>1, <2>2
<1> QED
  BY <1>2, <1>5, <1>6 DEF BudgetInv

LEMMA TickKeepsBudget ==
  ASSUME AdmissionTypeOK, BudgetInv, AdmissionTick
  PROVE  BudgetInv'
<1> DEFINE since == (IF updatedAt[watched] > now THEN updatedAt[watched] ELSE now) - updatedAt[watched]
           sinceThen == (IF updatedAt[watched] > now + 1 THEN updatedAt[watched] ELSE now + 1) - updatedAt[watched]
<1>1. /\ now \in Nat /\ watched \in Key /\ updatedAt[watched] \in Nat /\ tokens[watched] \in Nat
      /\ advanced \in Nat /\ granted \in Nat /\ Capacity \in Nat /\ Refill \in Nat
  BY ConstantsTyped DEF AdmissionTypeOK
<1>2. /\ now' = now + 1 /\ advanced' = advanced + 1
      /\ UNCHANGED <<tracked, tokens, updatedAt, watched, granted>>
  BY DEF AdmissionTick, buckets
<1>3. Refill * (advanced + 1) = Refill * advanced + Refill /\ Refill * advanced \in Int
  BY <1>1, RefillOfOneMore
<1>4. Earned(watched) \in Int /\ Earned(watched)' \in Int
      /\ Earned(watched)' <= Earned(watched) + Refill
  <2>1. CASE watched \in tracked
    <3>1. since \in Nat /\ sinceThen \in Nat /\ sinceThen <= since + 1
      BY <1>1
    <3>2. /\ Earned(watched) = Smaller(Capacity, tokens[watched] + Refill * since)
          /\ Earned(watched)' = Smaller(Capacity, tokens[watched] + Refill * sinceThen)
      BY <1>2, <2>1 DEF Earned
    <3> HIDE DEF since, sinceThen
    <3>3. /\ Refill * sinceThen <= Refill * since + Refill
          /\ Refill * since \in Int /\ Refill * sinceThen \in Int
      <4>1. Refill * (since + 1) = Refill * since + Refill
        BY <3>1, RefillOfOneMore
      <4>2. Refill * sinceThen <= Refill * (since + 1)
        BY <3>1, RefillGrows
      <4> QED
        BY <1>1, <3>1, <4>1, <4>2
    <3> QED
      BY <1>1, <3>2, <3>3 DEF Smaller
  <2>2. CASE watched \notin tracked
    BY <1>1, <1>2, <2>2 DEF Earned
  <2> QED
    BY <2>1, <2>2
<1>5. PICK n \in 0 .. advanced : Balanced(n, Earned(watched)) /\ IdleTimesFit(n)
  BY DEF BudgetInv
<1>6. n \in Nat /\ n * IdleTtl \in Nat /\ Windfall * n \in Nat
  BY <1>1, <1>5, OneMoreIdleTime
<1>7. Balanced(n, Earned(watched))'
  BY <1>1, <1>2, <1>3, <1>4, <1>5, <1>6 DEF Balanced, Windfall
<1>8. IdleTimesFit(n)'
  BY <1>1, <1>2, <1>5, <1>6 DEF IdleTimesFit
<1> QED
  BY <1>1, <1>2, <1>5, <1>7, <1>8 DEF BudgetInv

LEMMA SetBackKeepsBudget ==
  ASSUME AdmissionTypeOK, BudgetInv, SetBack
  PROVE  BudgetInv'
<1> DEFINE since == (IF updatedAt[watched] > now THEN updatedAt[watched] ELSE now) - updatedAt[watched]
           sinceThen == (IF updatedAt[watched] > now' THEN updatedAt[watched] ELSE now') - updatedAt[watched]
<1>1. /\ now \in Nat /\ watched \in Key /\ updatedAt[watched] \in Nat /\ tokens[watched] \in Nat
      /\ granted \in Nat /\ Capacity \in Nat /\ Refill \in Nat /\ advanced \in Nat
  BY ConstantsTyped DEF AdmissionTypeOK
<1>2. /\ now' \in 0 .. now - 1
      /\ UNCHANGED <<tracked, tokens, updatedAt, watched, granted, advanced>>
  BY DEF SetBack, buckets, observation
<1>3. /\ Earned(watched) \in Int /\ Earned(watched)' \in Int
      /\ Earned(watched)' <= Earned(watched)
  <2>1. CASE watched \in tracked
    <3>1. since \in Nat /\ sinceThen \in Nat /\ sinceThen <= since
      BY <1>1, <1>2
    <3>2. /\ Earned(watched) = Smaller(Capacity, tokens[watched] + Refill * since)
          /\ Earned(watched)' = Smaller(Capacity, tokens[watched] + Refill * sinceThen)
      BY <1>2, <2>1 DEF Earned
    <3> HIDE DEF since, sinceThen
    <3>3. /\ Refill * sinceThen <= Refill * since
          /\ Refill * since \in Int /\ Refill * sinceThen \in Int
      BY <1>1, <3>1, RefillGrows
    <3> QED
      BY <1>1, <3>2, <3>3 DEF Smaller
  <2>2. CASE watched \notin tracked
    BY <1>1, <1>2, <2>2 DEF Earned
  <2> QED
    BY <2>1, <2>2
<1>4. Refill * advanced \in Int
  BY <1>1
<1>5. PICK n \in 0 .. advanced : Balanced(n, Earned(watched)) /\ IdleTimesFit(n)
  BY DEF BudgetInv
<1>6. n \in Nat /\ n * IdleTtl \in Nat /\ Windfall * n \in Nat
  BY <1>1, <1>5, OneMoreIdleTime
<1>7. Balanced(n, Earned(watched))'
  BY <1>1, <1>2, <1>3, <1>4, <1>5, <1>6 DEF Balanced, Windfall
<1>8. IdleTimesFit(n)'
  BY <1>1, <1>2, <1>5, <1>6 DEF IdleTimesFit
<1> QED
  BY <1>2, <1>5, <1>7, <1>8 DEF BudgetInv

\* An observation begins with a budget that is not used yet.
LEMMA AnewIsInBudget ==
  ASSUME granted = 0, advanced = 0, Earned(watched) \in 0 .. Capacity
  PROVE  BudgetInv
<1>1. /\ 0 * IdleTtl = 0 /\ Refill * 0 = 0 /\ Windfall * 0 = 0 /\ Capacity \in Nat
  BY ConstantsTyped, WindfallTyped
<1>2. Balanced(0, Earned(watched)) /\ IdleTimesFit(0)
  BY <1>1 DEF Balanced, IdleTimesFit
<1> QED
  BY <1>2 DEF BudgetInv

LEMMA AnewIsInBudgetNext ==
  ASSUME granted' = 0, advanced' = 0, Earned(watched)' \in 0 .. Capacity
  PROVE  BudgetInv'
<1>1. /\ 0 * IdleTtl = 0 /\ Refill * 0 = 0 /\ Windfall * 0 = 0 /\ Capacity \in Nat
  BY ConstantsTyped, WindfallTyped
<1>2. Balanced(0, Earned(watched))' /\ IdleTimesFit(0)'
  BY <1>1 DEF Balanced, IdleTimesFit, Windfall
<1> QED
  BY <1>2 DEF BudgetInv

LEMMA ObserveKeepsBudget ==
  ASSUME AdmissionTypeOK, Observe
  PROVE  BudgetInv'
<1>1. /\ watched' \in Key /\ granted' = 0 /\ advanced' = 0
      /\ UNCHANGED <<now, tracked, tokens, updatedAt>>
  BY DEF Observe, buckets
<1>2. Earned(watched)' \in 0 .. Capacity
  <2>1. PICK k \in Key : k = watched'
    BY <1>1
  <2>2. Earned(watched)' = Earned(k)
    BY <1>1, <2>1 DEF Earned
  <2> QED
    BY <2>2, LevelIsEarned
<1> QED
  BY <1>1, <1>2, AnewIsInBudgetNext

-----------------------------------------------------------------------------
(* Handlers *)

\* The conjuncts of AdmissionTypeOK about the handlers, and what counts them.
HandlersOK ==
  /\ active \in Nat /\ inFlight \in Nat
  /\ handler \in [Request -> [at: {"idle", "body", "application"}, slot: BOOLEAN]]
  /\ \A r \in Request : handler[r].slot => handler[r].at # "idle"
  /\ SlotsMatchHandlers

Slots == {r \in Request : handler[r].slot}

Running == {r \in Request : handler[r].at # "idle"}

LEMMA HandlersCounted ==
  ASSUME HandlersOK
  PROVE  /\ IsFiniteSet(Slots) /\ IsFiniteSet(Running)
         /\ active = Cardinality(Slots) /\ inFlight = Cardinality(Running)
<1>1. Slots \in SUBSET Request /\ Running \in SUBSET Request
  BY DEF Slots, Running
<1> QED
  BY <1>1, AdmissionAssumption, FS_Subset DEF HandlersOK, SlotsMatchHandlers, Slots, Running

LEMMA StartsKeeps ==
  ASSUME HandlersOK, NEW r \in Request, NEW at \in {"body", "application"}, NEW slot \in BOOLEAN,
         Starts(r, [at |-> at, slot |-> slot]),
         slot => active < Maximum /\ active' = active + 1,
         ~slot => active' = active
  PROVE  HandlersOK'
<1>1. /\ handler[r].at = "idle" /\ ~handler[r].slot
      /\ handler' \in [Request -> [at: {"idle", "body", "application"}, slot: BOOLEAN]]
      /\ handler'[r].at = at /\ handler'[r].slot = slot
      /\ \A u \in Request \ {r} : handler'[u] = handler[u]
      /\ inFlight' = inFlight + 1
  BY DEF Starts, HandlersOK
<1>2. Running' = Running \cup {r} /\ r \notin Running
  BY <1>1 DEF Running
<1>3. r \notin Slots /\ Slots' = IF slot THEN Slots \cup {r} ELSE Slots
  BY <1>1 DEF Slots
<1>4. Cardinality(Running') = Cardinality(Running) + 1
  BY <1>2, HandlersCounted, FS_AddElement
<1>5. Cardinality(Slots') = IF slot THEN Cardinality(Slots) + 1 ELSE Cardinality(Slots)
  BY <1>3, HandlersCounted, FS_AddElement
<1>6. active' = Cardinality(Slots') /\ inFlight' = Cardinality(Running')
  BY <1>1, <1>4, <1>5, HandlersCounted
<1>7. active' \in Nat /\ active' <= Maximum /\ inFlight' \in Nat
  BY <1>1, ConstantsTyped DEF HandlersOK, SlotsMatchHandlers
<1>8. \A u \in Request : handler'[u].slot => handler'[u].at # "idle"
  BY <1>1 DEF HandlersOK
<1> QED
  BY <1>1, <1>6, <1>7, <1>8 DEF HandlersOK, SlotsMatchHandlers, Slots, Running

LEMMA FinishKeeps ==
  ASSUME HandlersOK, NEW r \in Request, Finish(r)
  PROVE  HandlersOK'
<1>1. /\ handler[r].at # "idle" /\ handler[r].slot \in BOOLEAN
      /\ handler' \in [Request -> [at: {"idle", "body", "application"}, slot: BOOLEAN]]
      /\ handler'[r].at = "idle" /\ handler'[r].slot = FALSE
      /\ \A u \in Request \ {r} : handler'[u] = handler[u]
      /\ inFlight' = inFlight - 1
      /\ active' = IF handler[r].slot THEN active - 1 ELSE active
  BY DEF Finish, HandlersOK
<1>2. Running' = Running \ {r} /\ r \in Running
  BY <1>1 DEF Running
<1>3. Slots' = Slots \ {r} /\ (r \in Slots <=> handler[r].slot)
  BY <1>1 DEF Slots
<1>4. Cardinality(Running') = Cardinality(Running) - 1
  BY <1>2, HandlersCounted, FS_RemoveElement
<1>5. Cardinality(Slots') = IF r \in Slots THEN Cardinality(Slots) - 1 ELSE Cardinality(Slots)
  BY <1>3, HandlersCounted, FS_RemoveElement
<1>6. active' = Cardinality(Slots') /\ inFlight' = Cardinality(Running')
  BY <1>1, <1>3, <1>4, <1>5, HandlersCounted
<1>7. active' \in Nat /\ inFlight' \in Nat
  <2>1. IsFiniteSet(Slots') /\ IsFiniteSet(Running')
    BY <1>2, <1>3, HandlersCounted, FS_RemoveElement
  <2> QED
    BY <1>6, <2>1, FS_CardinalityType
<1>8. active' <= Maximum
  BY <1>1, ConstantsTyped DEF HandlersOK, SlotsMatchHandlers
<1>9. \A u \in Request : handler'[u].slot => handler'[u].at # "idle"
  BY <1>1 DEF HandlersOK
<1> QED
  BY <1>1, <1>6, <1>7, <1>8, <1>9 DEF HandlersOK, SlotsMatchHandlers, Slots, Running

LEMMA ReadBodyKeeps ==
  ASSUME HandlersOK, NEW r \in Request, ReadBody(r)
  PROVE  HandlersOK'
<1>1. /\ handler[r].at # "idle"
      /\ handler' \in [Request -> [at: {"idle", "body", "application"}, slot: BOOLEAN]]
      /\ handler'[r].at # "idle" /\ handler'[r].slot = handler[r].slot
      /\ \A u \in Request \ {r} : handler'[u] = handler[u]
      /\ UNCHANGED <<active, inFlight>>
  BY DEF ReadBody, HandlersOK
<1>2. Running' = Running /\ Slots' = Slots
  BY <1>1 DEF Running, Slots
<1>3. \A u \in Request : handler'[u].slot => handler'[u].at # "idle"
  BY <1>1 DEF HandlersOK
<1> QED
  BY <1>1, <1>2, <1>3 DEF HandlersOK, SlotsMatchHandlers, Slots, Running

-----------------------------------------------------------------------------
(* Theorems *)

LEMMA IInvInParts == IInv <=> LimiterOK /\ HandlersOK /\ BudgetInv
BY DEF IInv, AdmissionTypeOK, LimiterOK, HandlersOK

LEMMA IInvNextInParts == IInv' <=> LimiterOK' /\ HandlersOK' /\ BudgetInv'
BY DEF IInv, AdmissionTypeOK, LimiterOK, HandlersOK

LEMMA InitEstablishes == AdmissionInit => IInv
<1> SUFFICES ASSUME AdmissionInit PROVE IInv
  OBVIOUS
<1>1. tracked \ {Overflow} = {} /\ Cardinality({}) = 0
  BY FS_EmptySet DEF AdmissionInit
<1>2. LimiterOK
  BY <1>1, ConstantsTyped DEF AdmissionInit, Unused, LimiterOK, Key
<1>3. {r \in Request : handler[r].slot} = {} /\ {r \in Request : handler[r].at # "idle"} = {}
  BY DEF AdmissionInit, AllIdle
<1>4. SlotsMatchHandlers
  <2>1. /\ Cardinality({r \in Request : handler[r].slot}) = 0
        /\ Cardinality({r \in Request : handler[r].at # "idle"}) = 0
    BY <1>1, <1>3, Zenon
  <2>2. active = 0 /\ inFlight = 0 /\ 0 <= Maximum
    BY ConstantsTyped DEF AdmissionInit
  <2> QED
    BY <2>1, <2>2 DEF SlotsMatchHandlers
<1>5. HandlersOK
  BY <1>4 DEF AdmissionInit, AllIdle, HandlersOK
<1>6. Earned(watched) \in 0 .. Capacity
  BY ConstantsTyped DEF AdmissionInit, Earned
<1>7. BudgetInv
  BY <1>6, AnewIsInBudget DEF AdmissionInit
<1> QED
  BY <1>2, <1>5, <1>7, IInvInParts

\* A process that begins anew begins as the first one did.
LEMMA AnewKeeps ==
  ASSUME AdmissionTypeOK, NEW r \in Request, BadTarget(r)
  PROVE  LimiterOK' /\ HandlersOK' /\ BudgetInv'
<1>0. /\ tracked' = {} /\ tokens' = Unused /\ updatedAt' = Unused /\ nextSweepAt' = 0
      /\ active' = 0 /\ inFlight' = 0 /\ handler' = AllIdle
      /\ watched' \in Key /\ granted' = 0 /\ advanced' = 0
      /\ now' = now /\ now \in 0 .. MaxTime
  BY DEF BadTarget, AdmissionTypeOK
<1>1. tracked' \ {Overflow} = {} /\ Cardinality({}) = 0
  BY <1>0, FS_EmptySet
<1>2. LimiterOK'
  BY <1>0, <1>1, ConstantsTyped DEF Unused, LimiterOK, Key
<1>3. {u \in Request : handler'[u].slot} = {} /\ {u \in Request : handler'[u].at # "idle"} = {}
  BY <1>0 DEF AllIdle
<1>4. SlotsMatchHandlers'
  <2>1. /\ Cardinality({u \in Request : handler'[u].slot}) = 0
        /\ Cardinality({u \in Request : handler'[u].at # "idle"}) = 0
    BY <1>1, <1>3, Zenon
  <2>2. 0 <= Maximum
    BY ConstantsTyped
  <2> QED
    BY <1>0, <2>1, <2>2 DEF SlotsMatchHandlers
<1>5. HandlersOK'
  BY <1>0, <1>4 DEF AllIdle, HandlersOK
<1>6. Earned(watched)' \in 0 .. Capacity
  BY <1>0, ConstantsTyped DEF Earned
<1> QED
  BY <1>0, <1>2, <1>5, <1>6, AnewIsInBudgetNext

LEMMA NextKeeps == IInv /\ [AdmissionNext]_admissionVars => IInv'
<1> SUFFICES ASSUME IInv, [AdmissionNext]_admissionVars PROVE LimiterOK' /\ HandlersOK' /\ BudgetInv'
  BY IInvNextInParts
<1>0. AdmissionTypeOK /\ LimiterOK /\ HandlersOK /\ BudgetInv
  BY IInvInParts DEF IInv
\* Steps that leave the limiter and its observation alone.
<1>1. ASSUME UNCHANGED <<now, buckets, observation>>
      PROVE  LimiterOK' /\ BudgetInv'
  <2>1. LimiterOK'
    BY <1>0, <1>1 DEF buckets, observation, LimiterOK
  <2>2. PICK n \in 0 .. advanced : Balanced(n, Earned(watched)) /\ IdleTimesFit(n)
    BY <1>0 DEF BudgetInv
  <2>3. Earned(watched)' = Earned(watched)
    BY <1>1 DEF buckets, observation, Earned
  <2>4. Balanced(n, Earned(watched))' /\ IdleTimesFit(n)'
    BY <1>1, <2>2, <2>3 DEF buckets, observation, Balanced, IdleTimesFit, Windfall
  <2> QED
    BY <1>1, <2>1, <2>2, <2>4 DEF observation, BudgetInv
\* Steps that leave the handlers alone.
<1>2. ASSUME UNCHANGED <<active, inFlight, handler>>
      PROVE  HandlersOK'
  BY <1>0, <1>2 DEF HandlersOK, SlotsMatchHandlers
<1>3. ASSUME NEW r \in Request, Exempt(r)
      PROVE  LimiterOK' /\ HandlersOK' /\ BudgetInv'
  BY <1>0, <1>1, <1>3, StartsKeeps DEF Exempt
<1>4. ASSUME NEW r \in Request, NEW c \in Client, Accept(r, c)
      PROVE  LimiterOK' /\ HandlersOK' /\ BudgetInv'
  <2>1. LimiterOK' /\ BudgetInv'
    BY <1>0, <1>4, ConstantsTyped, consumeKeepsLimiter, consumeKeepsBudget DEF Accept
  <2>2. PICK at \in {"body", "application"} : Starts(r, [at |-> at, slot |-> TRUE])
    BY <1>4 DEF Accept
  <2>3. HandlersOK'
    BY <1>0, <1>4, <2>2, StartsKeeps DEF Accept
  <2> QED
    BY <2>1, <2>3
<1>5. ASSUME NEW c \in Client, RateLimited(c)
      PROVE  LimiterOK' /\ HandlersOK' /\ BudgetInv'
  <2>1. 0 \in Nat /\ 0 <= Level(BucketOf(c))
    BY <1>0, BucketOfIsAKey, LevelIsEarned, ConstantsTyped
  <2> QED
    BY <1>0, <1>2, <1>5, <2>1, consumeKeepsLimiter, consumeKeepsBudget DEF RateLimited
<1>6. ASSUME NEW c \in Client, Overloaded(c)
      PROVE  LimiterOK' /\ HandlersOK' /\ BudgetInv'
  BY <1>0, <1>2, <1>6, ConstantsTyped, consumeKeepsLimiter, consumeKeepsBudget DEF Overloaded
<1>7. ASSUME NEW r \in Request, ReadBody(r)
      PROVE  LimiterOK' /\ HandlersOK' /\ BudgetInv'
  BY <1>0, <1>1, <1>7, ReadBodyKeeps DEF ReadBody
<1>8. ASSUME NEW r \in Request, Finish(r)
      PROVE  LimiterOK' /\ HandlersOK' /\ BudgetInv'
  BY <1>0, <1>1, <1>8, FinishKeeps DEF Finish
<1>9. CASE AdmissionTick
  <2>1. LimiterOK'
    BY <1>0, <1>9, ConstantsTyped DEF AdmissionTick, buckets, LimiterOK
  <2> QED
    BY <1>0, <1>2, <1>9, <2>1, TickKeepsBudget DEF AdmissionTick
<1>10. CASE SetBack
  <2>1. LimiterOK'
    BY <1>0, <1>10, ConstantsTyped DEF SetBack, buckets, observation, LimiterOK
  <2> QED
    BY <1>0, <1>2, <1>10, <2>1, SetBackKeepsBudget DEF SetBack
<1>11. CASE Observe
  <2>1. LimiterOK'
    BY <1>0, <1>11, ConstantsTyped DEF Observe, buckets, LimiterOK
  <2> QED
    BY <1>0, <1>2, <1>11, <2>1, ObserveKeepsBudget DEF Observe
<1>12. ASSUME NEW r \in Request, BadTarget(r)
       PROVE  LimiterOK' /\ HandlersOK' /\ BudgetInv'
  BY <1>0, <1>12, AnewKeeps DEF BadTarget
<1>13. CASE UNCHANGED admissionVars
  BY <1>1, <1>2, <1>13 DEF admissionVars
<1> QED
  BY <1>3, <1>4, <1>5, <1>6, <1>7, <1>8, <1>9, <1>10, <1>11, <1>12, <1>13 DEF AdmissionNext

\* What a bucket has granted and what it has earned by now are balanced, and
\* the counters count: about TokenBucketRateLimiter, ConcurrencyGate and the
\* request handler of server.ts.
THEOREM Inductive == AdmissionSpec => []IInv
<1> QED
  BY InitEstablishes, NextKeeps, PTL DEF AdmissionSpec

\* Buckets and counters keep their types; no more clients are tracked than
\* maxClients, and no bucket holds less than nothing or more than its capacity.
THEOREM TypeCorrect == AdmissionSpec => []AdmissionTypeOK
<1>1. IInv => AdmissionTypeOK
  BY DEF IInv
<1> QED
  BY <1>1, Inductive, PTL

\* consume() grants from no bucket more than its capacity, what is earned in the
\* time that is looked at, and a windfall for each idle time in it; whenever the
\* look begins, and whatever capacity, rate and idle time are configured.
THEOREM BudgetsAreKept == AdmissionSpec => []BudgetKept
<1>1. IInv => BudgetKept
  <2> SUFFICES ASSUME IInv PROVE BudgetKept
    OBVIOUS
  <2>1. granted \in Nat /\ advanced \in Nat /\ Earned(watched) \in 0 .. Capacity
    BY LevelIsEarned, ConstantsTyped DEF IInv, AdmissionTypeOK
  <2>2. PICK n \in 0 .. advanced : Balanced(n, Earned(watched))
    BY DEF IInv, BudgetInv
  <2>3. Refill * advanced \in Int /\ Windfall * n \in Nat
    BY <2>1, ConstantsTyped, OneMoreIdleTime
  <2> QED
    BY <2>1, <2>2, <2>3, ConstantsTyped DEF Balanced, BudgetKept
<1> QED
  BY <1>1, Inductive, PTL

\* With an idle time in which a bucket fills up, as the defaults have it, no
\* bucket grants more than it can hold and earns.
COROLLARY NoWindfall ==
  ASSUME Refill * IdleTtl >= Capacity
  PROVE  AdmissionSpec => [](granted <= Capacity + Refill * advanced)
<1>1. Windfall = 0
  BY ConstantsTyped DEF Windfall, Smaller
<1>2. AdmissionTypeOK /\ BudgetKept => granted <= Capacity + Refill * advanced
  <2> SUFFICES ASSUME AdmissionTypeOK, NEW n \in 0 .. advanced,
                      granted <= Capacity + Refill * advanced + Windfall * n
               PROVE  granted <= Capacity + Refill * advanced
    BY DEF BudgetKept
  <2>1. Windfall * n = 0
    BY <1>1
  <2>2. Capacity + Refill * advanced \in Int
    BY ConstantsTyped DEF AdmissionTypeOK
  <2> QED
    BY <2>1, <2>2
<1> QED
  BY <1>2, TypeCorrect, BudgetsAreKept, PTL

\* The gate's counter and the gauge of requests in flight equal the number of
\* handlers under way, on every path through the handler.
THEOREM CountersAreTrue == AdmissionSpec => []SlotsMatchHandlers
<1>1. IInv => SlotsMatchHandlers
  BY DEF IInv
<1> QED
  BY <1>1, Inductive, PTL
=============================================================================

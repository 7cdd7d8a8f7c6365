----------------------- MODULE RedisAccountStateProofs -----------------------
(***************************************************************************)
(* What RedisAccountState guarantees for any number of accounts, callers   *)
(* and ticks.                                                              *)
(***************************************************************************)
EXTENDS RedisAccountState, FiniteSetTheorems, TLAPS

\* Types are kept by every command.
LEMMA TypeStep == TypeOK /\ [Next]_redisVars => TypeOK'
<1> USE NoAccountAssumption, NoKeyAssumption, TimeAssumption,
        TicksAssumption, RetryAssumption
<1> SUFFICES ASSUME TypeOK, [Next]_redisVars PROVE TypeOK'
  OBVIOUS
<1>1. CASE Tick
  BY <1>1 DEF TypeOK, Tick
<1>2. CASE Restart
  BY <1>2 DEF TypeOK, Restart
<1>3. ASSUME NEW c \in Callers, NEW a \in Accounts, Acquire(c, a)
      PROVE  TypeOK'
  BY <1>3 DEF TypeOK, Acquire
<1>4. ASSUME NEW c \in Callers, ReleaseDecr(c)
      PROVE  TypeOK'
  <2>1. acct[c] \in Accounts /\ conn[acct[c]] \in Int
    BY <1>4 DEF TypeOK, ReleaseDecr
  <2>2. conn' \in [Accounts -> Int]
    BY <1>4, <2>1 DEF TypeOK, ReleaseDecr
  <2>3. /\ pc' \in [Callers -> {"idle", "held", "clamp"}]
        /\ acct' \in [Callers -> Accounts \cup {NoAccount}]
        /\ \A d \in Callers : pc'[d] # "idle" => acct'[d] \in Accounts
    BY <1>4, <2>1 DEF TypeOK, ReleaseDecr
  <2> QED
    BY <1>4, <2>2, <2>3 DEF TypeOK, ReleaseDecr
<1>5. ASSUME NEW c \in Callers, ReleaseClamp(c)
      PROVE  TypeOK'
  BY <1>5 DEF TypeOK, ReleaseClamp
<1>6. ASSUME NEW a \in Accounts, MarkRateLimited(a)
      PROVE  TypeOK'
  <2>1. PICK ra \in RetryAfters :
          expiry' = IF ra >= 1
                      THEN [expiry EXCEPT ![a] = now + ra * TicksPerSecond]
                      ELSE expiry
    BY <1>6 DEF MarkRateLimited
  <2>2. now + ra * TicksPerSecond \in Int
    BY DEF TypeOK
  <2>3. expiry' \in [Accounts -> Int \cup {NoKey}]
    BY <2>1, <2>2 DEF TypeOK
  <2> QED
    BY <1>6, <2>3 DEF TypeOK, MarkRateLimited
<1>7. ASSUME NEW a \in Accounts, RestoreRateLimit(a)
      PROVE  TypeOK'
  <2> DEFINE ttl(u) == (u - now) \div TicksPerSecond
  <2>1. PICK u \in Deadlines :
          expiry' = IF u > now /\ ttl(u) >= 1
                      THEN [expiry EXCEPT ![a] = now + ttl(u) * TicksPerSecond]
                      ELSE expiry
    BY <1>7 DEF RestoreRateLimit
  <2>2. ttl(u) \in Int
    BY DEF TypeOK
  <2>3. now + ttl(u) * TicksPerSecond \in Int
    BY <2>2 DEF TypeOK
  <2>4. expiry' \in [Accounts -> Int \cup {NoKey}]
    BY <2>1, <2>3 DEF TypeOK
  <2> QED
    BY <1>7, <2>4 DEF TypeOK, RestoreRateLimit
<1>8. ASSUME NEW a \in Accounts, ClearRateLimit(a) \/ Expire(a)
      PROVE  TypeOK'
  BY <1>8 DEF TypeOK, ClearRateLimit, Expire
<1>9. CASE UNCHANGED redisVars
  BY <1>9 DEF TypeOK, redisVars
<1> QED
  BY <1>1, <1>2, <1>3, <1>4, <1>5, <1>6, <1>7, <1>8, <1>9 DEF Next

LEMMA TypeInit == Init => TypeOK
<1> SUFFICES ASSUME Init PROVE TypeOK
  OBVIOUS
<1>1. wiped \in BOOLEAN
  BY Zenon DEF Init
<1> QED
  BY <1>1 DEF Init, TypeOK

\* Type correctness of the Redis state manager.
THEOREM TypeCorrect == Spec => []TypeOK
<1>1. Init => TypeOK
  BY TypeInit
<1>2. TypeOK /\ [Next]_redisVars => TypeOK'
  BY TypeStep
<1> QED
  BY <1>1, <1>2, PTL DEF Spec

-----------------------------------------------------------------------------
\* The sets of holders are finite, and their sizes natural numbers.
LEMMA HoldersFinite ==
  \A a \in Accounts : /\ IsFiniteSet(Holders(a))
                      /\ Cardinality(Holders(a)) \in Nat
<1> SUFFICES ASSUME NEW a \in Accounts
             PROVE  IsFiniteSet(Holders(a)) /\ Cardinality(Holders(a)) \in Nat
  OBVIOUS
<1>1. Holders(a) \subseteq Callers
  BY DEF Holders
<1> QED
  BY <1>1, CallersAssumption, FS_Subset, FS_CardinalityType

\* Acquiring adds one holder to its account and none to the others.
LEMMA HoldersAcquire ==
  ASSUME TypeOK, NEW c \in Callers, NEW a \in Accounts, Acquire(c, a)
  PROVE  \A b \in Accounts :
           Cardinality(Holders(b)')
             = Cardinality(Holders(b)) + (IF b = a THEN 1 ELSE 0)
<1> SUFFICES ASSUME NEW b \in Accounts
             PROVE  Cardinality(Holders(b)')
                      = Cardinality(Holders(b)) + (IF b = a THEN 1 ELSE 0)
  OBVIOUS
<1>1. IsFiniteSet(Holders(b)) /\ Cardinality(Holders(b)) \in Nat
  BY HoldersFinite
<1>2. CASE b = a
  <2>1. Holders(b)' = Holders(b) \cup {c} /\ c \notin Holders(b)
    BY <1>2 DEF Holders, Acquire, TypeOK
  <2> QED
    BY <2>1, <1>1, <1>2, FS_AddElement
<1>3. CASE b # a
  <2>1. Holders(b)' = Holders(b)
    BY <1>3 DEF Holders, Acquire, TypeOK
  <2> QED
    BY <2>1, <1>1, <1>3
<1> QED
  BY <1>2, <1>3

\* The DECR of a release takes one holder from its account and none from the
\* others.
LEMMA HoldersDecr ==
  ASSUME TypeOK, NEW c \in Callers, ReleaseDecr(c)
  PROVE  \A b \in Accounts :
           Cardinality(Holders(b)')
             = Cardinality(Holders(b)) - (IF b = acct[c] THEN 1 ELSE 0)
<1> SUFFICES ASSUME NEW b \in Accounts
             PROVE  Cardinality(Holders(b)')
                      = Cardinality(Holders(b)) - (IF b = acct[c] THEN 1 ELSE 0)
  OBVIOUS
<1>1. IsFiniteSet(Holders(b)) /\ Cardinality(Holders(b)) \in Nat
  BY HoldersFinite
<1>2. \A d \in Callers : d # c => pc'[d] = pc[d] /\ acct'[d] = acct[d]
  BY DEF ReleaseDecr, TypeOK
<1>3. pc[c] = "held" /\ pc'[c] # "held"
  BY DEF ReleaseDecr, TypeOK
<1>4. CASE b = acct[c]
  <2>1. Holders(b)' = Holders(b) \ {c} /\ c \in Holders(b)
    BY <1>2, <1>3, <1>4 DEF Holders
  <2> QED
    BY <2>1, <1>1, <1>4, FS_RemoveElement
<1>5. CASE b # acct[c]
  <2>1. Holders(b)' = Holders(b)
    BY <1>2, <1>3, <1>5 DEF Holders
  <2> QED
    BY <2>1, <1>1, <1>5
<1> QED
  BY <1>4, <1>5

\* Setting the counter to 0 and every step of the clock, of the rate limits
\* and of Redis itself leave the holders alone.
LEMMA HoldersClamp ==
  ASSUME TypeOK, NEW c \in Callers, ReleaseClamp(c)
  PROVE  \A b \in Accounts : Holders(b)' = Holders(b)
BY DEF ReleaseClamp, Holders, TypeOK

Bystander ==
  \/ Tick
  \/ \E a \in Accounts : \/ MarkRateLimited(a) \/ RestoreRateLimit(a)
                         \/ ClearRateLimit(a) \/ Expire(a)
  \/ UNCHANGED redisVars

LEMMA BystanderLeavesCounters == Bystander => UNCHANGED <<conn, pc, acct>>
BY DEF Bystander, Tick, MarkRateLimited, RestoreRateLimit, ClearRateLimit,
       Expire, redisVars

-----------------------------------------------------------------------------
(* The inductive invariant of a Redis that may lose its data.  The two parts *)
(* bound the counter from above and from below; IdleMeansZero needs both.    *)
Healing == TypeOK /\ NeverOvercounts /\ NegativeIsTransient

LEMMA OvercountStep ==
  TypeOK /\ NeverOvercounts /\ [Next]_redisVars => NeverOvercounts'
<1> SUFFICES ASSUME TypeOK, NeverOvercounts, [Next]_redisVars,
                    NEW b \in Accounts
             PROVE  conn'[b] <= Cardinality(Holders(b)')
  BY DEF NeverOvercounts
<1>1. /\ conn[b] \in Int /\ conn[b] <= Cardinality(Holders(b))
      /\ Cardinality(Holders(b)) \in Nat
  BY HoldersFinite DEF TypeOK, NeverOvercounts
<1>2. CASE Restart
  <2>1. Holders(b)' = Holders(b) /\ conn'[b] = 0
    BY <1>2 DEF Restart, Holders
  <2> QED
    BY <2>1, <1>1
<1>3. ASSUME NEW c \in Callers, NEW a \in Accounts, Acquire(c, a)
      PROVE  conn'[b] <= Cardinality(Holders(b)')
  <2>1. conn'[b] = conn[b] + (IF b = a THEN 1 ELSE 0)
    BY <1>3 DEF Acquire, TypeOK
  <2>2. Cardinality(Holders(b)')
          = Cardinality(Holders(b)) + (IF b = a THEN 1 ELSE 0)
    BY <1>3, HoldersAcquire
  <2> QED
    BY <2>1, <2>2, <1>1
<1>4. ASSUME NEW c \in Callers, ReleaseDecr(c)
      PROVE  conn'[b] <= Cardinality(Holders(b)')
  <2>1. conn'[b] = conn[b] - (IF b = acct[c] THEN 1 ELSE 0)
    BY <1>4 DEF ReleaseDecr, TypeOK
  <2>2. Cardinality(Holders(b)')
          = Cardinality(Holders(b)) - (IF b = acct[c] THEN 1 ELSE 0)
    BY <1>4, HoldersDecr
  <2> QED
    BY <2>1, <2>2, <1>1
<1>5. ASSUME NEW c \in Callers, ReleaseClamp(c)
      PROVE  conn'[b] <= Cardinality(Holders(b)')
  <2>1. conn'[b] = conn[b] \/ conn'[b] = 0
    BY <1>5 DEF ReleaseClamp, TypeOK
  <2>2. Holders(b)' = Holders(b)
    BY <1>5, HoldersClamp
  <2> QED
    BY <2>1, <2>2, <1>1
<1>6. CASE Bystander
  <2>1. conn' = conn /\ Holders(b)' = Holders(b)
    BY <1>6, BystanderLeavesCounters DEF Holders
  <2> QED
    BY <2>1, <1>1
<1> QED
  BY <1>2, <1>3, <1>4, <1>5, <1>6 DEF Next, Bystander

LEMMA TransientStep ==
  TypeOK /\ NegativeIsTransient /\ [Next]_redisVars => NegativeIsTransient'
<1> SUFFICES ASSUME TypeOK, NegativeIsTransient, [Next]_redisVars,
                    NEW b \in Accounts, conn'[b] < 0
             PROVE  Clampers(b)' # {}
  BY DEF NegativeIsTransient
<1>1. conn[b] \in Int /\ (conn[b] < 0 => Clampers(b) # {})
  BY DEF TypeOK, NegativeIsTransient
<1>2. CASE Restart
  BY <1>2 DEF Restart
<1>3. ASSUME NEW c \in Callers, NEW a \in Accounts, Acquire(c, a)
      PROVE  Clampers(b)' # {}
  <2>1. conn[b] < 0
    BY <1>1, <1>3 DEF Acquire, TypeOK
  <2>2. Clampers(b) \subseteq Clampers(b)'
    BY <1>3 DEF Acquire, Clampers, TypeOK
  <2> QED
    BY <2>1, <2>2, <1>1
<1>4. ASSUME NEW c \in Callers, ReleaseDecr(c)
      PROVE  Clampers(b)' # {}
  <2>1. CASE b = acct[c]
    <3>1. c \in Clampers(b)'
      BY <1>1, <1>4, <2>1 DEF ReleaseDecr, Clampers, TypeOK
    <3> QED
      BY <3>1
  <2>2. CASE b # acct[c]
    <3>1. conn[b] < 0
      BY <1>4, <2>2 DEF ReleaseDecr, TypeOK
    <3>2. Clampers(b) \subseteq Clampers(b)'
      BY <1>4 DEF ReleaseDecr, Clampers, TypeOK
    <3> QED
      BY <3>1, <3>2, <1>1
  <2> QED
    BY <2>1, <2>2
<1>5. ASSUME NEW c \in Callers, ReleaseClamp(c)
      PROVE  Clampers(b)' # {}
  <2>1. b # acct[c] /\ conn[b] < 0
    BY <1>5 DEF ReleaseClamp, TypeOK
  <2>2. Clampers(b) \subseteq Clampers(b)'
    BY <1>5, <2>1 DEF ReleaseClamp, Clampers, TypeOK
  <2> QED
    BY <2>1, <2>2, <1>1
<1>6. CASE Bystander
  <2>1. conn' = conn /\ Clampers(b)' = Clampers(b)
    BY <1>6, BystanderLeavesCounters DEF Clampers
  <2> QED
    BY <2>1, <1>1
<1> QED
  BY <1>2, <1>3, <1>4, <1>5, <1>6 DEF Next, Bystander

LEMMA HealingInit == Init => Healing
<1> SUFFICES ASSUME Init PROVE NeverOvercounts /\ NegativeIsTransient
  BY TypeInit DEF Healing
<1>1. ASSUME NEW a \in Accounts
      PROVE  conn[a] <= Cardinality(Holders(a)) /\ ~(conn[a] < 0)
  BY HoldersFinite DEF Init
<1> QED
  BY <1>1 DEF NeverOvercounts, NegativeIsTransient

LEMMA HealingInvariant == Spec => []Healing
<1>1. Healing /\ [Next]_redisVars => Healing'
  BY TypeStep, OvercountStep, TransientStep DEF Healing
<1> QED
  BY HealingInit, <1>1, PTL DEF Spec

\* No account ever looks busier than it is, restarts of Redis included.
THEOREM NoOvercount == Spec => []NeverOvercounts
<1>1. Healing => NeverOvercounts
  BY DEF Healing
<1> QED
  BY HealingInvariant, <1>1, PTL

\* A negative counter is always about to be set to 0.
THEOREM NegativesPass == Spec => []NegativeIsTransient
<1>1. Healing => NegativeIsTransient
  BY DEF Healing
<1> QED
  BY HealingInvariant, <1>1, PTL

\* An account nobody uses has counter 0, however many times Redis came back
\* empty while it was in use.
THEOREM CountersHeal == Spec => []IdleMeansZero
<1>1. Healing => IdleMeansZero
  <2> SUFFICES ASSUME Healing, NEW a \in Accounts,
                      Holders(a) = {}, Clampers(a) = {}
               PROVE  conn[a] = 0
    BY DEF IdleMeansZero
  <2>1. conn[a] \in Int /\ conn[a] <= Cardinality(Holders(a)) /\ ~(conn[a] < 0)
    BY DEF Healing, TypeOK, NeverOvercounts, NegativeIsTransient
  <2>2. Cardinality(Holders(a)) = 0
    BY FS_EmptySet
  <2> QED
    BY <2>1, <2>2
<1> QED
  BY HealingInvariant, <1>1, PTL

-----------------------------------------------------------------------------
(* A Redis that keeps its data.  Then a release never finds the counter at 0: *)
(* the releasing handler itself is counted.  So nobody ever clamps, which is   *)
(* what makes the count exact inductively.                                     *)
NobodyClamps == \A c \in Callers : pc[c] # "clamp"

Counts == \A a \in Accounts : conn[a] = Cardinality(Holders(a))

Exact == TypeOK /\ (wiped \/ (Counts /\ NobodyClamps))

\* Data that was lost once stays lost.
LEMMA WipedForEver == [Next]_redisVars /\ ~wiped' => ~wiped
BY DEF Next, Tick, Restart, Acquire, ReleaseDecr, ReleaseClamp, MarkRateLimited,
       RestoreRateLimit, ClearRateLimit, Expire, redisVars

LEMMA ExactInit == Init => Exact
<1> SUFFICES ASSUME Init PROVE Counts /\ NobodyClamps
  BY TypeInit DEF Exact
<1>1. ASSUME NEW a \in Accounts PROVE conn[a] = Cardinality(Holders(a))
  <2>1. Holders(a) = {}
    BY DEF Init, Holders
  <2> QED
    BY <2>1, FS_EmptySet DEF Init
<1>2. NobodyClamps
  BY DEF Init, NobodyClamps
<1> QED
  BY <1>1, <1>2 DEF Counts

\* A holder is counted, so the DECR of its release answers 0 or more.
LEMMA HolderIsCounted ==
  ASSUME Exact, ~wiped, NEW c \in Callers, pc[c] = "held"
  PROVE  conn[acct[c]] \in Nat /\ conn[acct[c]] >= 1
<1>1. acct[c] \in Accounts
  BY DEF Exact, TypeOK
<1>2. /\ IsFiniteSet(Holders(acct[c]))
      /\ Cardinality(Holders(acct[c])) \in Nat
      /\ conn[acct[c]] = Cardinality(Holders(acct[c]))
  BY <1>1, HoldersFinite DEF Exact, Counts
<1>3. c \in Holders(acct[c])
  BY DEF Holders
<1>4. Cardinality(Holders(acct[c])) # 0
  BY <1>2, <1>3, FS_EmptySet
<1> QED
  BY <1>2, <1>4

LEMMA ExactStep == Exact /\ [Next]_redisVars => Exact'
<1> SUFFICES ASSUME Exact, [Next]_redisVars, ~wiped'
             PROVE  Counts' /\ NobodyClamps'
  BY TypeStep DEF Exact
<1>w. ~wiped
  BY WipedForEver
<1>t. TypeOK /\ Counts /\ NobodyClamps
  BY <1>w DEF Exact
<1>1. ASSUME NEW c \in Callers, NEW a \in Accounts, Acquire(c, a)
      PROVE  Counts' /\ NobodyClamps'
  <2>1. ASSUME NEW b \in Accounts PROVE conn'[b] = Cardinality(Holders(b)')
    <3>1. conn'[b] = conn[b] + (IF b = a THEN 1 ELSE 0)
      BY <1>1, <1>t DEF Acquire, TypeOK
    <3> QED
      BY <3>1, <1>1, <1>t, HoldersAcquire DEF Counts
  <2>2. NobodyClamps'
    BY <1>1, <1>t DEF Acquire, NobodyClamps, TypeOK
  <2> QED
    BY <2>1, <2>2 DEF Counts
<1>2. ASSUME NEW c \in Callers, ReleaseDecr(c)
      PROVE  Counts' /\ NobodyClamps'
  <2>1. ASSUME NEW b \in Accounts PROVE conn'[b] = Cardinality(Holders(b)')
    <3>1. conn'[b] = conn[b] - (IF b = acct[c] THEN 1 ELSE 0)
      BY <1>2, <1>t DEF ReleaseDecr, TypeOK
    <3> QED
      BY <3>1, <1>2, <1>t, HoldersDecr DEF Counts
  <2>2. conn[acct[c]] \in Nat /\ conn[acct[c]] >= 1
    BY <1>2, <1>w, HolderIsCounted DEF ReleaseDecr
  <2>3. NobodyClamps'
    BY <2>2, <1>2, <1>t DEF ReleaseDecr, NobodyClamps, TypeOK
  <2> QED
    BY <2>1, <2>3 DEF Counts
<1>3. ASSUME NEW c \in Callers, ReleaseClamp(c)
      PROVE  Counts' /\ NobodyClamps'
  BY <1>3, <1>t DEF ReleaseClamp, NobodyClamps
<1>4. CASE Bystander
  <2>1. UNCHANGED <<conn, pc, acct>>
    BY <1>4, BystanderLeavesCounters
  <2> QED
    BY <2>1, <1>t DEF Counts, NobodyClamps, Holders
<1>5. CASE Restart
  BY <1>5 DEF Restart
<1> QED
  BY <1>1, <1>2, <1>3, <1>4, <1>5 DEF Next, Bystander

LEMMA ExactInvariant == Spec => []Exact
BY ExactInit, ExactStep, PTL DEF Spec

\* As long as Redis keeps its data, the counters the router compares are
\* exactly the numbers of open connections.
THEOREM CountIsExact == Spec => []ExactCount
<1>1. Exact => ExactCount
  BY DEF Exact, ExactCount, Counts
<1> QED
  BY ExactInvariant, <1>1, PTL

-----------------------------------------------------------------------------
(* The Redis manager implements the in-memory one.                           *)

LEMMA MapInit == Init => Abstract!Init
BY DEF Init, Abstract!Init

LEMMA MapRestore ==
  ASSUME TypeOK, NEW a \in Accounts, RestoreRateLimit(a)
  PROVE  Abstract!RestoreRateLimit(a)
<1> USE TicksAssumption, TimeAssumption
<1> DEFINE ttl(u) == (u - now) \div TicksPerSecond
<1>1. PICK u \in Deadlines :
        expiry' = IF u > now /\ ttl(u) >= 1
                    THEN [expiry EXCEPT ![a] = now + ttl(u) * TicksPerSecond]
                    ELSE expiry
  BY DEF RestoreRateLimit
<1>2. u \in Nat /\ now \in Nat /\ u - now \in Int
  BY DEF TypeOK
<1>3. CASE u > now /\ ttl(u) >= 1
  <2> DEFINE t == now + ttl(u) * TicksPerSecond
  <2>1. /\ u - now = TicksPerSecond * ttl(u) + ((u - now) % TicksPerSecond)
        /\ (u - now) % TicksPerSecond \in 0..(TicksPerSecond - 1)
        /\ ttl(u) \in Int
    BY <1>2
  <2>2. /\ TicksPerSecond * ttl(u) \in Int
        /\ ttl(u) * TicksPerSecond = TicksPerSecond * ttl(u)
        /\ TicksPerSecond * ttl(u) > 0
    BY <2>1, <1>3
  <2>3. t \in (u - (TicksPerSecond - 1))..u /\ t > now
    BY <2>1, <2>2, <1>2
  <2>4. expiry' = IF t > now THEN [expiry EXCEPT ![a] = t] ELSE expiry
    BY <1>1, <1>3, <2>3
  <2> HIDE DEF t
  <2> QED
    BY <2>3, <2>4 DEF RestoreRateLimit, Abstract!RestoreRateLimit
<1>4. CASE ~(u > now /\ ttl(u) >= 1)
  <2>1. expiry' = expiry
    BY <1>1, <1>4
  <2> DEFINE t == u - (TicksPerSecond - 1)
  <2>2. t \in (u - (TicksPerSecond - 1))..u
    BY <1>2
  <2>3. ~(t > now)
    <3>1. CASE ~(u > now)
      BY <3>1, <1>2
    <3>2. CASE u > now
      <4>1. ~(ttl(u) >= 1) /\ ttl(u) \in Int
        BY <3>2, <1>4, <1>2
      <4>2. u - now < TicksPerSecond
        BY <4>1, <1>2, <3>2
      <4> QED
        BY <4>2, <1>2
    <3> QED
      BY <3>1, <3>2
  <2>4. expiry' = IF t > now THEN [expiry EXCEPT ![a] = t] ELSE expiry
    BY <2>1, <2>3
  <2> HIDE DEF t
  <2> QED
    BY <2>2, <2>4 DEF RestoreRateLimit, Abstract!RestoreRateLimit
<1> QED
  BY <1>3, <1>4

LEMMA MapStep ==
  Exact /\ [Next]_redisVars
    => [wiped' \/ Abstract!Next]_(Abstract!stateVars)
<1> SUFFICES ASSUME Exact, [Next]_redisVars, ~wiped'
             PROVE  Abstract!Next \/ UNCHANGED <<conn, expiry, now>>
  BY DEF Abstract!stateVars
<1>w. ~wiped
  BY WipedForEver
<1>t. TypeOK /\ Counts /\ NobodyClamps
  BY <1>w DEF Exact
<1>1. CASE Tick
  BY <1>1 DEF Tick, Abstract!Next, Abstract!Tick
<1>2. CASE Restart
  BY <1>2 DEF Restart
<1>3. ASSUME NEW c \in Callers, NEW a \in Accounts, Acquire(c, a)
      PROVE  Abstract!Next
  BY <1>3 DEF Acquire, Abstract!Next, Abstract!Acquire
<1>4. ASSUME NEW c \in Callers, ReleaseDecr(c)
      PROVE  Abstract!Next
  <2>1. acct[c] \in Accounts
    BY <1>4, <1>t DEF ReleaseDecr, TypeOK
  <2>2. conn[acct[c]] \in Nat /\ conn[acct[c]] > 0
    BY <1>4, <1>w, HolderIsCounted DEF ReleaseDecr
  <2>3. Abstract!Release(acct[c])
    BY <1>4, <2>2 DEF ReleaseDecr, Abstract!Release
  <2> QED
    BY <2>1, <2>3 DEF Abstract!Next
<1>5. ASSUME NEW c \in Callers, ReleaseClamp(c)
      PROVE  Abstract!Next
  BY <1>5, <1>t DEF ReleaseClamp, NobodyClamps
<1>6. ASSUME NEW a \in Accounts, MarkRateLimited(a)
      PROVE  Abstract!Next \/ UNCHANGED <<conn, expiry, now>>
  <2>1. PICK ra \in RetryAfters :
          expiry' = IF ra >= 1
                      THEN [expiry EXCEPT ![a] = now + ra * TicksPerSecond]
                      ELSE expiry
    BY <1>6 DEF MarkRateLimited
  <2>2. CASE ra >= 1
    BY <1>6, <2>1, <2>2 DEF MarkRateLimited, Abstract!Next,
                            Abstract!MarkRateLimited
  <2>3. CASE ~(ra >= 1)
    BY <1>6, <2>1, <2>3 DEF MarkRateLimited
  <2> QED
    BY <2>2, <2>3
<1>7. ASSUME NEW a \in Accounts, RestoreRateLimit(a)
      PROVE  Abstract!Next
  BY <1>7, <1>t, MapRestore DEF Abstract!Next
<1>8. ASSUME NEW a \in Accounts, ClearRateLimit(a) \/ Expire(a)
      PROVE  Abstract!Next
  BY <1>8 DEF ClearRateLimit, Expire, Abstract!Next,
              Abstract!ClearRateLimit, Abstract!ForgetExpired
<1>9. CASE UNCHANGED redisVars
  BY <1>9 DEF redisVars
<1> QED
  BY <1>1, <1>2, <1>3, <1>4, <1>5, <1>6, <1>7, <1>8, <1>9 DEF Next

\* The docstring of AccountStateManager says that only the class changes when
\* Redis replaces the in-memory tables.  As long as no data is lost that is so:
\* every command of the Redis manager is an operation of the in-memory manager,
\* limits restored up to a second early excepted.
THEOREM RedisImplements == Spec => ImplementsAccountState
<1>1. Exact /\ [Next]_redisVars => [wiped' \/ Abstract!Next]_(Abstract!stateVars)
  BY MapStep
<1> QED
  BY MapInit, ExactInvariant, <1>1, PTL DEF Spec, ImplementsAccountState
=============================================================================

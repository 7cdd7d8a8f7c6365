------------------------ MODULE LeastConnectionsProofs ------------------------
(***************************************************************************)
(* How far a burst of requests can drive two counters apart, for any       *)
(* number of handlers, accounts and priorities.                            *)
(***************************************************************************)
EXTENDS LeastConnections, FiniteSetTheorems, TLAPS

\* Where a handler can be in a burst.
BurstPCs == {"new", "filter", "score", "prepare", "done"}

\* In a burst every account can be chosen, so every handler compares them all;
\* counters only rise, so what was read is never more than what is there.
BurstTypeOK ==
  /\ SelTypeOK
  /\ pc \in [Requests -> BurstPCs]
  /\ conn \in [Accounts -> Nat]
  /\ ListAvailable = Accounts
  /\ limited = {}
  /\ \A r \in Requests :
       /\ pc[r] = "filter" => cand[r] \cup todo[r] = Accounts
       /\ pc[r] = "score" => cand[r] = Accounts
       /\ \A a \in Accounts : score[r][a] <= conn[a]

\* Handlers that read at most v at a, and that what they know of b does not keep
\* from choosing a.
Tempted(a, b, v) ==
  {r \in Requests :
     /\ pc[r] = "score"
     /\ a \notin todo[r]
     /\ score[r][a] <= v
     /\ b \in todo[r] \/ score[r][a] <= score[r][b]}

\* Balanced is not inductive: it must be known how many handlers are about to
\* raise the higher counter further.  They read it long ago, when it was at some
\* level v not above the one of b; as far as it is above v, so many of the
\* handlers that could read at most v have spent that chance.
BoundedSpread(a, b) ==
  \A v \in conn[b] .. (conn[a] - 1) :
    conn[a] - v + Cardinality(Tempted(a, b, v)) <= Cardinality(Requests)

SpreadInv == \A a, b \in Accounts : BoundedSpread(a, b)

-----------------------------------------------------------------------------
(* Types.                                                                     *)

LEMMA BurstInitType == BurstInit => BurstTypeOK
BY DEF BurstInit, SelInit, BurstTypeOK, SelTypeOK, BurstPCs, NoScore, ListAvailable

\* What Acquire settles on was compared with every account.
LEMMA BestIsLeast ==
  ASSUME BurstTypeOK, NEW r \in Requests, pc[r] = "score", NEW a \in Best(r)
  PROVE  a \in Accounts /\ \A b \in Accounts : score[r][a] <= score[r][b]
<1>1. cand[r] = Accounts /\ \A b \in Accounts : score[r][b] \in Int
  BY DEF BurstTypeOK, SelTypeOK
<1> QED
  BY <1>1 DEF Best

LEMMA SelectType ==
  ASSUME BurstTypeOK, NEW r \in Requests, Select(r)
  PROVE  BurstTypeOK'
<1> USE DEF storeVars, BurstTypeOK, SelTypeOK, BurstPCs, GoTo, ListAvailable
<1>1. CASE List(r)
  BY <1>1 DEF List
<1>2. CASE Filter(r)
  BY <1>2 DEF Filter
<1>3. CASE Filtered(r)
  BY <1>3 DEF Filtered
<1>4. CASE Score(r)
  BY <1>4 DEF Score
<1>5. CASE Acquire(r)
  <2>1. PICK a \in Best(r) : acct' = [acct EXCEPT ![r] = a] /\ IncrConn(a)
    BY <1>5 DEF Acquire
  <2>2. a \in Accounts
    BY <1>5, BestIsLeast DEF Acquire
  <2>3. /\ conn' \in [Accounts -> Nat]
        /\ \A b \in Accounts : conn[b] <= conn'[b]
    BY <2>1, <2>2 DEF IncrConn
  <2>4. NoScore \in [Accounts -> Int] /\ \A b \in Accounts : NoScore[b] = 0
    BY DEF NoScore
  <2>5. score' = [score EXCEPT ![r] = NoScore]
    BY <1>5 DEF Acquire
  <2>6. \A q \in Requests, b \in Accounts : score'[q][b] <= conn'[b]
    BY <2>3, <2>4, <2>5
  <2> QED
    BY <1>5, <2>1, <2>2, <2>3, <2>4, <2>6 DEF Acquire
<1> QED
  BY <1>1, <1>2, <1>3, <1>4, <1>5 DEF Select

LEMMA BurstStepType ==
  BurstTypeOK /\ [BurstNext]_<<storeVars, selVars>> => BurstTypeOK'
<1> SUFFICES ASSUME BurstTypeOK, [BurstNext]_<<storeVars, selVars>>
             PROVE  BurstTypeOK'
  OBVIOUS
<1>1. ASSUME NEW r \in Requests, NextRequest(r) PROVE BurstTypeOK'
  BY <1>1 DEF NextRequest, storeVars, BurstTypeOK, SelTypeOK, BurstPCs, GoTo,
              ListAvailable
<1>2. CASE UNCHANGED <<storeVars, selVars>>
  BY <1>2 DEF storeVars, selVars, BurstTypeOK, SelTypeOK, ListAvailable
<1> QED
  BY <1>1, <1>2, SelectType DEF BurstNext, BurstFull

-----------------------------------------------------------------------------
(* The spread.                                                                *)

LEMMA TemptedFinite ==
  ASSUME NEW a, NEW b, NEW v
  PROVE  /\ IsFiniteSet(Tempted(a, b, v))
         /\ Cardinality(Tempted(a, b, v)) \in Nat
         /\ Cardinality(Tempted(a, b, v)) <= Cardinality(Requests)
         /\ Cardinality(Requests) \in Nat
<1>1. Tempted(a, b, v) \subseteq Requests
  BY DEF Tempted
<1> QED
  BY <1>1, RequestsAssumption, FS_Subset, FS_CardinalityType

\* A step that raises no counter keeps the bound if it tempts nobody.
LEMMA NobodyNewKeeps ==
  ASSUME BurstTypeOK, NEW a \in Accounts, NEW b \in Accounts, BoundedSpread(a, b),
         conn'[a] = conn[a], conn'[b] >= conn[b], conn'[b] \in Nat,
         \A v \in conn[b] .. (conn[a] - 1) : Tempted(a, b, v)' \subseteq Tempted(a, b, v)
  PROVE  BoundedSpread(a, b)'
<1>0. conn[a] \in Nat /\ conn[b] \in Nat
  BY DEF BurstTypeOK
<1> SUFFICES ASSUME NEW v \in conn'[b] .. (conn'[a] - 1)
             PROVE  conn'[a] - v + Cardinality(Tempted(a, b, v)') <= Cardinality(Requests)
  BY DEF BoundedSpread
<1>1. v \in conn[b] .. (conn[a] - 1)
  BY <1>0
<1> DEFINE T == Tempted(a, b, v)
<1>2. Cardinality(T') <= Cardinality(T) /\ Cardinality(T') \in Nat
  <2>1. T' \subseteq T
    BY <1>1
  <2> QED
    BY <2>1, TemptedFinite, FS_Subset, FS_CardinalityType
<1>3. conn[a] - v + Cardinality(T) <= Cardinality(Requests)
  BY <1>1 DEF BoundedSpread
<1> HIDE DEF T
<1>4. Cardinality(T) \in Nat /\ Cardinality(Requests) \in Nat
  BY TemptedFinite DEF T
<1> QED
  BY <1>0, <1>1, <1>2, <1>3, <1>4 DEF T

\* Looking at the table, a limit or a counter tempts nobody: who reads the higher
\* counter now reads more than the other has.
LEMMA LookingTemptsNobody ==
  ASSUME BurstTypeOK, NEW r \in Requests,
         List(r) \/ Filter(r) \/ Filtered(r) \/ Score(r) \/ NextRequest(r),
         NEW a \in Accounts, NEW b \in Accounts, NEW v \in conn[b] .. (conn[a] - 1)
  PROVE  Tempted(a, b, v)' \subseteq Tempted(a, b, v)
<1> SUFFICES ASSUME NEW q \in Requests, q \in Tempted(a, b, v)'
             PROVE  q \in Tempted(a, b, v)
  BY DEF Tempted
<1>1. /\ pc'[q] = "score" /\ a \notin todo'[q] /\ score'[q][a] <= v
      /\ b \in todo'[q] \/ score'[q][a] <= score'[q][b]
  BY DEF Tempted
<1> USE DEF BurstTypeOK, SelTypeOK
<1>2. CASE List(r) \/ NextRequest(r) \/ Filter(r)
  <2>1. q # r /\ pc'[q] = pc[q] /\ todo'[q] = todo[q] /\ UNCHANGED score
    BY <1>1, <1>2 DEF List, NextRequest, Filter, GoTo
  <2> QED
    BY <1>1, <2>1 DEF Tempted
<1>3. CASE Filtered(r)
  <2>1. CASE q = r
    <3>1. todo'[r] = cand[r] /\ cand[r] # {}
      BY <1>1, <1>3, <2>1 DEF Filtered, GoTo
    <3>2. cand[r] = Accounts
      BY <1>3 DEF Filtered
    <3> QED
      BY <1>1, <2>1, <3>1, <3>2
  <2>2. CASE q # r
    <3>1. pc'[q] = pc[q] /\ todo'[q] = todo[q] /\ UNCHANGED score
      BY <1>3, <2>2 DEF Filtered, GoTo
    <3> QED
      BY <1>1, <3>1 DEF Tempted
  <2> QED
    BY <2>1, <2>2
<1>4. CASE Score(r)
  <2>1. PICK x \in todo[r] : /\ todo' = [todo EXCEPT ![r] = @ \ {x}]
                            /\ score' = [score EXCEPT ![r][x] = conn[x]]
    BY <1>4 DEF Score
  <2>2. UNCHANGED pc
    BY <1>4 DEF Score
  <2>3. CASE q # r
    BY <1>1, <2>1, <2>2, <2>3 DEF Tempted
  <2>4. CASE q = r
    <3>1. x \in Accounts /\ todo'[r] = todo[r] \ {x}
          /\ score'[r] = [score[r] EXCEPT ![x] = conn[x]]
      BY <2>1
    <3>2. conn[a] \in Nat /\ conn[b] \in Nat /\ v \in Int /\ conn[b] <= v /\ v < conn[a]
      OBVIOUS
    <3>3. x # a
      BY <1>1, <2>4, <3>1, <3>2
    <3>4. a \notin todo[r] /\ score'[r][a] = score[r][a]
      BY <1>1, <2>4, <3>1, <3>3
    <3>5. b \in todo[r] \/ (b \notin todo'[r] /\ score'[r][b] = score[r][b])
      BY <2>1, <3>1
    <3> QED
      BY <1>1, <2>2, <2>4, <3>4, <3>5 DEF Tempted
  <2> QED
    BY <2>3, <2>4
<1> QED
  BY <1>2, <1>3, <1>4

\* Who raises a counter was tempted, and is not any more.
LEMMA AcquireKeeps ==
  ASSUME BurstTypeOK, SpreadInv, NEW r \in Requests, Acquire(r)
  PROVE  SpreadInv'
<1> SUFFICES ASSUME NEW a \in Accounts, NEW b \in Accounts
             PROVE  BoundedSpread(a, b)'
  BY DEF SpreadInv
<1>1. PICK x \in Best(r) : IncrConn(x)
  BY DEF Acquire
<1>2. /\ x \in Accounts
      /\ \A y \in Accounts : score[r][x] <= score[r][y]
      /\ pc[r] = "score" /\ todo[r] = {}
  BY <1>1, BestIsLeast DEF Acquire
<1>3. /\ \A y \in Accounts : conn'[y] = IF y = x THEN conn[y] + 1 ELSE conn[y]
      /\ \A y \in Accounts : conn[y] \in Nat
  BY <1>1 DEF BurstTypeOK, IncrConn
<1>4. \A v : Tempted(a, b, v)' = Tempted(a, b, v) \ {r}
  <2>1. /\ pc'[r] = "prepare" /\ UNCHANGED todo
        /\ \A q \in Requests \ {r} : pc'[q] = pc[q] /\ score'[q] = score[q]
    BY DEF Acquire, GoTo, BurstTypeOK, SelTypeOK
  <2> QED
    BY <2>1 DEF Tempted
<1>5. BoundedSpread(a, b)
  BY DEF SpreadInv
<1>6. CASE a # x
  BY <1>3, <1>4, <1>5, <1>6, NobodyNewKeeps
<1>7. CASE a = x /\ b # a
  <2> SUFFICES ASSUME NEW v \in conn'[b] .. (conn'[a] - 1)
               PROVE  conn'[a] - v + Cardinality(Tempted(a, b, v)')
                        <= Cardinality(Requests)
    BY DEF BoundedSpread
  <2> DEFINE T == Tempted(a, b, v)
  <2>1. conn[b] <= v /\ v < conn[a] + 1 /\ v \in Int /\ conn'[a] = conn[a] + 1
    BY <1>3, <1>7
  <2>2. r \in T
    <3>1. score[r][a] <= score[r][b] /\ score[r][b] <= conn[b]
          /\ score[r][a] \in Int /\ score[r][b] \in Int
      BY <1>2, <1>7 DEF BurstTypeOK, SelTypeOK
    <3>2. score[r][a] <= v
      BY <1>3, <2>1, <3>1
    <3> QED
      BY <1>2, <3>1, <3>2 DEF Tempted
  <2>3. /\ Cardinality(T') = Cardinality(T) - 1
        /\ Cardinality(T) \in Nat /\ Cardinality(Requests) \in Nat
        /\ Cardinality(T) <= Cardinality(Requests)
    BY <1>4, <2>2, TemptedFinite, FS_RemoveElement
  <2>4. v < conn[a] => conn[a] - v + Cardinality(T) <= Cardinality(Requests)
    <3>1. v < conn[a] => v \in conn[b] .. (conn[a] - 1)
      BY <1>3, <2>1
    <3> QED
      BY <1>5, <3>1 DEF BoundedSpread
  <2> HIDE DEF T
  <2>5. conn'[a] - v + Cardinality(T') <= Cardinality(Requests)
    BY <1>3, <2>1, <2>3, <2>4
  <2> QED
    BY <2>5 DEF T
<1>8. CASE a = b
  BY <1>3, <1>8 DEF BoundedSpread
<1> QED
  BY <1>6, <1>7, <1>8

LEMMA SpreadStep ==
  BurstTypeOK /\ SpreadInv /\ [BurstNext]_<<storeVars, selVars>> => SpreadInv'
<1> SUFFICES ASSUME BurstTypeOK, SpreadInv, [BurstNext]_<<storeVars, selVars>>
             PROVE  SpreadInv'
  OBVIOUS
<1>1. ASSUME NEW r \in Requests,
             List(r) \/ Filter(r) \/ Filtered(r) \/ Score(r) \/ NextRequest(r)
      PROVE  SpreadInv'
  <2> SUFFICES ASSUME NEW a \in Accounts, NEW b \in Accounts
               PROVE  BoundedSpread(a, b)'
    BY DEF SpreadInv
  <2>1. UNCHANGED conn
    BY <1>1 DEF List, Filter, Filtered, Score, NextRequest, storeVars
  <2>2. conn[b] \in Nat
    BY DEF BurstTypeOK
  <2>3. \A v \in conn[b] .. (conn[a] - 1) :
          Tempted(a, b, v)' \subseteq Tempted(a, b, v)
    BY <1>1, LookingTemptsNobody
  <2> QED
    BY <2>1, <2>2, <2>3, NobodyNewKeeps DEF SpreadInv
<1>2. CASE UNCHANGED <<storeVars, selVars>>
  BY <1>2 DEF storeVars, selVars, SpreadInv, BoundedSpread, Tempted
<1> QED
  BY <1>1, <1>2, AcquireKeeps DEF BurstNext, BurstFull, Select

\* Handlers that choose at the same time by counters that are out of date
\* (least_connections.py:17-36) drive two counters at most as far apart as there
\* are handlers.
THEOREM BurstIsBalanced == BurstSpec => []Balanced
<1>1. BurstInit => SpreadInv
  BY DEF BurstInit, SpreadInv, BoundedSpread
<1>2. BurstTypeOK /\ SpreadInv => Balanced
  <2> SUFFICES ASSUME BurstTypeOK, SpreadInv, NEW a \in Accounts, NEW b \in Accounts
               PROVE  conn[a] - conn[b] <= Cardinality(Requests)
    BY DEF Balanced
  <2>1. conn[a] \in Nat /\ conn[b] \in Nat
    BY DEF BurstTypeOK
  <2> DEFINE n == Cardinality(Tempted(a, b, conn[b]))
  <2>2. n \in Nat /\ Cardinality(Requests) \in Nat
    BY TemptedFinite
  <2>3. conn[b] < conn[a] => conn[a] - conn[b] + n <= Cardinality(Requests)
    BY <2>1 DEF SpreadInv, BoundedSpread
  <2> QED
    BY <2>1, <2>2, <2>3
<1> QED
  BY <1>1, <1>2, BurstInitType, BurstStepType, SpreadStep, PTL DEF BurstSpec
=============================================================================

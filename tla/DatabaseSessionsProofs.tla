------------------------ MODULE DatabaseSessionsProofs ------------------------
(***************************************************************************)
(* What DatabaseSessions guarantees for any number of requests and any     *)
(* size of the pool.                                                       *)
(***************************************************************************)
EXTENDS DatabaseSessions, FiniteSetTheorems, TLAPS

\* A request has one session, so a connection is its own or somebody else's.
OneEach == out \subseteq Requests \X {"request"}

Unasked == {"auth", "list", "exit", "read", "save", "reread"}

\* A request that does not stream has its connection from the SELECT of the
\* accounts to its first commit after the call.
KeepsConn(r) ==
  kind[r] = "sync" =>
    /\ pc[r] # "exit"
    /\ pc[r] \in Unasked \cup {"upstream"} => reply[r] = "none"
    /\ pc[r] \in {"upstream", "mark"} => <<r, "request">> \in out
    /\ pc[r] = "mark" => reply[r] \in {"limited", "banned"}
    /\ pc[r] = "log" /\ reply[r] \in {"ok", "failed"} => <<r, "request">> \in out
    /\ pc[r] \in {"log", "used", "close", "done"} =>
         /\ reply[r] \in {"limited", "banned"} => marked[r]
         /\ reply[r] \in {"ok", "failed"} /\ pc[r] # "log" => row[r] # "none"

\* Typing without the limit of the pool.
DbTypes ==
  /\ pc \in [Requests -> DbPCs]
  /\ kind \in [Requests -> Kinds]
  /\ reply \in [Requests -> {"none", "ok", "limited", "banned", "failed"}]
  /\ marked \in [Requests -> BOOLEAN]
  /\ row \in [Requests -> {"none", "written", "refused"}]

DbInv ==
  /\ DbTypeOK /\ OneEach /\ StreamsHoldNothing
  /\ \A r \in Requests : KeepsConn(r)

-----------------------------------------------------------------------------
(* Steps.                                                                     *)

AnyStep(r) == DbStep(r) \/ Timeout(r) \/ CancelStream(r)

\* A step keeps the types; it takes a connection only when there is room.
LEMMA StepTypes ==
  ASSUME DbTypes, OneEach, NEW r \in Requests, AnyStep(r)
  PROVE  /\ DbTypes'
         /\ \/ out' \subseteq out
            \/ Room /\ out' = out \cup {<<r, "request">>}
<1> USE DEF DbTypes, GoTo, DbPCs, Statements, Commit, Own
<1>1. CASE Connect(r)
  BY <1>1 DEF Connect, Session
<1>2. CASE Authenticate(r) \/ SelectAccounts(r) \/ ExitEarly(r) \/ Answer(r)
  BY <1>2 DEF Authenticate, SelectAccounts, ExitEarly, Answer
<1>3. CASE Mark(r) \/ WriteLog(r) \/ UpdateLastUsed(r)
  BY <1>3 DEF Mark, WriteLog, UpdateLastUsed
<1>4. CASE Read(r) \/ Save(r) \/ Reread(r) \/ Close(r)
  BY <1>4 DEF Read, Save, Reread, Close
<1>5. CASE Timeout(r) \/ CancelStream(r)
  BY <1>5 DEF Timeout, CancelStream
<1> QED
  BY <1>1, <1>2, <1>3, <1>4, <1>5 DEF AnyStep, DbStep

\* A step of one request concerns no other.
LEMMA Others ==
  ASSUME DbTypes, OneEach, NEW r \in Requests, AnyStep(r),
         NEW s \in Requests, s # r
  PROVE  /\ pc'[s] = pc[s] /\ kind'[s] = kind[s] /\ reply'[s] = reply[s]
         /\ marked'[s] = marked[s] /\ row'[s] = row[s]
         /\ <<s, "request">> \in out' <=> <<s, "request">> \in out
<1> USE DEF DbTypes, GoTo, Commit, Own, Session
<1>1. CASE Connect(r) \/ Authenticate(r) \/ SelectAccounts(r) \/ ExitEarly(r)
  BY <1>1 DEF Connect, Authenticate, SelectAccounts, ExitEarly
<1>2. CASE Answer(r) \/ Mark(r) \/ WriteLog(r) \/ UpdateLastUsed(r)
  BY <1>2 DEF Answer, Mark, WriteLog, UpdateLastUsed
<1>3. CASE Read(r) \/ Save(r) \/ Reread(r) \/ Close(r)
  BY <1>3 DEF Read, Save, Reread, Close
<1>4. CASE Timeout(r) \/ CancelStream(r)
  BY <1>4 DEF Timeout, CancelStream
<1> QED
  BY <1>1, <1>2, <1>3, <1>4 DEF AnyStep, DbStep

\* The pool stays within its limit.
LEMMA PoolBound ==
  ASSUME DbTypeOK, OneEach, NEW r \in Requests, AnyStep(r)
  PROVE  DbTypeOK' /\ OneEach'
<1>1. DbTypes
  BY DEF DbTypeOK, DbTypes
<1>2. /\ DbTypes'
      /\ \/ out' \subseteq out
         \/ Room /\ out' = out \cup {<<r, "request">>}
  BY <1>1, StepTypes
<1>3. OneEach'
  BY <1>2 DEF OneEach
<1>4. IsFiniteSet(out)
  <2>1. IsFiniteSet(Requests) /\ IsFiniteSet({"request"})
    BY DbRequestsAssumption, FS_Singleton
  <2>2. IsFiniteSet(Requests \X {"request"})
    BY <2>1, FS_Product
  <2> QED
    BY <2>2, FS_Subset DEF OneEach
<1>5. Cardinality(out) \in Nat /\ Cardinality(out) <= Capacity /\ Capacity \in Nat
  BY <1>4, FS_CardinalityType, CapacityAssumption DEF DbTypeOK
<1>6. CASE out' \subseteq out
  <2>1. Cardinality(out') <= Cardinality(out) /\ Cardinality(out') \in Nat
    BY <1>4, <1>6, FS_Subset, FS_CardinalityType
  <2>2. Cardinality(out') <= Capacity
    BY <1>5, <2>1
  <2> QED
    BY <1>2, <1>3, <2>2 DEF DbTypes, DbTypeOK, OneEach
<1>7. CASE Room /\ out' = out \cup {<<r, "request">>}
  <2>1. /\ Cardinality(out') = Cardinality(out)
           \/ Cardinality(out') = Cardinality(out) + 1
    BY <1>4, <1>7, FS_AddElement
  <2>2. Cardinality(out') <= Capacity
    BY <1>5, <1>7, <2>1 DEF Room
  <2> QED
    BY <1>2, <1>3, <2>2 DEF DbTypes, DbTypeOK, OneEach
<1> QED
  BY <1>2, <1>6, <1>7

\* A request that does not stream keeps its connection until its answer is in
\* the table.
LEMMA KeepsStep ==
  ASSUME DbTypes, OneEach, NEW r \in Requests, KeepsConn(r), AnyStep(r)
  PROVE  KeepsConn(r)'
<1> USE DEF DbTypes, DbPCs, Statements, Unasked, KeepsConn, GoTo
<1>1. CASE Connect(r)
  BY <1>1 DEF Connect, Session
<1>2. CASE Authenticate(r)
  BY <1>2 DEF Authenticate
<1>3. CASE SelectAccounts(r)
  BY <1>3 DEF SelectAccounts, HasConn, Session
<1>4. CASE ExitEarly(r) \/ CancelStream(r) \/ Close(r)
  BY <1>4 DEF ExitEarly, CancelStream, Close
<1>5. CASE Answer(r)
  BY <1>5 DEF Answer
<1>6. CASE Mark(r)
  BY <1>6 DEF Mark
<1>7. CASE WriteLog(r)
  BY <1>7 DEF WriteLog
<1>8. CASE UpdateLastUsed(r)
  BY <1>8 DEF UpdateLastUsed
<1>9. CASE Read(r) \/ Save(r) \/ Reread(r)
  BY <1>9 DEF Read, Save, Reread
<1>10. CASE Timeout(r)
  BY <1>10 DEF Timeout, Waiting, HasConn, Session
<1> QED
  BY <1>1, <1>2, <1>3, <1>4, <1>5, <1>6, <1>7, <1>8, <1>9, <1>10
  DEF AnyStep, DbStep

\* A stream comes to its call through the exit of get_db only.
LEMMA StreamsStep ==
  ASSUME DbTypes, OneEach, StreamsHoldNothing, NEW r \in Requests, AnyStep(r)
  PROVE  StreamsHoldNothing'
<1>1. SUFFICES ASSUME NEW s \in Requests, kind'[s] = "stream", pc'[s] = "upstream"
               PROVE  <<s, "request">> \notin out'
  <2>1. OneEach'
    BY StepTypes DEF OneEach
  <2> QED
    BY <1>1, <2>1 DEF StreamsHoldNothing, Own, OneEach
<1>2. CASE s # r
  <2>1. /\ kind[s] = "stream" /\ pc[s] = "upstream"
        /\ <<s, "request">> \in out' <=> <<s, "request">> \in out
    BY <1>1, <1>2, Others
  <2> QED
    BY <2>1 DEF StreamsHoldNothing, Own
<1>3. CASE s = r
  <2> USE DEF DbTypes, GoTo
  <2>1. CASE ExitEarly(r)
    BY <1>3, <2>1 DEF ExitEarly, Own
  <2>2. CASE Connect(r) \/ Authenticate(r) \/ SelectAccounts(r) \/ Answer(r)
    BY <1>1, <1>3, <2>2
    DEF Connect, Waiting, Statements, Authenticate, SelectAccounts, Answer
  <2>3. CASE Mark(r) \/ WriteLog(r) \/ UpdateLastUsed(r) \/ Read(r)
    BY <1>1, <1>3, <2>3 DEF Mark, WriteLog, UpdateLastUsed, Read
  <2>4. CASE Save(r) \/ Reread(r) \/ Close(r) \/ Timeout(r) \/ CancelStream(r)
    BY <1>1, <1>3, <2>4 DEF Save, Reread, Close, Timeout, CancelStream
  <2> QED
    BY <2>1, <2>2, <2>3, <2>4 DEF AnyStep, DbStep
<1> QED
  BY <1>2, <1>3

-----------------------------------------------------------------------------
(* Theorems.                                                                  *)

\* The invariant holds of every run, whoever loses patience or goes away.
LEMMA DbInvariant == DbSafety => []DbInv
<1>1. DbInit => DbInv
  <2> SUFFICES ASSUME DbInit PROVE DbInv
    OBVIOUS
  <2>1. DbTypeOK
    BY FS_EmptySet, CapacityAssumption
    DEF DbInit, DbTypeOK, DbPCs, Statements
  <2>2. OneEach /\ StreamsHoldNothing
    BY DEF DbInit, OneEach, StreamsHoldNothing, Own
  <2>3. ASSUME NEW r \in Requests PROVE KeepsConn(r)
    BY DEF DbInit, KeepsConn
  <2> QED
    BY <2>1, <2>2, <2>3 DEF DbInv
<1>2. DbInv /\ [DbNext]_dbVars => DbInv'
  <2> SUFFICES ASSUME DbInv, [DbNext]_dbVars PROVE DbInv'
    OBVIOUS
  <2>1. DbTypes /\ OneEach
    BY DEF DbInv, DbTypeOK, DbTypes
  <2>2. ASSUME NEW r \in Requests, AnyStep(r) PROVE DbInv'
    <3>1. DbTypeOK' /\ OneEach'
      BY <2>1, <2>2, PoolBound DEF DbInv
    <3>2. StreamsHoldNothing'
      BY <2>1, <2>2, StreamsStep DEF DbInv
    <3>3. ASSUME NEW s \in Requests PROVE KeepsConn(s)'
      <4>1. CASE s = r
        BY <2>1, <2>2, <4>1, KeepsStep DEF DbInv
      <4>2. CASE s # r
        <5>1. /\ pc'[s] = pc[s] /\ kind'[s] = kind[s] /\ reply'[s] = reply[s]
              /\ marked'[s] = marked[s] /\ row'[s] = row[s]
              /\ <<s, "request">> \in out' <=> <<s, "request">> \in out
          BY <2>1, <2>2, <4>2, Others
        <5> QED
          BY <5>1 DEF DbInv, KeepsConn
      <4> QED
        BY <4>1, <4>2
    <3> QED
      BY <3>1, <3>2, <3>3 DEF DbInv
  <2>3. CASE UNCHANGED dbVars
    BY <2>3 DEF dbVars, DbInv, DbTypeOK, OneEach, StreamsHoldNothing, Own, KeepsConn
  <2> QED
    BY <2>2, <2>3 DEF DbNext, AllDone, AnyStep
<1> QED
  BY <1>1, <1>2, PTL DEF DbSafety

\* Every variable keeps its type and the engine never exceeds its limit.
THEOREM DbTypeCorrect == DbSafety => []DbTypeOK
BY DbInvariant, PTL DEF DbInv

\* A stream has no connection while Anthropic answers.
THEOREM StreamsNeverHold == DbSafety => []StreamsHoldNothing
BY DbInvariant, PTL DEF DbInv

\* A full pool does not keep the mark of a 429 or of a ban from the table if the
\* request does not stream, nor the log row if the answer is another one: these
\* are the first statements after the call, and the request still has the
\* connection of its authentication (proxy_service.py:113, 126 and 146,
\* database.py:12-13).
THEOREM SyncAnswersAlwaysSurvive == DbSafety => []SyncAnswersSurvive
<1>1. DbInv => SyncAnswersSurvive
  BY DEF DbInv, KeepsConn, SyncAnswersSurvive
<1> QED
  BY <1>1, DbInvariant, PTL
=============================================================================

-------------------------- MODULE ProxyServiceProofs --------------------------
(***************************************************************************)
(* What ProxyService guarantees for any number of accounts, workers and    *)
(* requests: types, the counters, the log and the ledger of connections    *)
(* even if Redis and PostgreSQL fail, and how requests end and reactions   *)
(* last while they answer.  The lemmas on single steps ask of the table no *)
(* more than that a row is inserted once and deleted once, so that they    *)
(* hold of a request among admin calls as well.                            *)
(***************************************************************************)
EXTENDS ProxyService, FiniteSetTheorems, TLAPS

\* What the steps of a request need to know of the store.
ConnOK == conn \in [Accounts -> Nat]

LogEntry == [status : {0, 200, 401, 429, 500}, error : BOOLEAN, written : BOOLEAN]

-----------------------------------------------------------------------------
(* Types.                                                                     *)

\* Assigning to a log entry changes that entry only.
LEMMA SetLogType ==
  ASSUME ReqTypeOK, NEW r \in Requests,
         NEW s \in {0, 200, 401, 429, 500}, NEW e \in BOOLEAN, SetLog(r, s, e)
  PROVE  /\ log' \in [Requests -> LogEntry]
         /\ \A q \in Requests \ {r} : log'[q] = log[q]
         /\ log'[r].status = s
         /\ log'[r].error = e
         /\ log'[r].written = log[r].written
BY DEF SetLog, ReqTypeOK, LogEntry

LEMMA SaveLogType ==
  ASSUME ReqTypeOK, NEW r \in Requests, NEW w \in BOOLEAN, SaveLog(r, w)
  PROVE  /\ log' \in [Requests -> LogEntry]
         /\ \A q \in Requests \ {r} : log'[q] = log[q]
         /\ log'[r].status = log[r].status
         /\ log'[r].error = log[r].error
         /\ log'[r].written = w
BY DEF SaveLog, ReqTypeOK, LogEntry

\* FailLog names an error.
LEMMA FailLogType ==
  ASSUME ReqTypeOK, NEW r \in Requests, FailLog(r)
  PROVE  /\ log' \in [Requests -> LogEntry]
         /\ \A q \in Requests \ {r} : log'[q] = log[q]
         /\ log'[r].status = IF Sync(r) THEN 500 ELSE log[r].status
         /\ log'[r].error
         /\ log'[r].written => log'[r].status # 0
<1> DEFINE s == IF Sync(r) THEN 500 ELSE log[r].status
<1>1. /\ log[r].status \in {0, 200, 401, 429, 500}
      /\ log[r].written => log[r].status # 0
  BY DEF ReqTypeOK
<1>2. s \in {0, 200, 401, 429, 500} /\ (log[r].status # 0 => s # 0)
  BY <1>1 DEF Sync
<1>3. SetLog(r, s, TRUE)
  BY DEF FailLog
<1> HIDE DEF s
<1>4. /\ log' \in [Requests -> LogEntry]
      /\ \A q \in Requests \ {r} : log'[q] = log[q]
      /\ log'[r].status = s
      /\ log'[r].error
      /\ log'[r].written => log[r].written
  BY <1>2, <1>3 DEF SetLog, ReqTypeOK, LogEntry
<1>5. log'[r].written => log'[r].status # 0
  BY <1>1, <1>2, <1>4
<1> QED
  BY <1>4, <1>5 DEF s

\* The variables of the choice do not matter to a request that has chosen.
LEMMA SelFrame ==
  SelTypeOK /\ UNCHANGED <<acct, todo, cand, score>> => SelTypeOK'
BY DEF SelTypeOK

\* A step of request r that leaves the entries of the others alone keeps the
\* types if it keeps those of r.
LEMMA OneRequest ==
  ASSUME ReqTypeOK, NEW r \in Requests, NEW l \in PCs, GoTo(r, l),
         SelTypeOK', UNCHANGED <<home, kind>>,
         reply' \in [Requests -> Replies \cup {"none"}],
         log' \in [Requests -> LogEntry],
         \A q \in Requests \ {r} : acct'[q] = acct[q] /\ log'[q] = log[q],
         l \in Charged \cup {"log", "used"} => acct'[r] \in Accounts,
         l \in {"body", "log", "used"} => log'[r].status # 0,
         log'[r].written => log'[r].status # 0
  PROVE  ReqTypeOK'
<1>1. pc' \in [Requests -> PCs] /\ pc'[r] = l
  BY DEF GoTo, ReqTypeOK
<1>2. \A q \in Requests \ {r} : pc'[q] = pc[q]
  BY DEF GoTo, ReqTypeOK
<1>3. ASSUME NEW q \in Requests
      PROVE  /\ pc'[q] \in Charged \cup {"log", "used"} => acct'[q] \in Accounts
             /\ pc'[q] \in {"body", "log", "used"} => log'[q].status # 0
             /\ log'[q].written => log'[q].status # 0
  <2>1. CASE q = r
    BY <2>1, <1>1
  <2>2. CASE q # r
    BY <2>2, <1>2 DEF ReqTypeOK
  <2> QED
    BY <2>1, <2>2
<1>4. home' \in [Requests -> Workers] /\ kind' \in [Requests -> {"sync", "stream"}]
  BY DEF ReqTypeOK
<1> QED
  BY <1>1, <1>3, <1>4 DEF ReqTypeOK, LogEntry

\* The same for a step that does not touch replies, log and choice.
LEMMA PlainMove ==
  ASSUME ReqTypeOK, NEW r \in Requests, NEW l \in PCs, GoTo(r, l),
         UNCHANGED <<acct, todo, cand, score, home, kind, reply, log>>,
         l \in Charged \cup {"log", "used"} => acct[r] \in Accounts,
         l \in {"body", "log", "used"} => log[r].status # 0
  PROVE  ReqTypeOK'
<1>1. SelTypeOK' /\ reply' \in [Requests -> Replies \cup {"none"}]
                 /\ log' \in [Requests -> LogEntry]
  BY SelFrame DEF ReqTypeOK, LogEntry
<1>2. log'[r].written => log'[r].status # 0
  BY DEF ReqTypeOK
<1> QED
  BY <1>1, <1>2, OneRequest

\* The choice of an account.
LEMMA ChooseType ==
  ASSUME ReqTypeOK, ConnOK, NEW r \in Requests, Choose(r)
  PROVE  ReqTypeOK' /\ ConnOK'
<1> USE DEF reqVars, storeVars
<1>t. SelTypeOK /\ reply' \in [Requests -> Replies \cup {"none"}]
                /\ log' \in [Requests -> LogEntry]
                /\ UNCHANGED <<home, kind, reply, log>>
                /\ (log[r].written => log[r].status # 0)
  BY DEF ReqTypeOK, Choose, LogEntry
<1>1. CASE List(r)
  <2>1. SelTypeOK'
    BY <1>1, <1>t DEF List, ListAvailable, SelTypeOK
  <2>2. GoTo(r, "filter") /\ "filter" \in PCs /\ UNCHANGED <<acct, conn>>
    BY <1>1 DEF List, PCs
  <2> QED
    BY <1>t, <2>1, <2>2, OneRequest DEF ConnOK, Charged
<1>2. CASE Filter(r)
  <2>1. SelTypeOK' /\ UNCHANGED <<acct, conn, pc>>
    BY <1>2, <1>t DEF Filter, SelTypeOK
  <2> QED
    BY <1>t, <2>1 DEF ConnOK, ReqTypeOK
<1>3. CASE Filtered(r)
  <2> DEFINE l == IF cand[r] = {} THEN "done" ELSE "score"
  <2>1. SelTypeOK' /\ UNCHANGED <<acct, conn>>
    BY <1>3, <1>t DEF Filtered, SelTypeOK
  <2>2. GoTo(r, l) /\ l \in {"done", "score"}
    BY <1>3 DEF Filtered
  <2> HIDE DEF l
  <2>3. l \in PCs /\ l \notin Charged \cup {"log", "used", "body"}
    BY <2>2 DEF PCs, Charged
  <2> QED
    BY <1>t, <2>1, <2>2, <2>3, OneRequest DEF ConnOK
<1>4. CASE Score(r)
  <2>1. PICK a \in todo[r] : score' = [score EXCEPT ![r][a] = conn[a]]
    BY <1>4 DEF Score
  <2>2. a \in Accounts /\ conn[a] \in Int
    BY <1>t DEF SelTypeOK, ConnOK
  <2>3. score' \in [Requests -> [Accounts -> Int]]
    BY <1>t, <2>1, <2>2 DEF SelTypeOK
  <2>4. SelTypeOK' /\ UNCHANGED <<acct, conn, pc>>
    BY <1>4, <1>t, <2>3 DEF Score, SelTypeOK
  <2> QED
    BY <1>t, <2>4 DEF ConnOK, ReqTypeOK
<1>5. CASE Acquire(r)
  <2>1. PICK a \in Best(r) : acct' = [acct EXCEPT ![r] = a] /\ IncrConn(a)
    BY <1>5 DEF Acquire
  <2>2. a \in Accounts
    BY <1>t DEF Best, SelTypeOK
  <2>3. NoScore \in [Accounts -> Int]
    BY DEF NoScore
  <2>4. SelTypeOK'
    BY <1>5, <1>t, <2>1, <2>2, <2>3 DEF Acquire, SelTypeOK
  <2>5. /\ GoTo(r, "prepare") /\ "prepare" \in PCs /\ acct'[r] \in Accounts
        /\ \A q \in Requests \ {r} : acct'[q] = acct[q]
    BY <1>5, <1>t, <2>1, <2>2 DEF Acquire, PCs, SelTypeOK
  <2>6. ConnOK'
    BY <2>1, <2>2 DEF IncrConn, ConnOK
  <2> QED
    BY <1>t, <2>4, <2>5, <2>6, OneRequest
<1> QED
  BY <1>1, <1>2, <1>3, <1>4, <1>5 DEF Choose, Select

\* The steps that only move on.
LEMMA MoveType ==
  ASSUME ReqTypeOK, NEW r \in Requests,
         \/ Prepare(r) \/ StartStream(r) \/ AbandonStream(r)
         \/ MarkLimited(r) \/ Ban(r) \/ EndBody(r) \/ UpdateLastUsed(r)
  PROVE  ReqTypeOK' /\ UNCHANGED conn
<1> USE DEF reqVars, storeVars
<1>1. PICK l \in {"lost", "upstream", "handoff", "setlimited", "release", "done"} :
        GoTo(r, l)
  BY DEF Prepare, StartStream, AbandonStream, MarkLimited, Ban, EndBody, UpdateLastUsed
<1>2. UNCHANGED <<acct, todo, cand, score, home, kind, reply, log, conn>>
  BY DEF Prepare, StartStream, AbandonStream, MarkLimited, Ban, EndBody, UpdateLastUsed
<1>3. pc[r] \in Charged \cup {"log", "used"}
  BY DEF Prepare, StartStream, AbandonStream, MarkLimited, Ban, EndBody,
         UpdateLastUsed, Charged
<1>4. acct[r] \in Accounts
  BY <1>3 DEF ReqTypeOK
<1>5. l \in PCs /\ l \notin {"body", "log", "used"}
  BY DEF PCs
<1> QED
  BY <1>1, <1>2, <1>4, <1>5, PlainMove

\* The answer of Anthropic.
LEMMA AnswerType ==
  ASSUME ReqTypeOK, NEW r \in Requests, Answer(r)
  PROVE  ReqTypeOK' /\ UNCHANGED conn
<1> USE DEF reqVars, storeVars
<1>1. PICK rep \in Replies :
        /\ reply' = [reply EXCEPT ![r] = rep]
        /\ \/ /\ rep = "limited"
              /\ GoTo(r, "mark")
              /\ UNCHANGED log
           \/ /\ rep \in {"limited_bad", "raise"}
              /\ FailLog(r)
              /\ GoTo(r, "release")
           \/ /\ rep \in {"ok", "banned", "error"}
              /\ SetLog(r, HttpStatus(rep), Sync(r) /\ rep # "ok")
              /\ GoTo(r, IF ~Sync(r) THEN "body"
                         ELSE IF rep = "banned" THEN "ban" ELSE "release")
  BY DEF Answer
<1>2. /\ reply' \in [Requests -> Replies \cup {"none"}]
      /\ UNCHANGED <<acct, todo, cand, score, home, kind, conn>>
      /\ acct[r] \in Accounts
      /\ log \in [Requests -> LogEntry]
      /\ log[r].written => log[r].status # 0
  BY <1>1 DEF ReqTypeOK, Answer, Charged, LogEntry
<1>3. SelTypeOK'
  BY <1>2, SelFrame DEF ReqTypeOK
<1>4. CASE rep = "limited"
  <2>1. GoTo(r, "mark") /\ "mark" \in PCs /\ UNCHANGED log
    BY <1>1, <1>4 DEF PCs
  <2> QED
    BY <1>2, <1>3, <2>1, OneRequest
<1>5. CASE rep \in {"limited_bad", "raise"}
  <2>1. FailLog(r) /\ GoTo(r, "release") /\ "release" \in PCs
    BY <1>1, <1>5 DEF PCs
  <2>2. /\ log' \in [Requests -> LogEntry]
        /\ \A q \in Requests \ {r} : log'[q] = log[q]
        /\ log'[r].written => log'[r].status # 0
    BY <2>1, FailLogType
  <2> QED
    BY <1>2, <1>3, <2>1, <2>2, OneRequest
<1>6. CASE rep \in {"ok", "banned", "error"}
  <2> DEFINE s == HttpStatus(rep)
             e == Sync(r) /\ rep # "ok"
             l == IF ~Sync(r) THEN "body"
                  ELSE IF rep = "banned" THEN "ban" ELSE "release"
  <2>1. s \in {200, 401, 500} /\ e \in BOOLEAN /\ l \in PCs
    BY <1>6 DEF HttpStatus, PCs
  <2>2. SetLog(r, s, e) /\ GoTo(r, l)
    BY <1>1, <1>6
  <2> HIDE DEF s, e, l
  <2>3. s \in {0, 200, 401, 429, 500} /\ s # 0
    BY <2>1
  <2>4. /\ log' \in [Requests -> LogEntry]
        /\ \A q \in Requests \ {r} : log'[q] = log[q]
        /\ log'[r].status # 0
    BY <2>1, <2>2, <2>3, SetLogType
  <2> QED
    BY <1>2, <1>3, <2>1, <2>2, <2>4, OneRequest
<1> QED
  BY <1>1, <1>4, <1>5, <1>6

\* The other steps that write the log.
LEMMA LogStepType ==
  ASSUME ReqTypeOK, NEW r \in Requests,
         SetLimited(r) \/ BreakBody(r) \/ WriteLog(r)
  PROVE  ReqTypeOK' /\ UNCHANGED conn
<1> USE DEF storeVars
<1>1. /\ UNCHANGED <<acct, todo, cand, score, home, kind, reply, conn>>
      /\ pc[r] \in {"setlimited", "body", "log"}
  BY DEF SetLimited, BreakBody, WriteLog
<1>2. /\ acct[r] \in Accounts
      /\ SelTypeOK'
      /\ reply' \in [Requests -> Replies \cup {"none"}]
      /\ log[r].written => log[r].status # 0
      /\ pc[r] \in {"body", "log"} => log[r].status # 0
  BY <1>1, SelFrame DEF ReqTypeOK, Charged
<1>3. CASE SetLimited(r)
  <2> DEFINE e == Sync(r)
             l == IF Sync(r) THEN "release" ELSE "body"
  <2>1. SetLog(r, 429, e) /\ GoTo(r, l) /\ e \in BOOLEAN /\ l \in PCs
    BY <1>3 DEF SetLimited, PCs, Sync
  <2> HIDE DEF e, l
  <2>2. /\ log' \in [Requests -> LogEntry]
        /\ \A q \in Requests \ {r} : log'[q] = log[q]
        /\ log'[r].status # 0
    BY <2>1, SetLogType
  <2> QED
    BY <1>1, <1>2, <2>1, <2>2, OneRequest
<1>4. CASE BreakBody(r)
  <2>1. FailLog(r) /\ GoTo(r, "release") /\ "release" \in PCs
    BY <1>4 DEF BreakBody, PCs
  <2>2. /\ log' \in [Requests -> LogEntry]
        /\ \A q \in Requests \ {r} : log'[q] = log[q]
        /\ log'[r].written => log'[r].status # 0
    BY <2>1, FailLogType
  <2> QED
    BY <1>1, <1>2, <2>1, <2>2, OneRequest
<1>5. CASE WriteLog(r)
  <2> DEFINE w == Exists(acct[r])
             l == IF Exists(acct[r]) THEN "used" ELSE "done"
  <2>1. SaveLog(r, w) /\ GoTo(r, l) /\ w \in BOOLEAN /\ l \in PCs
                      /\ pc[r] = "log"
    BY <1>5 DEF WriteLog, PCs, Exists
  <2> HIDE DEF w, l
  <2>2. /\ log' \in [Requests -> LogEntry]
        /\ \A q \in Requests \ {r} : log'[q] = log[q]
        /\ log'[r].status # 0
    BY <1>2, <2>1, SaveLogType
  <2> QED
    BY <1>1, <1>2, <2>1, <2>2, OneRequest
<1> QED
  BY <1>3, <1>4, <1>5

LEMMA DecrType ==
  ASSUME ConnOK, NEW a \in Accounts, DecrConn(a) \/ IncrConn(a)
  PROVE  ConnOK'
BY DEF ConnOK, DecrConn, IncrConn

\* The release, which gives a status to an entry that has none.
LEMMA ReleaseType ==
  ASSUME ReqTypeOK, ConnOK, NEW r \in Requests, Release(r)
  PROVE  ReqTypeOK' /\ ConnOK'
<1>1. /\ UNCHANGED <<acct, todo, cand, score, home, kind, reply>>
      /\ DecrConn(acct[r]) /\ GoTo(r, "log") /\ "log" \in PCs
      /\ SetLog(r, FinalStatus(r), log[r].error)
      /\ pc[r] = "release"
  BY DEF Release, PCs
<1>2. /\ acct[r] \in Accounts
      /\ SelTypeOK'
      /\ reply' \in [Requests -> Replies \cup {"none"}]
      /\ FinalStatus(r) \in {0, 200, 401, 429, 500} /\ FinalStatus(r) # 0
      /\ log[r].error \in BOOLEAN
  BY <1>1, SelFrame DEF ReqTypeOK, Charged, FinalStatus
<1>3. /\ log' \in [Requests -> LogEntry]
      /\ \A q \in Requests \ {r} : log'[q] = log[q]
      /\ log'[r].status # 0
  BY <1>1, <1>2, SetLogType
<1> QED
  BY <1>1, <1>2, <1>3, DecrType, OneRequest

\* Failing calls and clients that go away.
LEMMA DatabaseFailsType ==
  ASSUME ReqTypeOK, NEW r \in Requests, DatabaseFails(r)
  PROVE  ReqTypeOK' /\ UNCHANGED conn
<1>1. UNCHANGED <<acct, todo, cand, score, home, kind, reply, conn>>
  BY DEF DatabaseFails, storeVars
<1>2. CASE UNCHANGED log /\ GoTo(r, "done")
  <2>1. "done" \in PCs /\ "done" \notin Charged \cup {"body", "log", "used"}
    BY DEF PCs, Charged
  <2> QED
    BY <1>1, <1>2, <2>1, PlainMove
<1>3. CASE UNCHANGED log /\ GoTo(r, "release") /\ pc[r] = "ban"
  <2>1. "release" \in PCs /\ acct[r] \in Accounts
    BY <1>3 DEF PCs, Charged, ReqTypeOK
  <2> QED
    BY <1>1, <1>3, <2>1, PlainMove
<1>4. CASE FailLog(r) /\ GoTo(r, "release") /\ pc[r] = "setlimited"
  <2>1. "release" \in PCs /\ acct[r] \in Accounts
    BY <1>4 DEF PCs, Charged, ReqTypeOK
  <2>2. SelTypeOK' /\ reply' \in [Requests -> Replies \cup {"none"}]
    BY <1>1, SelFrame DEF ReqTypeOK
  <2>3. /\ log' \in [Requests -> LogEntry]
        /\ \A q \in Requests \ {r} : log'[q] = log[q]
        /\ log'[r].written => log'[r].status # 0
    BY <1>4, FailLogType
  <2> QED
    BY <1>1, <1>4, <2>1, <2>2, <2>3, OneRequest
<1> QED
  BY <1>2, <1>3, <1>4 DEF DatabaseFails

LEMMA CancelType ==
  ASSUME ReqTypeOK, ConnOK, NEW r \in Requests, CancelStream(r)
  PROVE  ReqTypeOK' /\ ConnOK'
<1>1. UNCHANGED <<acct, todo, cand, score, home, kind, reply>>
  BY DEF CancelStream
<1>2. PICK l \in {"done", "lost"} : GoTo(r, l)
  BY DEF CancelStream, DecrOrNot
<1>3. l \in PCs /\ acct[r] \in Accounts /\ l \notin {"body", "log", "used"}
  BY DEF PCs, CancelStream, Charged, ReqTypeOK
<1>4. ConnOK'
  <2>1. UNCHANGED conn \/ DecrConn(acct[r])
    BY DEF CancelStream, DecrOrNot
  <2> QED
    BY <1>3, <2>1, DecrType DEF ConnOK
<1>5. CASE UNCHANGED log
  BY <1>1, <1>2, <1>3, <1>4, <1>5, PlainMove
<1>6. CASE SaveLog(r, Exists(acct[r])) /\ pc[r] = "log"
  <2> DEFINE w == Exists(acct[r])
  <2>1. w \in BOOLEAN /\ SaveLog(r, w)
    BY <1>6 DEF Exists
  <2> HIDE DEF w
  <2>2. /\ log' \in [Requests -> LogEntry]
        /\ \A q \in Requests \ {r} : log'[q] = log[q]
        /\ log'[r].status = log[r].status
    BY <2>1, SaveLogType
  <2>3. log'[r].status # 0
    BY <1>6, <2>2 DEF ReqTypeOK
  <2>4. SelTypeOK' /\ reply' \in [Requests -> Replies \cup {"none"}]
    BY <1>1, SelFrame DEF ReqTypeOK
  <2> QED
    BY <1>1, <1>2, <1>3, <1>4, <2>2, <2>3, <2>4, OneRequest
<1> QED
  BY <1>5, <1>6 DEF CancelStream

LEMMA RedisFailsType ==
  ASSUME ReqTypeOK, ConnOK, NEW r \in Requests, RedisFails(r)
  PROVE  ReqTypeOK' /\ ConnOK'
<1>1. /\ UNCHANGED <<home, kind, reply>>
      /\ reply' \in [Requests -> Replies \cup {"none"}]
      /\ log \in [Requests -> LogEntry]
      /\ log[r].written => log[r].status # 0
      /\ SelTypeOK
  BY DEF RedisFails, ReqTypeOK, LogEntry
<1>2. NoScore \in [Accounts -> Int]
  BY DEF NoScore
<1>3. acct' \in [Requests -> Accounts \cup {NoAccount}] => SelTypeOK'
  BY <1>1, <1>2 DEF RedisFails, SelTypeOK
<1>4. CASE GoTo(r, "done") /\ UNCHANGED <<conn, limited, acct, log>>
  <2>1. "done" \in PCs /\ "done" \notin Charged \cup {"body", "log", "used"}
    BY DEF PCs, Charged
  <2>2. SelTypeOK'
    BY <1>1, <1>3, <1>4 DEF SelTypeOK
  <2> QED
    BY <1>1, <1>4, <2>1, <2>2, OneRequest DEF ConnOK
<1>5. CASE /\ \E a \in Best(r) : acct' = [acct EXCEPT ![r] = a] /\ IncrConn(a)
           /\ GoTo(r, "lost")
           /\ UNCHANGED <<limited, log>>
  <2>1. PICK a \in Best(r) : acct' = [acct EXCEPT ![r] = a] /\ IncrConn(a)
    BY <1>5
  <2>2. a \in Accounts
    BY <1>1 DEF Best, SelTypeOK
  <2>3. /\ acct' \in [Requests -> Accounts \cup {NoAccount}]
        /\ acct'[r] \in Accounts
        /\ \A q \in Requests \ {r} : acct'[q] = acct[q]
    BY <1>1, <2>1, <2>2 DEF SelTypeOK
  <2>4. "lost" \in PCs
    BY DEF PCs
  <2> QED
    BY <1>1, <1>3, <1>5, <2>1, <2>2, <2>3, <2>4, DecrType, OneRequest
<1>6. CASE FailLog(r) /\ GoTo(r, "release") /\ UNCHANGED <<conn, acct>> /\ pc[r] = "mark"
  <2>1. "release" \in PCs /\ acct'[r] \in Accounts
    BY <1>6 DEF PCs, Charged, ReqTypeOK
  <2>2. SelTypeOK'
    BY <1>1, <1>3, <1>6 DEF SelTypeOK
  <2>3. /\ log' \in [Requests -> LogEntry]
        /\ \A q \in Requests \ {r} : log'[q] = log[q]
        /\ log'[r].written => log'[r].status # 0
    BY <1>6, FailLogType
  <2> QED
    BY <1>1, <1>6, <2>1, <2>2, <2>3, OneRequest DEF ConnOK
<1>7. CASE DecrOrNot(r) /\ UNCHANGED <<limited, acct, log>> /\ pc[r] = "release"
  <2>1. PICK l \in {"done", "lost"} : GoTo(r, l)
    BY <1>7 DEF DecrOrNot
  <2>2. l \in PCs /\ acct'[r] \in Accounts /\ l \notin {"body", "log", "used"}
    BY <1>7 DEF PCs, Charged, ReqTypeOK
  <2>3. SelTypeOK'
    BY <1>1, <1>3, <1>7 DEF SelTypeOK
  <2>4. ConnOK'
    BY <1>7, <2>2, DecrType DEF DecrOrNot, ConnOK
  <2> QED
    BY <1>1, <1>7, <2>1, <2>2, <2>3, <2>4, OneRequest
<1> QED
  BY <1>4, <1>5, <1>6, <1>7 DEF RedisFails

\* Whatever happens to a request keeps the types.
LEMMA RequestType ==
  ASSUME ReqTypeOK, ConnOK, NEW r \in Requests, Step(r) \/ Mishap(r) \/ Failure(r)
  PROVE  ReqTypeOK' /\ ConnOK'
<1>1. UNCHANGED conn => ConnOK'
  BY DEF ConnOK
<1> QED
  BY <1>1, ChooseType, MoveType, AnswerType, LogStepType, ReleaseType,
     DatabaseFailsType, CancelType, RedisFailsType DEF Step, Mishap, Failure

-----------------------------------------------------------------------------
(* Accounting.                                                                *)

LEMMA HoldersFinite ==
  \A a \in Accounts : /\ IsFiniteSet(Holders(a))
                      /\ Cardinality(Holders(a)) \in Nat
<1> SUFFICES ASSUME NEW a \in Accounts
             PROVE  IsFiniteSet(Holders(a)) /\ Cardinality(Holders(a)) \in Nat
  OBVIOUS
<1>1. Holders(a) \subseteq Requests
  BY DEF Holders
<1> QED
  BY <1>1, RequestsAssumption, FS_Subset, FS_CardinalityType

\* The three things a step of request r can do to the accounts: nothing, ...
Neutral(r) ==
  /\ UNCHANGED <<conn, acct>>
  /\ \E l \in PCs : GoTo(r, l) /\ (l \in Charged <=> pc[r] \in Charged)

\* ... count one connection more, ...
Charge(r) ==
  \E a \in Accounts, l \in Charged :
    /\ pc[r] \notin Charged
    /\ acct' = [acct EXCEPT ![r] = a]
    /\ IncrConn(a)
    /\ GoTo(r, l)

\* ... or count one less.
Discharge(r) ==
  \E l \in PCs \ Charged :
    /\ pc[r] \in Charged
    /\ UNCHANGED acct
    /\ DecrConn(acct[r])
    /\ GoTo(r, l)

LEMMA NeutralKeeps ==
  ASSUME ReqTypeOK, ConnAccounting, NEW r \in Requests, Neutral(r)
  PROVE  ConnAccounting'
<1>1. \A q \in Requests : pc'[q] \in Charged <=> pc[q] \in Charged
  BY DEF Neutral, GoTo, ReqTypeOK
<1>2. \A a \in Accounts : Holders(a)' = Holders(a)
  BY <1>1 DEF Neutral, Holders
<1> QED
  BY <1>2 DEF Neutral, ConnAccounting

LEMMA ChargeKeeps ==
  ASSUME ReqTypeOK, ConnOK, ConnAccounting, NEW r \in Requests, Charge(r)
  PROVE  ConnAccounting'
<1>1. PICK a \in Accounts, l \in Charged :
        /\ pc[r] \notin Charged
        /\ acct' = [acct EXCEPT ![r] = a]
        /\ IncrConn(a)
        /\ GoTo(r, l)
  BY DEF Charge
<1>2. /\ acct'[r] = a /\ pc'[r] \in Charged
      /\ \A q \in Requests \ {r} : acct'[q] = acct[q] /\ pc'[q] = pc[q]
  BY <1>1 DEF ReqTypeOK, SelTypeOK, GoTo
<1> SUFFICES ASSUME NEW b \in Accounts
             PROVE  conn'[b] = Cardinality(Holders(b)')
  BY DEF ConnAccounting
<1>3. /\ conn[b] = Cardinality(Holders(b)) /\ Cardinality(Holders(b)) \in Nat
      /\ IsFiniteSet(Holders(b))
      /\ conn'[b] = IF b = a THEN conn[b] + 1 ELSE conn[b]
  BY <1>1, HoldersFinite DEF ConnAccounting, IncrConn, ConnOK
<1>4. CASE b = a
  <2>1. Holders(b)' = Holders(b) \cup {r} /\ r \notin Holders(b)
    BY <1>1, <1>2, <1>4 DEF Holders
  <2> QED
    BY <1>3, <1>4, <2>1, FS_AddElement
<1>5. CASE b # a
  <2>1. Holders(b)' = Holders(b)
    BY <1>1, <1>2, <1>5 DEF Holders
  <2> QED
    BY <1>3, <1>5, <2>1
<1> QED
  BY <1>4, <1>5

LEMMA DischargeKeeps ==
  ASSUME ReqTypeOK, ConnOK, ConnAccounting, NEW r \in Requests, Discharge(r)
  PROVE  ConnAccounting'
<1>1. PICK l \in PCs \ Charged :
        /\ pc[r] \in Charged
        /\ UNCHANGED acct
        /\ DecrConn(acct[r])
        /\ GoTo(r, l)
  BY DEF Discharge
<1>2. /\ pc'[r] \notin Charged
      /\ \A q \in Requests \ {r} : pc'[q] = pc[q]
  BY <1>1 DEF ReqTypeOK, GoTo
<1> SUFFICES ASSUME NEW b \in Accounts
             PROVE  conn'[b] = Cardinality(Holders(b)')
  BY DEF ConnAccounting
<1>3. /\ conn[b] = Cardinality(Holders(b)) /\ Cardinality(Holders(b)) \in Nat
      /\ IsFiniteSet(Holders(b))
      /\ conn'[b] = IF b = acct[r] THEN (IF conn[b] > 0 THEN conn[b] - 1 ELSE 0)
                                   ELSE conn[b]
  BY <1>1, HoldersFinite DEF ConnAccounting, DecrConn, ConnOK
<1>4. CASE b = acct[r]
  <2>1. Holders(b)' = Holders(b) \ {r} /\ r \in Holders(b)
    BY <1>1, <1>2, <1>4 DEF Holders
  <2>2. Cardinality(Holders(b)') = Cardinality(Holders(b)) - 1
    BY <1>3, <2>1, FS_RemoveElement
  <2>3. Cardinality(Holders(b)') \in Nat
    BY <1>3, <2>1, FS_RemoveElement, FS_CardinalityType
  <2>4. conn[b] > 0
    BY <1>3, <2>2, <2>3
  <2> QED
    BY <1>3, <1>4, <2>2, <2>4
<1>5. CASE b # acct[r]
  <2>1. Holders(b)' = Holders(b)
    BY <1>1, <1>2, <1>5 DEF Holders
  <2> QED
    BY <1>3, <1>5, <2>1
<1> QED
  BY <1>4, <1>5

\* Every step of a request is one of the three.
LEMMA StepKind ==
  ASSUME ReqTypeOK, NEW r \in Requests, Step(r) \/ Mishap(r) \/ Failure(r)
  PROVE  Neutral(r) \/ Charge(r) \/ Discharge(r)
<1> USE DEF storeVars, reqVars, PCs, Charged
<1>1. CASE Choose(r)
  <2>1. CASE List(r) \/ Filtered(r)
    BY <2>1 DEF List, Filtered, Neutral
  <2>2. CASE Filter(r) \/ Score(r)
    <3>1. UNCHANGED <<conn, acct, pc>> /\ pc[r] \in PCs
      BY <2>2 DEF Filter, Score
    <3>2. GoTo(r, pc[r])
      BY <3>1 DEF GoTo, ReqTypeOK
    <3> QED
      BY <3>1, <3>2 DEF Neutral
  <2>3. CASE Acquire(r)
    <3>1. PICK a \in Best(r) : acct' = [acct EXCEPT ![r] = a] /\ IncrConn(a)
      BY <2>3 DEF Acquire
    <3>2. a \in Accounts
      BY DEF Best, ReqTypeOK, SelTypeOK
    <3> QED
      BY <2>3, <3>1, <3>2 DEF Acquire, Charge
  <2> QED
    BY <1>1, <2>1, <2>2, <2>3 DEF Choose, Select
<1>2. CASE Prepare(r) \/ StartStream(r) \/ AbandonStream(r)
  BY <1>2 DEF Prepare, StartStream, AbandonStream, Neutral
<1>3. CASE Answer(r) \/ MarkLimited(r) \/ SetLimited(r) \/ Ban(r)
  BY <1>3 DEF Answer, MarkLimited, SetLimited, Ban, Neutral
<1>4. CASE EndBody(r) \/ BreakBody(r) \/ WriteLog(r) \/ UpdateLastUsed(r)
  BY <1>4 DEF EndBody, BreakBody, WriteLog, UpdateLastUsed, Neutral
<1>5. CASE Release(r)
  BY <1>5 DEF Release, Discharge
<1>6. CASE DatabaseFails(r)
  BY <1>6 DEF DatabaseFails, Neutral
<1>7. CASE CancelStream(r)
  BY <1>7 DEF CancelStream, DecrOrNot, Neutral, Discharge
<1>8. CASE RedisFails(r)
  <2>1. \A a \in Best(r) : a \in Accounts
    BY DEF Best, ReqTypeOK, SelTypeOK
  <2> QED
    BY <1>8, <2>1 DEF RedisFails, DecrOrNot, Neutral, Charge, Discharge
<1> QED
  BY <1>1, <1>2, <1>3, <1>4, <1>5, <1>6, <1>7, <1>8 DEF Step, Mishap, Failure

LEMMA RequestAccounting ==
  ASSUME ReqTypeOK, ConnOK, ConnAccounting,
         NEW r \in Requests, Step(r) \/ Mishap(r) \/ Failure(r)
  PROVE  ConnAccounting'
BY StepKind, NeutralKeeps, ChargeKeeps, DischargeKeeps

-----------------------------------------------------------------------------
(* The theorems of ProxySafety.                                               *)

\* What a request does to the rest of the store.
LEMMA StoreStep ==
  ASSUME StoreTypeOK, ReqTypeOK, NEW r \in Requests, Step(r) \/ Mishap(r) \/ Failure(r)
  PROVE  /\ status' \in [Accounts -> RowStates]
         /\ limited' \subseteq Accounts
         /\ UNCHANGED pool
<1> USE DEF storeVars, reqVars, StoreTypeOK
<1>1. CASE Choose(r)
  BY <1>1 DEF Choose, Select, List, Filter, Filtered, Score, Acquire
<1>2. CASE Prepare(r) \/ StartStream(r) \/ AbandonStream(r) \/ Answer(r)
           \/ EndBody(r) \/ BreakBody(r) \/ UpdateLastUsed(r)
  BY <1>2 DEF Prepare, StartStream, AbandonStream, Answer, EndBody, BreakBody,
              UpdateLastUsed
<1>3. CASE MarkLimited(r)
  BY <1>3 DEF MarkLimited, Charged, ReqTypeOK
<1>4. CASE SetLimited(r) \/ Ban(r)
  BY <1>4 DEF SetLimited, Ban, UpdateStatus, RowStates, AccountStatus
<1>5. CASE Release(r) \/ WriteLog(r) \/ DatabaseFails(r)
  BY <1>5 DEF Release, WriteLog, DatabaseFails
<1>6. CASE CancelStream(r)
  <2>1. UNCHANGED limited \/ (MarkOrNot(r) /\ pc[r] = "mark")
    BY <1>6 DEF CancelStream
  <2>2. UNCHANGED status \/ UpdateStatus(acct[r], "rate_limited")
    BY <1>6 DEF CancelStream, UpdateStatus
  <2>3. UNCHANGED pool
    BY <1>6 DEF CancelStream
  <2>4. status' \in [Accounts -> RowStates]
    BY <2>2 DEF UpdateStatus, RowStates, AccountStatus
  <2>5. limited' \subseteq Accounts
    BY <2>1 DEF MarkOrNot, Charged, ReqTypeOK
  <2> QED
    BY <2>3, <2>4, <2>5
<1>7. CASE RedisFails(r)
  <2>1. UNCHANGED limited \/ (MarkOrNot(r) /\ pc[r] = "mark")
    BY <1>7 DEF RedisFails
  <2>2. UNCHANGED <<status, pool>>
    BY <1>7 DEF RedisFails
  <2> QED
    BY <2>1, <2>2 DEF MarkOrNot, Charged, ReqTypeOK
<1> QED
  BY <1>1, <1>2, <1>3, <1>4, <1>5, <1>6, <1>7 DEF Step, Mishap, Failure

\* The expiry of a limit and stuttering leave the requests alone.
LEMMA RequestFrame ==
  ASSUME UNCHANGED <<conn, selVars, reqVars>>
  PROVE  /\ ReqTypeOK => ReqTypeOK'
         /\ ConnAccounting => ConnAccounting'
BY DEF selVars, reqVars, ReqTypeOK, SelTypeOK, ConnAccounting, Holders

LEMMA InitType == ProxyInit => ProxyTypeOK
<1> SUFFICES ASSUME ProxyInit PROVE ProxyTypeOK
  OBVIOUS
<1>1. StoreTypeOK
  BY DEF ProxyInit, StoreTypeOK, RowStates, AccountStatus
<1>2. SelTypeOK
  BY DEF ProxyInit, SelInit, SelTypeOK, NoScore
<1>3. /\ pc = [r \in Requests |-> "new"]
      /\ log = [r \in Requests |-> NewLog]
      /\ ReqInit
  BY DEF ProxyInit, SelInit, ReqInit
<1>4. NewLog \in LogEntry /\ ~NewLog.written
  BY DEF NewLog, LogEntry
<1>5. \A r \in Requests : ~log[r].written /\ pc[r] \notin Charged \cup {"body", "log", "used"}
  BY <1>3, <1>4 DEF Charged
<1>6. log \in [Requests -> LogEntry] /\ pc \in [Requests -> PCs]
  BY <1>3, <1>4 DEF PCs
<1>7. ReqTypeOK
  BY <1>2, <1>3, <1>5, <1>6 DEF ReqTypeOK, ReqInit, LogEntry
<1> QED
  BY <1>1, <1>7 DEF ProxyTypeOK

\* Whatever requests do, and whichever calls fail, every variable keeps its
\* type, and a row of the request log has a status (proxy_service.py:119-129).
THEOREM ProxyTypeCorrect == ProxySafety => []ProxyTypeOK
<1>1. ProxyTypeOK /\ [ProxyNext]_proxyVars => ProxyTypeOK'
  <2> SUFFICES ASSUME ProxyTypeOK, [ProxyNext]_proxyVars PROVE ProxyTypeOK'
    OBVIOUS
  <2>1. StoreTypeOK /\ ReqTypeOK /\ ConnOK
    BY DEF ProxyTypeOK, StoreTypeOK, ConnOK
  <2>2. ASSUME NEW r \in Requests, Step(r) \/ Mishap(r) \/ Failure(r) PROVE ProxyTypeOK'
    BY <2>1, <2>2, RequestType, StoreStep DEF ProxyTypeOK, StoreTypeOK, ConnOK
  <2>3. ASSUME NEW a \in Accounts, Expiry(a) PROVE ProxyTypeOK'
    <3>1. UNCHANGED <<conn, selVars, reqVars, status, pool>> /\ limited' = limited \ {a}
      BY <2>3 DEF Expiry, LimitExpires
    <3> QED
      BY <3>1, <2>1, RequestFrame DEF ProxyTypeOK, StoreTypeOK
  <2>4. CASE Quiescent \/ UNCHANGED proxyVars
    <3>1. UNCHANGED <<conn, selVars, reqVars, status, pool, limited>>
      BY <2>4 DEF Quiescent, proxyVars, storeVars
    <3> QED
      BY <3>1, <2>1, RequestFrame DEF ProxyTypeOK, StoreTypeOK
  <2> QED
    BY <2>2, <2>3, <2>4 DEF ProxyNext, CalmNext
<1> QED
  BY <1>1, InitType, PTL DEF ProxySafety

\* The counter of an account is exact: between the INCR of acquire and the DECR
\* of release (proxy_service.py:75, 120 and 215), and after it where a handler
\* ends without one.
THEOREM Accounted == ProxySafety => []ConnAccounting
<1>1. ProxyInit => ConnAccounting
  <2> SUFFICES ASSUME ProxyInit, NEW a \in Accounts
               PROVE  conn[a] = Cardinality(Holders(a))
    BY DEF ConnAccounting
  <2>1. Holders(a) = {}
    BY DEF ProxyInit, SelInit, Holders, Charged
  <2> QED
    BY <2>1, FS_EmptySet DEF ProxyInit
<1>2. ProxyTypeOK /\ ConnAccounting /\ [ProxyNext]_proxyVars => ConnAccounting'
  <2> SUFFICES ASSUME ProxyTypeOK, ConnAccounting, [ProxyNext]_proxyVars
               PROVE  ConnAccounting'
    OBVIOUS
  <2>1. ReqTypeOK /\ ConnOK
    BY DEF ProxyTypeOK, StoreTypeOK, ConnOK
  <2>2. ASSUME NEW r \in Requests, Step(r) \/ Mishap(r) \/ Failure(r) PROVE ConnAccounting'
    BY <2>1, <2>2, RequestAccounting
  <2>3. CASE (\E a \in Accounts : Expiry(a)) \/ Quiescent \/ UNCHANGED proxyVars
    <3>1. UNCHANGED <<conn, selVars, reqVars>>
      BY <2>3 DEF Expiry, LimitExpires, Quiescent, proxyVars, storeVars
    <3> QED
      BY <3>1, RequestFrame
  <2> QED
    BY <2>2, <2>3 DEF ProxyNext, CalmNext
<1> QED
  BY <1>1, <1>2, ProxyTypeCorrect, PTL DEF ProxySafety

-----------------------------------------------------------------------------
(* The request log.  CleanLogMeansOk is not inductive: that the 200 which the *)
(* finally block writes over a status of 0 always comes with an error has to  *)
(* be known from the way there.                                               *)

\* Before an answer has been dealt with, nothing is in the entry.
Unanswered == {"new", "filter", "score", "prepare", "handoff", "upstream", "mark",
               "setlimited"}

LogOK(r) ==
  /\ pc[r] \in Unanswered => log[r].status = 0
  /\ log[r].status = 200 /\ ~log[r].error => reply[r] = "ok"
  /\ pc[r] \in {"ban", "body", "release"} /\ log[r].status = 0 => log[r].error

LogInv == \A r \in Requests : LogOK(r)

\* A step of r does not touch what is known of the others.
LEMMA OthersKeep ==
  ASSUME ReqTypeOK, NEW r \in Requests, Step(r) \/ Mishap(r) \/ Failure(r),
         NEW q \in Requests, q # r
  PROVE  pc'[q] = pc[q] /\ log'[q] = log[q] /\ reply'[q] = reply[q]
<1>1. \A l : GoTo(r, l) => pc'[q] = pc[q]
  BY DEF GoTo, ReqTypeOK
<1>2. /\ \A s, e : SetLog(r, s, e) => log'[q] = log[q]
      /\ \A w : SaveLog(r, w) => log'[q] = log[q]
      /\ FailLog(r) => log'[q] = log[q]
  BY DEF SetLog, SaveLog, FailLog, ReqTypeOK
<1> USE <1>1, <1>2 DEF reqVars
<1>3. CASE Choose(r)
  BY <1>3 DEF Choose, Select, List, Filter, Filtered, Score, Acquire
<1>4. CASE Prepare(r) \/ StartStream(r) \/ AbandonStream(r) \/ MarkLimited(r)
           \/ Ban(r) \/ EndBody(r) \/ UpdateLastUsed(r)
  BY <1>4 DEF Prepare, StartStream, AbandonStream, MarkLimited, Ban, EndBody,
              UpdateLastUsed
<1>5. CASE Answer(r)
  <2>1. reply'[q] = reply[q] /\ log'[q] = log[q]
    BY <1>5 DEF Answer, ReqTypeOK
  <2>2. pc'[q] = pc[q]
    BY <1>5 DEF Answer
  <2> QED
    BY <2>1, <2>2
<1>6. CASE SetLimited(r) \/ BreakBody(r) \/ Release(r) \/ WriteLog(r)
  BY <1>6 DEF SetLimited, BreakBody, Release, WriteLog
<1>7. CASE DatabaseFails(r) \/ RedisFails(r)
  BY <1>7 DEF DatabaseFails, RedisFails, DecrOrNot
<1>8. CASE CancelStream(r)
  BY <1>8 DEF CancelStream, DecrOrNot
<1> QED
  BY <1>3, <1>4, <1>5, <1>6, <1>7, <1>8 DEF Step, Mishap, Failure

\* A step that leaves entry and reply alone, from a place where LogOK says at
\* least as much as where it goes to.
LEMMA QuietLog ==
  ASSUME ReqTypeOK, NEW r \in Requests, LogOK(r), NEW l, GoTo(r, l),
         log'[r].status = log[r].status, log'[r].error = log[r].error,
         UNCHANGED reply,
         l \in Unanswered => pc[r] \in Unanswered,
         l \in {"ban", "body", "release"} => pc[r] \in {"ban", "body", "release"}
  PROVE  LogOK(r)'
<1>1. pc'[r] = l
  BY DEF GoTo, ReqTypeOK
<1> QED
  BY <1>1 DEF LogOK

\* An entry that names an error.
LEMMA ErrorLog ==
  ASSUME ReqTypeOK, NEW r \in Requests, NEW l, l \notin Unanswered, GoTo(r, l),
         log'[r].error
  PROVE  LogOK(r)'
<1>1. pc'[r] = l
  BY DEF GoTo, ReqTypeOK
<1> QED
  BY <1>1 DEF LogOK

LEMMA ChooseLog ==
  ASSUME ReqTypeOK, NEW r \in Requests, LogOK(r), Choose(r)
  PROVE  LogOK(r)'
<1>1. UNCHANGED <<log, reply>>
  BY DEF Choose, reqVars
<1>2. CASE \E l \in {"filter", "done", "score", "prepare"} :
             GoTo(r, l) /\ pc[r] \in Unanswered
  BY <1>1, <1>2, QuietLog DEF Unanswered
<1>3. CASE UNCHANGED pc
  BY <1>1, <1>3 DEF LogOK
<1>4. List(r) \/ Filtered(r) \/ Acquire(r)
        => \E l \in {"filter", "done", "score", "prepare"} :
             GoTo(r, l) /\ pc[r] \in Unanswered
  BY DEF List, Filtered, Acquire, Unanswered
<1>5. Filter(r) \/ Score(r) => UNCHANGED pc
  BY DEF Filter, Score
<1> QED
  BY <1>2, <1>3, <1>4, <1>5 DEF Choose, Select

LEMMA AnswerLog ==
  ASSUME ReqTypeOK, NEW r \in Requests, LogOK(r), Answer(r)
  PROVE  LogOK(r)'
<1>1. PICK rep \in Replies :
        /\ reply' = [reply EXCEPT ![r] = rep]
        /\ \/ /\ rep = "limited"
              /\ GoTo(r, "mark")
              /\ UNCHANGED log
           \/ /\ rep \in {"limited_bad", "raise"}
              /\ FailLog(r)
              /\ GoTo(r, "release")
           \/ /\ rep \in {"ok", "banned", "error"}
              /\ SetLog(r, HttpStatus(rep), Sync(r) /\ rep # "ok")
              /\ GoTo(r, IF ~Sync(r) THEN "body"
                         ELSE IF rep = "banned" THEN "ban" ELSE "release")
  BY DEF Answer
<1>2. log[r].status = 0 /\ reply'[r] = rep
  BY <1>1 DEF Answer, LogOK, Unanswered, ReqTypeOK
<1>3. CASE rep = "limited"
  <2>1. UNCHANGED log /\ pc'[r] = "mark"
    BY <1>1, <1>3 DEF GoTo, ReqTypeOK
  <2> QED
    BY <1>2, <2>1 DEF LogOK
<1>4. CASE rep \in {"limited_bad", "raise"}
  <2>1. FailLog(r) /\ GoTo(r, "release")
    BY <1>1, <1>4
  <2>2. log'[r].error /\ "release" \notin Unanswered
    BY <2>1, FailLogType DEF Unanswered
  <2> QED
    BY <2>1, <2>2, ErrorLog
<1>5. CASE rep \in {"ok", "banned", "error"}
  <2> DEFINE s == HttpStatus(rep)
             e == Sync(r) /\ rep # "ok"
             l == IF ~Sync(r) THEN "body"
                  ELSE IF rep = "banned" THEN "ban" ELSE "release"
  <2>1. /\ s \in {0, 200, 401, 429, 500} /\ s # 0 /\ (s = 200 => rep = "ok")
        /\ e \in BOOLEAN /\ l \in {"body", "ban", "release"}
    BY <1>5 DEF HttpStatus
  <2>2. SetLog(r, s, e) /\ GoTo(r, l)
    BY <1>1, <1>5
  <2> HIDE DEF s, e, l
  <2>3. log'[r].status = s
    BY <2>1, <2>2, SetLogType
  <2>4. pc'[r] = l /\ l \notin Unanswered
    BY <2>1, <2>2 DEF GoTo, ReqTypeOK, Unanswered
  <2> QED
    BY <1>2, <2>1, <2>3, <2>4 DEF LogOK
<1> QED
  BY <1>1, <1>3, <1>4, <1>5

\* The release turns a status of 0, which comes with an error, into 200.
LEMMA ReleaseLog ==
  ASSUME ReqTypeOK, NEW r \in Requests, LogOK(r), Release(r)
  PROVE  LogOK(r)'
<1> DEFINE s == FinalStatus(r)
           e == log[r].error
<1>1. /\ s \in {0, 200, 401, 429, 500} /\ e \in BOOLEAN
      /\ s = 200 /\ ~e => reply[r] = "ok"
  BY DEF FinalStatus, ReqTypeOK, LogOK, Release
<1>2. SetLog(r, s, e) /\ GoTo(r, "log") /\ UNCHANGED reply
  BY DEF Release
<1> HIDE DEF s, e
<1>3. log'[r].status = s /\ log'[r].error = e /\ pc'[r] = "log"
  BY <1>1, <1>2, SetLogType DEF GoTo, ReqTypeOK
<1> QED
  BY <1>1, <1>2, <1>3 DEF LogOK, Unanswered

LEMMA LogStep ==
  ASSUME ReqTypeOK, NEW r \in Requests, LogOK(r), Step(r) \/ Mishap(r) \/ Failure(r)
  PROVE  LogOK(r)'
<1> USE DEF reqVars
<1>1. CASE Prepare(r) \/ StartStream(r) \/ AbandonStream(r) \/ MarkLimited(r)
           \/ Ban(r) \/ EndBody(r) \/ UpdateLastUsed(r)
  <2>1. \E l \in {"lost", "upstream", "handoff", "setlimited", "release", "done"} :
          /\ GoTo(r, l)
          /\ l \in Unanswered => pc[r] \in Unanswered
          /\ l = "release" => pc[r] \in {"ban", "body"}
    BY <1>1 DEF Prepare, StartStream, AbandonStream, MarkLimited, Ban, EndBody,
                UpdateLastUsed, Unanswered
  <2>2. UNCHANGED <<log, reply>>
    BY <1>1 DEF Prepare, StartStream, AbandonStream, MarkLimited, Ban, EndBody,
                UpdateLastUsed
  <2> QED
    BY <2>1, <2>2, QuietLog
<1>2. CASE SetLimited(r)
  <2> DEFINE e == Sync(r)
             l == IF Sync(r) THEN "release" ELSE "body"
  <2>1. SetLog(r, 429, e) /\ GoTo(r, l) /\ e \in BOOLEAN /\ l \in {"release", "body"}
    BY <1>2 DEF SetLimited, Sync
  <2> HIDE DEF e, l
  <2>2. log'[r].status = 429 /\ pc'[r] = l
    BY <2>1, SetLogType DEF GoTo, ReqTypeOK
  <2> QED
    BY <2>1, <2>2 DEF LogOK, Unanswered
<1>3. CASE BreakBody(r)
  <2>1. log'[r].error /\ GoTo(r, "release")
    BY <1>3, FailLogType DEF BreakBody
  <2> QED
    BY <2>1, ErrorLog DEF Unanswered
<1>4. CASE WriteLog(r)
  <2> DEFINE w == Exists(acct[r])
             l == IF Exists(acct[r]) THEN "used" ELSE "done"
  <2>1. SaveLog(r, w) /\ GoTo(r, l) /\ w \in BOOLEAN /\ l \in {"used", "done"}
        /\ UNCHANGED reply
    BY <1>4 DEF WriteLog, Exists
  <2> HIDE DEF w, l
  <2>2. log'[r].status = log[r].status /\ log'[r].error = log[r].error
    BY <2>1, SaveLogType
  <2> QED
    BY <2>1, <2>2, QuietLog DEF Unanswered
<1>5. CASE DatabaseFails(r) \/ RedisFails(r)
  <2>1. UNCHANGED reply
    BY <1>5 DEF DatabaseFails, RedisFails
  <2>2. CASE FailLog(r) /\ GoTo(r, "release")
    BY <2>2, FailLogType, ErrorLog DEF Unanswered
  <2>3. CASE UNCHANGED log /\ \E l \in {"done", "lost"} : GoTo(r, l)
    BY <2>1, <2>3, QuietLog DEF Unanswered
  <2>4. CASE UNCHANGED log /\ GoTo(r, "release") /\ pc[r] = "ban"
    BY <2>1, <2>4, QuietLog DEF Unanswered
  <2> QED
    BY <1>5, <2>2, <2>3, <2>4 DEF DatabaseFails, RedisFails, DecrOrNot
<1>6. CASE CancelStream(r)
  <2>1. UNCHANGED reply /\ \E l \in {"done", "lost"} : GoTo(r, l)
    BY <1>6 DEF CancelStream, DecrOrNot
  <2>2. UNCHANGED log \/ SaveLog(r, Exists(acct[r]))
    BY <1>6 DEF CancelStream
  <2>3. log'[r].status = log[r].status /\ log'[r].error = log[r].error
    <3> DEFINE w == Exists(acct[r])
    <3>1. w \in BOOLEAN /\ (UNCHANGED log \/ SaveLog(r, w))
      BY <2>2 DEF Exists
    <3> HIDE DEF w
    <3> QED
      BY <3>1, SaveLogType
  <2> QED
    BY <2>1, <2>3, QuietLog DEF Unanswered
<1> QED
  BY <1>1, <1>2, <1>3, <1>4, <1>5, <1>6, ChooseLog, AnswerLog, ReleaseLog
  DEF Step, Mishap, Failure

LEMMA RequestLog ==
  ASSUME ReqTypeOK, LogInv, NEW r \in Requests, Step(r) \/ Mishap(r) \/ Failure(r)
  PROVE  LogInv'
<1> SUFFICES ASSUME NEW q \in Requests PROVE LogOK(q)'
  BY DEF LogInv
<1>1. CASE q = r
  BY <1>1, LogStep DEF LogInv
<1>2. CASE q # r
  BY <1>2, OthersKeep DEF LogInv, LogOK
<1> QED
  BY <1>1, <1>2

\* A row of the request log that says 200 and names no error stands for a
\* request that Anthropic answered with 2xx, although the finally block writes
\* 200 over a missing status (proxy_service.py:123-124 and 218-219).
THEOREM CleanLog == ProxySafety => []CleanLogMeansOk
<1>1. ProxyInit => LogInv
  <2> SUFFICES ASSUME ProxyInit, NEW r \in Requests PROVE LogOK(r)
    BY DEF LogInv
  <2>1. pc[r] = "new" /\ log[r] = NewLog
    BY DEF ProxyInit, SelInit, ReqInit
  <2> QED
    BY <2>1 DEF LogOK, NewLog
<1>2. ProxyTypeOK /\ LogInv /\ [ProxyNext]_proxyVars => LogInv'
  <2> SUFFICES ASSUME ProxyTypeOK, LogInv, [ProxyNext]_proxyVars PROVE LogInv'
    OBVIOUS
  <2>1. ReqTypeOK
    BY DEF ProxyTypeOK
  <2>2. ASSUME NEW r \in Requests, Step(r) \/ Mishap(r) \/ Failure(r) PROVE LogInv'
    BY <2>1, <2>2, RequestLog
  <2>3. CASE (\E a \in Accounts : Expiry(a)) \/ Quiescent \/ UNCHANGED proxyVars
    <3>1. UNCHANGED <<pc, log, reply>>
      BY <2>3 DEF Expiry, Quiescent, proxyVars, selVars, reqVars
    <3> QED
      BY <3>1 DEF LogInv, LogOK
  <2> QED
    BY <2>2, <2>3 DEF ProxyNext, CalmNext
<1>3. LogInv => CleanLogMeansOk
  BY DEF LogInv, LogOK, CleanLogMeansOk
<1> QED
  BY <1>1, <1>2, <1>3, ProxyTypeCorrect, PTL DEF ProxySafety

-----------------------------------------------------------------------------
(* While Redis and PostgreSQL answer every call.  Accounts may be created and *)
(* deleted all the time: the lemmas say what a request relies on, and both     *)
(* CalmSpec and the server as a whole keep it.                                 *)

StatusOK == status \in [Accounts -> RowStates]

\* What a request does to the rows of the table.
LEMMA RowStep ==
  ASSUME StatusOK, ReqTypeOK, NEW r \in Requests,
         Step(r) \/ Mishap(r) \/ Failure(r), NEW a \in Accounts
  PROVE  \/ status'[a] = status[a]
         \/ Exists(a) /\ status'[a] \in {"rate_limited", "banned"}
<1> USE DEF storeVars, reqVars, StatusOK
<1>1. CASE Choose(r)
  BY <1>1 DEF Choose, Select, List, Filter, Filtered, Score, Acquire
<1>2. CASE Prepare(r) \/ StartStream(r) \/ AbandonStream(r) \/ Answer(r)
           \/ MarkLimited(r) \/ EndBody(r) \/ BreakBody(r) \/ UpdateLastUsed(r)
  BY <1>2 DEF Prepare, StartStream, AbandonStream, Answer, MarkLimited, EndBody,
              BreakBody, UpdateLastUsed
<1>3. CASE SetLimited(r) \/ Ban(r)
  BY <1>3 DEF SetLimited, Ban, UpdateStatus
<1>4. CASE Release(r) \/ WriteLog(r) \/ DatabaseFails(r) \/ RedisFails(r)
  BY <1>4 DEF Release, WriteLog, DatabaseFails, RedisFails
<1>5. CASE CancelStream(r)
  <2>1. UNCHANGED status \/ UpdateStatus(acct[r], "rate_limited")
    BY <1>5 DEF CancelStream, UpdateStatus
  <2> QED
    BY <2>1 DEF UpdateStatus
<1> QED
  BY <1>1, <1>2, <1>3, <1>4, <1>5 DEF Step, Mishap, Failure

\* A step of r leaves the choice of the others alone, and what kind they are of.
LEMMA OthersChoose ==
  ASSUME ReqTypeOK, NEW r \in Requests, Step(r) \/ Mishap(r) \/ Failure(r)
  PROVE  /\ UNCHANGED kind
         /\ \A q \in Requests \ {r} :
              acct'[q] = acct[q] /\ todo'[q] = todo[q] /\ cand'[q] = cand[q]
<1> USE DEF reqVars, ReqTypeOK, SelTypeOK
<1>1. CASE Choose(r)
  BY <1>1 DEF Choose, Select, List, Filter, Filtered, Score, Acquire
<1>2. CASE Prepare(r) \/ StartStream(r) \/ AbandonStream(r) \/ Answer(r)
           \/ MarkLimited(r) \/ EndBody(r) \/ BreakBody(r) \/ UpdateLastUsed(r)
  BY <1>2 DEF Prepare, StartStream, AbandonStream, Answer, MarkLimited, EndBody,
              BreakBody, UpdateLastUsed
<1>3. CASE SetLimited(r) \/ Ban(r) \/ Release(r) \/ WriteLog(r)
           \/ DatabaseFails(r) \/ CancelStream(r)
  BY <1>3 DEF SetLimited, Ban, Release, WriteLog, DatabaseFails, CancelStream
<1>4. CASE RedisFails(r)
  BY <1>4 DEF RedisFails
<1> QED
  BY <1>1, <1>2, <1>3, <1>4 DEF Step, Mishap, Failure

\* Before an answer.
Unasked == {"new", "filter", "score", "prepare", "handoff", "upstream"}

\* An account has been chosen.
Picked == Charged \cup {"log", "used"}

\* How far a request may have come without an answer, and that one with an
\* answer comes by the INSERT of its row.
CalmOK(r) ==
  /\ pc[r] \in Unasked => reply[r] = "none"
  /\ reply[r] # "none" => acct[r] \in Accounts
  /\ pc[r] = "handoff" => ~Sync(r)
  /\ pc[r] = "lost" /\ Sync(r) => reply[r] = "none"
  /\ pc[r] = "used" => log[r].written
  /\ pc[r] = "done" /\ Sync(r) /\ reply[r] # "none"
       => log[r].written \/ status[acct[r]] = "deleted"

\* A request works on rows that were in the table once.
BornOK(r) ==
  /\ \A a \in todo[r] \cup cand[r] : status[a] # "unborn"
  /\ pc[r] \in Picked => status[acct[r]] # "unborn"

CalmInv == \A r \in Requests : CalmOK(r) /\ BornOK(r)

\* Rows that age as rows do (inserted once, deleted once) do not disturb what is
\* known of a request that does not move.
LEMMA CalmFrame ==
  ASSUME ReqTypeOK, NEW q \in Requests, CalmOK(q), BornOK(q),
         pc'[q] = pc[q], log'[q] = log[q], reply'[q] = reply[q], kind' = kind,
         acct'[q] = acct[q], todo'[q] = todo[q], cand'[q] = cand[q],
         \A a \in Accounts : /\ status[a] = "deleted" => status'[a] = "deleted"
                             /\ status[a] # "unborn" => status'[a] # "unborn"
  PROVE  CalmOK(q)' /\ BornOK(q)'
<1>1. /\ todo[q] \cup cand[q] \subseteq Accounts
      /\ pc[q] \in Picked => acct[q] \in Accounts
  BY DEF ReqTypeOK, SelTypeOK, Picked
<1>2. CalmOK(q)'
  BY <1>1 DEF CalmOK, Sync
<1>3. BornOK(q)'
  BY <1>1 DEF BornOK
<1> QED
  BY <1>2, <1>3

\* The step of the request itself.  While it chooses it has no answer.
LEMMA CalmChoose ==
  ASSUME StatusOK, ReqTypeOK, NEW r \in Requests, CalmOK(r), BornOK(r), Choose(r)
  PROVE  CalmOK(r)' /\ BornOK(r)'
<1>1. /\ UNCHANGED <<status, log, reply, kind>>
      /\ reply[r] = "none"
      /\ SelTypeOK /\ pc[r] \notin Picked
  BY DEF Choose, Select, List, Filter, Filtered, Score, Acquire, reqVars, storeVars,
         CalmOK, Unasked, Picked, Charged, ReqTypeOK
<1>2. pc'[r] \in {"filter", "score", "done", "prepare"}
  BY DEF Choose, Select, List, Filter, Filtered, Score, Acquire, GoTo, ReqTypeOK
<1>3. CalmOK(r)'
  BY <1>1, <1>2 DEF CalmOK, Unasked
<1>4. CASE List(r)
  <2>1. todo'[r] = ListAvailable /\ UNCHANGED cand /\ pc'[r] = "filter"
    BY <1>1, <1>4 DEF List, SelTypeOK, GoTo, ReqTypeOK
  <2> QED
    BY <1>1, <1>3, <2>1 DEF BornOK, ListAvailable, Picked, Charged
<1>5. CASE Filter(r) \/ Filtered(r) \/ Score(r)
  <2>1. todo'[r] \cup cand'[r] \subseteq todo[r] \cup cand[r]
    BY <1>1, <1>5 DEF Filter, Filtered, Score, SelTypeOK
  <2>2. pc'[r] \notin Picked
    BY <1>5 DEF Filter, Filtered, Score, GoTo, ReqTypeOK, Picked, Charged
  <2> QED
    BY <1>1, <1>3, <2>1, <2>2 DEF BornOK
<1>6. CASE Acquire(r)
  <2>1. PICK a \in Best(r) : acct' = [acct EXCEPT ![r] = a]
    BY <1>6 DEF Acquire
  <2>2. a \in cand[r] /\ acct'[r] = a /\ cand'[r] = {} /\ UNCHANGED todo
    BY <1>1, <1>6, <2>1 DEF Best, Acquire, SelTypeOK
  <2> QED
    BY <1>1, <1>3, <2>2 DEF BornOK
<1> QED
  BY <1>4, <1>5, <1>6 DEF Choose, Select

\* Once it has chosen it keeps the account, and loops over no others.
LEMMA CalmMove ==
  ASSUME ReqTypeOK, NEW r \in Requests, CalmOK(r), BornOK(r),
         Step(r) \/ Mishap(r), ~Choose(r)
  PROVE  /\ UNCHANGED <<acct, todo, cand, kind>>
         /\ pc[r] \in Picked
         /\ acct[r] \in Accounts
<1> USE DEF reqVars, Picked, Charged
<1>1. CASE Prepare(r) \/ StartStream(r) \/ AbandonStream(r) \/ Answer(r)
           \/ MarkLimited(r) \/ SetLimited(r)
  BY <1>1 DEF Prepare, StartStream, AbandonStream, Answer, MarkLimited, SetLimited,
              ReqTypeOK
<1>2. CASE Ban(r) \/ EndBody(r) \/ BreakBody(r) \/ Release(r) \/ WriteLog(r)
           \/ UpdateLastUsed(r) \/ CancelStream(r)
  BY <1>2 DEF Ban, EndBody, BreakBody, Release, WriteLog, UpdateLastUsed,
              CancelStream, ReqTypeOK
<1> QED
  BY <1>1, <1>2 DEF Step, Mishap

LEMMA CalmStep ==
  ASSUME StatusOK, ReqTypeOK, NEW r \in Requests, CalmOK(r), BornOK(r),
         Step(r) \/ Mishap(r)
  PROVE  CalmOK(r)' /\ BornOK(r)'
<1>1. CASE Choose(r)
  BY <1>1, CalmChoose
<1> SUFFICES ASSUME ~Choose(r) PROVE CalmOK(r)' /\ BornOK(r)'
  BY <1>1
<1>2. /\ UNCHANGED <<acct, todo, cand, kind>>
      /\ pc[r] \in Picked /\ acct[r] \in Accounts
  BY CalmMove
<1>3. BornOK(r)'
  <2>1. todo[r] \cup cand[r] \subseteq Accounts
    BY DEF ReqTypeOK, SelTypeOK
  <2>2. \A a \in Accounts : status[a] # "unborn" => status'[a] # "unborn"
    BY RowStep
  <2> QED
    BY <1>2, <2>1, <2>2 DEF BornOK
<1>4. CalmOK(r)'
  <2> USE <1>2 DEF reqVars, storeVars, ReqTypeOK, GoTo, Unasked, Sync
  <2>1. CASE Prepare(r) \/ StartStream(r) \/ AbandonStream(r)
    BY <2>1 DEF Prepare, StartStream, AbandonStream, CalmOK
  <2>2. CASE Answer(r)
    <3>1. pc'[r] \in {"mark", "release", "body", "ban"}
      BY <2>2 DEF Answer
    <3> QED
      BY <3>1 DEF CalmOK
  <2>3. CASE MarkLimited(r) \/ SetLimited(r) \/ Ban(r) \/ EndBody(r) \/ BreakBody(r)
             \/ Release(r)
    <3>1. pc'[r] \in {"setlimited", "release", "body", "log"}
      BY <2>3 DEF MarkLimited, SetLimited, Ban, EndBody, BreakBody, Release
    <3> QED
      BY <3>1 DEF CalmOK
  <2>4. CASE WriteLog(r)
    <3> DEFINE w == Exists(acct[r])
    <3>1. /\ SaveLog(r, w) /\ w \in BOOLEAN /\ UNCHANGED <<status, reply>>
          /\ pc'[r] = IF w THEN "used" ELSE "done"
      BY <2>4 DEF WriteLog, Exists
    <3>2. ~w => status[acct[r]] = "deleted"
      BY DEF Exists, BornOK, StatusOK, RowStates
    <3> HIDE DEF w
    <3>3. log'[r].written = w
      BY <3>1, SaveLogType
    <3> QED
      BY <3>1, <3>2, <3>3 DEF CalmOK
  <2>5. CASE UpdateLastUsed(r)
    <3>1. pc'[r] = "done" /\ UNCHANGED <<log, reply>> /\ pc[r] = "used"
      BY <2>5 DEF UpdateLastUsed
    <3> QED
      BY <3>1 DEF CalmOK
  <2>6. CASE CancelStream(r)
    <3>1. pc'[r] \in {"done", "lost"} /\ ~Sync(r)
      BY <2>6 DEF CancelStream, DecrOrNot
    <3> QED
      BY <3>1 DEF CalmOK
  <2> QED
    BY <2>1, <2>2, <2>3, <2>4, <2>5, <2>6 DEF Step, Mishap
<1> QED
  BY <1>3, <1>4

\* Whatever a request does, what is known of all of them stays true.
LEMMA RequestCalm ==
  ASSUME StatusOK, ReqTypeOK, CalmInv, NEW r \in Requests, Step(r) \/ Mishap(r)
  PROVE  CalmInv'
<1> SUFFICES ASSUME NEW q \in Requests PROVE CalmOK(q)' /\ BornOK(q)'
  BY DEF CalmInv
<1>1. CASE q = r
  BY <1>1, CalmStep DEF CalmInv
<1>2. CASE q # r
  <2>1. /\ pc'[q] = pc[q] /\ log'[q] = log[q] /\ reply'[q] = reply[q]
        /\ kind' = kind
        /\ acct'[q] = acct[q] /\ todo'[q] = todo[q] /\ cand'[q] = cand[q]
    BY <1>2, OthersKeep, OthersChoose
  <2>2. \A a \in Accounts : /\ status[a] = "deleted" => status'[a] = "deleted"
                            /\ status[a] # "unborn" => status'[a] # "unborn"
    BY RowStep DEF Exists, AccountStatus
  <2> QED
    BY <2>1, <2>2, CalmFrame DEF CalmInv
<1> QED
  BY <1>1, <1>2

\* What a calm server keeps, its accounts neither created nor deleted meanwhile.
CalmProxyInv ==
  /\ ProxyTypeOK
  /\ \A a \in Accounts : Exists(a)
  /\ CalmInv
  /\ DetectedLeavesRotation

LEMMA CalmProxyInit == ProxyInit => CalmProxyInv
<1> SUFFICES ASSUME ProxyInit PROVE CalmProxyInv
  OBVIOUS
<1>1. /\ pc = [r \in Requests |-> "new"]
      /\ todo = [r \in Requests |-> {}]
      /\ cand = [r \in Requests |-> {}]
      /\ reply = [r \in Requests |-> "none"]
  BY DEF ProxyInit, SelInit, ReqInit
<1>2. \A a \in Accounts : Exists(a)
  BY DEF ProxyInit, Exists, AccountStatus
<1>3. CalmInv
  BY <1>1 DEF CalmInv, CalmOK, BornOK, Picked, Charged
<1>4. DetectedLeavesRotation
  BY <1>1 DEF DetectedLeavesRotation
<1> QED
  BY <1>2, <1>3, <1>4, InitType DEF CalmProxyInv

Reacted == {"body", "release", "log", "used"}

\* A request gets behind its reaction to a 429 or a ban only by taking the
\* account out of rotation.
LEMMA ReactionStep ==
  ASSUME ProxyTypeOK, \A a \in Accounts : Exists(a), CalmInv,
         DetectedLeavesRotation, NEW r \in Requests, Step(r) \/ Mishap(r),
         pc'[r] \in Reacted,
         reply'[r] = "limited" \/ (reply'[r] = "banned" /\ Sync(r))
  PROVE  status'[acct'[r]] \in {"rate_limited", "banned"}
<1> USE DEF Reacted
<1>1. /\ ReqTypeOK /\ StatusOK /\ CalmOK(r) /\ BornOK(r)
  BY DEF ProxyTypeOK, StoreTypeOK, StatusOK, CalmInv
<1>2. ~Choose(r)
  BY <1>1, CalmChoose DEF Choose, Select, List, Filter, Filtered, Score, Acquire,
     GoTo, ReqTypeOK
<1>3. UNCHANGED acct /\ acct[r] \in Accounts
  BY <1>1, <1>2, CalmMove
<1> USE DEF reqVars, storeVars
<1>4. CASE SetLimited(r) \/ Ban(r)
  BY <1>1, <1>3, <1>4 DEF SetLimited, Ban, UpdateStatus, StatusOK
<1>5. CASE Answer(r)
  BY <1>1, <1>5 DEF Answer, GoTo, ReqTypeOK, Sync
<1>6. CASE EndBody(r) \/ BreakBody(r) \/ Release(r) \/ WriteLog(r)
  <2>1. pc[r] \in Reacted /\ UNCHANGED <<status, reply>>
    BY <1>6 DEF EndBody, BreakBody, Release, WriteLog
  <2> QED
    BY <1>3, <2>1 DEF DetectedLeavesRotation
<1>7. CASE Prepare(r) \/ StartStream(r) \/ AbandonStream(r) \/ MarkLimited(r)
           \/ UpdateLastUsed(r) \/ CancelStream(r)
  <2>1. pc'[r] \in {"lost", "upstream", "handoff", "setlimited", "done"}
    BY <1>1, <1>7 DEF Prepare, StartStream, AbandonStream, MarkLimited,
       UpdateLastUsed, CancelStream, DecrOrNot, GoTo, ReqTypeOK
  <2> QED
    BY <2>1
<1> QED
  BY <1>2, <1>4, <1>5, <1>6, <1>7 DEF Step, Mishap

\* No other request brings the account back.
LEMMA DetectedStep ==
  ASSUME ProxyTypeOK, \A a \in Accounts : Exists(a), CalmInv,
         DetectedLeavesRotation, NEW r \in Requests, Step(r) \/ Mishap(r)
  PROVE  DetectedLeavesRotation'
<1>1. ReqTypeOK /\ StatusOK
  BY DEF ProxyTypeOK, StoreTypeOK, StatusOK
<1> SUFFICES ASSUME NEW q \in Requests, pc'[q] \in Reacted,
                    reply'[q] = "limited" \/ (reply'[q] = "banned" /\ Sync(q)')
             PROVE  status'[acct'[q]] \in {"rate_limited", "banned"}
  BY DEF DetectedLeavesRotation, Reacted
<1>2. Sync(q)' = Sync(q)
  BY <1>1, OthersChoose DEF Sync
<1>3. CASE q = r
  BY <1>2, <1>3, ReactionStep
<1>4. CASE q # r
  <2>1. pc'[q] = pc[q] /\ reply'[q] = reply[q] /\ acct'[q] = acct[q]
    BY <1>1, <1>4, OthersKeep, OthersChoose
  <2>2. status[acct[q]] \in {"rate_limited", "banned"} /\ acct[q] \in Accounts
    BY <1>1, <1>2, <2>1 DEF DetectedLeavesRotation, Reacted, ReqTypeOK, Charged
  <2> QED
    BY <1>1, <2>1, <2>2, RowStep
<1> QED
  BY <1>3, <1>4

LEMMA CalmProxyStep ==
  CalmProxyInv /\ [CalmNext]_proxyVars => CalmProxyInv'
<1> SUFFICES ASSUME CalmProxyInv, [CalmNext]_proxyVars PROVE CalmProxyInv'
  OBVIOUS
<1>1. /\ ReqTypeOK /\ StatusOK /\ ConnOK /\ StoreTypeOK /\ ProxyTypeOK
      /\ \A a \in Accounts : Exists(a)
      /\ CalmInv /\ DetectedLeavesRotation
  BY DEF CalmProxyInv, ProxyTypeOK, StoreTypeOK, StatusOK, ConnOK
<1>2. ASSUME NEW r \in Requests, Step(r) \/ Mishap(r) PROVE CalmProxyInv'
  <2>1. ProxyTypeOK'
    BY <1>1, <1>2, RequestType, StoreStep DEF ProxyTypeOK, StoreTypeOK, ConnOK
  <2>2. \A a \in Accounts : Exists(a)'
    BY <1>1, <1>2, RowStep DEF Exists, AccountStatus
  <2>3. CalmInv' /\ DetectedLeavesRotation'
    BY <1>1, <1>2, RequestCalm, DetectedStep
  <2> QED
    BY <2>1, <2>2, <2>3 DEF CalmProxyInv
<1>3. CASE (\E a \in Accounts : Expiry(a)) \/ Quiescent \/ UNCHANGED proxyVars
  <2>1. /\ UNCHANGED <<conn, selVars, reqVars, status, pool>>
        /\ limited' \subseteq limited
    BY <1>3 DEF Expiry, LimitExpires, Quiescent, proxyVars, storeVars
  <2>2. ProxyTypeOK'
    BY <1>1, <2>1, RequestFrame DEF ProxyTypeOK, StoreTypeOK
  <2>3. CalmInv' /\ \A a \in Accounts : Exists(a)'
    BY <1>1, <2>1 DEF selVars, reqVars, CalmInv, CalmOK, BornOK, Sync, Exists
  <2>4. DetectedLeavesRotation'
    BY <1>1, <2>1 DEF selVars, reqVars, DetectedLeavesRotation, Sync
  <2> QED
    BY <2>2, <2>3, <2>4 DEF CalmProxyInv
<1> QED
  BY <1>2, <1>3 DEF CalmNext

\* Whatever the answers are and in whatever order the handlers react to them, an
\* account that was seen limited or banned stays out of list_available
\* (proxy_service.py:143-146, 187-192 and 241-245).
THEOREM DetectedStaysOut == CalmSpec => []DetectedLeavesRotation
<1>1. CalmProxyInv => DetectedLeavesRotation
  BY DEF CalmProxyInv
<1> QED
  BY <1>1, CalmProxyInit, CalmProxyStep, PTL DEF CalmSpec

\* A request that is not a stream gets into the try block of proxy_request or
\* ends without having asked Anthropic (proxy_service.py:95-97 and 106-120).
THEOREM SyncLeaks == CalmSpec => []SyncLeaksEarly
<1>1. CalmProxyInv => SyncLeaksEarly
  BY DEF CalmProxyInv, CalmInv, CalmOK, SyncLeaksEarly
<1> QED
  BY <1>1, CalmProxyInit, CalmProxyStep, PTL DEF CalmSpec

\* An answered request that is not a stream does not end without its row
\* (proxy_service.py:119-131).
THEOREM SyncIsLogged == CalmSpec => []AnsweredSyncIsLogged
<1>1. CalmProxyInv => AnsweredSyncIsLogged
  BY DEF CalmProxyInv, CalmInv, CalmOK, AnsweredSyncIsLogged, Exists, AccountStatus
<1> QED
  BY <1>1, CalmProxyInit, CalmProxyStep, PTL DEF CalmSpec

-----------------------------------------------------------------------------
(* The ledger of connections.  Every step of a request is one of the ledger:   *)
(* StepKind says what it does to the counters, StageStep where it leads.       *)

Choosing == {"new", "filter", "score"}

\* A request does not choose twice, does not take a connection once it has given
\* one back, and is not heard of again when it is over.
LEMMA StageStep ==
  ASSUME ReqTypeOK, NEW r \in Requests, Step(r) \/ Mishap(r) \/ Failure(r)
  PROVE  /\ pc[r] \notin {"lost", "done"}
         /\ pc[r] \notin Choosing => pc'[r] \notin Choosing
         /\ pc[r] \in {"log", "used"} => pc'[r] \in {"used", "done"}
<1> USE DEF GoTo, ReqTypeOK, Choosing
<1>1. CASE Choose(r)
  BY <1>1 DEF Choose, Select, List, Filter, Filtered, Score, Acquire
<1>2. CASE Prepare(r) \/ StartStream(r) \/ AbandonStream(r)
           \/ MarkLimited(r) \/ SetLimited(r) \/ Ban(r)
  BY <1>2 DEF Prepare, StartStream, AbandonStream, MarkLimited, SetLimited, Ban
<1>3. CASE Answer(r)
  BY <1>3 DEF Answer
<1>4. CASE EndBody(r) \/ BreakBody(r) \/ Release(r) \/ WriteLog(r) \/ UpdateLastUsed(r)
  BY <1>4 DEF EndBody, BreakBody, Release, WriteLog, UpdateLastUsed
<1>5. CASE CancelStream(r) \/ DatabaseFails(r)
  BY <1>5 DEF CancelStream, DatabaseFails, DecrOrNot
<1>6. CASE RedisFails(r)
  BY <1>6 DEF RedisFails, DecrOrNot
<1> QED
  BY <1>1, <1>2, <1>3, <1>4, <1>5, <1>6 DEF Step, Mishap, Failure

\* The counter of a request that holds a connection is not at zero.
LEMMA HolderCounted ==
  ASSUME ReqTypeOK, ConnOK, ConnAccounting, NEW r \in Requests, pc[r] \in Charged
  PROVE  conn[acct[r]] > 0
<1>1. acct[r] \in Accounts /\ r \in Holders(acct[r])
  BY DEF ReqTypeOK, Holders
<1>2. /\ conn[acct[r]] = Cardinality(Holders(acct[r]))
      /\ conn[acct[r]] \in Nat
      /\ IsFiniteSet(Holders(acct[r]))
  BY <1>1, HoldersFinite DEF ConnAccounting, ConnOK
<1>3. conn[acct[r]] # 0
  BY <1>1, <1>2, FS_EmptySet
<1> QED
  BY <1>2, <1>3

\* The step of a request is a step of the ledger.
LEMMA LedgerStep ==
  ASSUME ReqTypeOK, ConnOK, ConnAccounting,
         NEW r \in Requests, Step(r) \/ Mishap(r) \/ Failure(r)
  PROVE  Ledger!LedgerNext
<1>1. /\ pc[r] \notin {"lost", "done"}
      /\ pc[r] \notin Choosing => pc'[r] \notin Choosing
      /\ pc[r] \in {"log", "used"} => pc'[r] \in {"used", "done"}
  BY StageStep
<1>2. \A q \in Requests \ {r} : Stage(q)' = Stage(q)
  BY OthersKeep DEF Stage
<1>3. ASSUME NEW l \in PCs, GoTo(r, l) PROVE pc'[r] = l
  BY <1>3 DEF GoTo, ReqTypeOK
<1> USE DEF Charged, PCs, Choosing
<1>4. CASE Neutral(r)
  <2>1. PICK l \in PCs : GoTo(r, l) /\ (l \in Charged <=> pc[r] \in Charged)
    BY <1>4 DEF Neutral
  <2>2. \/ Stage(r)' = Stage(r)
        \/ Stage(r) = "before" /\ Stage(r)' = "after"
        \/ Stage(r) = "open" /\ Stage(r)' = "leaked"
    <3>1. pc'[r] = l /\ pc[r] \in PCs
      BY <1>3, <2>1 DEF ReqTypeOK
    <3>2. CASE l \in Charged
      BY <1>1, <2>1, <3>1, <3>2 DEF Stage
    <3>3. CASE l \notin Charged
      BY <1>1, <2>1, <3>1, <3>3 DEF Stage
    <3> QED
      BY <3>2, <3>3
  <2>3. \E S \in {{}, {r}} : Ledger!GiveUp(S)
    <3>1. CASE Stage(r)' = Stage(r)
      <4>1. Ledger!GiveUp({})
        BY <1>2, <1>4, <3>1 DEF Ledger!GiveUp, Neutral
      <4> QED
        BY <4>1
    <3>2. CASE Stage(r)' # Stage(r)
      <4>1. Ledger!GiveUp({r})
        BY <1>2, <1>4, <2>2, <3>2 DEF Ledger!GiveUp, Neutral
      <4> QED
        BY <4>1
    <3> QED
      BY <3>1, <3>2
  <2> QED
    BY <2>3 DEF Ledger!LedgerNext
<1>5. CASE Charge(r)
  <2>1. PICK a \in Accounts, l \in Charged :
          /\ pc[r] \notin Charged
          /\ acct' = [acct EXCEPT ![r] = a]
          /\ IncrConn(a)
          /\ GoTo(r, l)
    BY <1>5 DEF Charge
  <2>2. /\ Stage(r) = "before"
        /\ Stage(r)' \in {"open", "leaked"}
    BY <1>1, <1>3, <2>1 DEF Stage, ReqTypeOK
  <2>3. Ledger!OpenConnection(r, a)
    BY <1>2, <2>1, <2>2 DEF Ledger!OpenConnection, Ledger!MoveTo, IncrConn
  <2> QED
    BY <2>3 DEF Ledger!LedgerNext
<1>6. CASE Discharge(r)
  <2>1. PICK l \in PCs \ Charged :
          /\ pc[r] \in Charged
          /\ UNCHANGED acct
          /\ DecrConn(acct[r])
          /\ GoTo(r, l)
    BY <1>6 DEF Discharge
  <2>2. Stage(r) = "open" /\ Stage(r)' = "after"
    BY <1>1, <1>3, <2>1 DEF Stage
  <2>3. conn' = [conn EXCEPT ![acct[r]] = @ - 1]
    BY <2>1, HolderCounted DEF DecrConn
  <2>4. Ledger!CloseConnection(r)
    BY <1>2, <2>1, <2>2, <2>3 DEF Ledger!CloseConnection, Ledger!MoveTo
  <2> QED
    BY <2>4 DEF Ledger!LedgerNext
<1> QED
  BY <1>4, <1>5, <1>6, StepKind

LEMMA LedgerFrame ==
  UNCHANGED <<conn, selVars>> => UNCHANGED Ledger!ledgerVars
BY DEF Ledger!ledgerVars, selVars, Stage

\* Through every failure of Redis, PostgreSQL, Anthropic and the client, a
\* request acquires once, releases what it acquired at most once, and no release
\* is swallowed by the clamp at zero (proxy_service.py:75, 120 and 215).
THEOREM ProxyKeepsLedger == ProxySafety => KeepsLedger
<1>1. ProxyInit => Ledger!LedgerInit
  BY DEF ProxyInit, SelInit, Ledger!LedgerInit, Stage
<1>2. ProxyTypeOK /\ ConnAccounting /\ [ProxyNext]_proxyVars
        => [Ledger!LedgerNext]_Ledger!ledgerVars
  <2> SUFFICES ASSUME ProxyTypeOK, ConnAccounting, [ProxyNext]_proxyVars
               PROVE  [Ledger!LedgerNext]_Ledger!ledgerVars
    OBVIOUS
  <2>1. ReqTypeOK /\ ConnOK
    BY DEF ProxyTypeOK, StoreTypeOK, ConnOK
  <2>2. ASSUME NEW r \in Requests, Step(r) \/ Mishap(r) \/ Failure(r)
        PROVE  Ledger!LedgerNext
    BY <2>1, <2>2, LedgerStep
  <2>3. CASE (\E a \in Accounts : Expiry(a)) \/ Quiescent \/ UNCHANGED proxyVars
    <3>1. UNCHANGED <<conn, selVars>>
      BY <2>3 DEF Expiry, LimitExpires, Quiescent, proxyVars, storeVars
    <3> QED
      BY <3>1, LedgerFrame
  <2> QED
    BY <2>2, <2>3 DEF ProxyNext, CalmNext
<1> QED
  BY <1>1, <1>2, ProxyTypeCorrect, Accounted, PTL
  DEF ProxySafety, KeepsLedger, Ledger!LedgerSpec
=============================================================================

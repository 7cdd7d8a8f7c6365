-------------------------- MODULE ProxySystemProofs --------------------------
(***************************************************************************)
(* The theorems about requests and about admin calls, for the server as a   *)
(* whole: the calls run next to the requests, and workers die.  The steps   *)
(* of a request are those of ProxyServiceProofs, the steps of a call those  *)
(* of AccountServiceProofs; what is new here is that neither disturbs what  *)
(* the other relies on.                                                     *)
(***************************************************************************)
EXTENDS ProxySystem, ProxyServiceProofs, AccountServiceProofs

\* The inductive invariant: the types the steps of a request rely on, and both
\* properties, CleanLogMeansOk in its strengthened form.
SystemInv == ReqTypeOK /\ ConnOK /\ ConnAccounting /\ LogInv

LEMMA SystemInitInv == SystemInit => SystemInv
<1> SUFFICES ASSUME SystemInit PROVE SystemInv
  OBVIOUS
<1>1. /\ pc = [r \in Requests |-> "new"]
      /\ log = [r \in Requests |-> NewLog]
      /\ conn = [a \in Accounts |-> 0]
      /\ ReqInit
  BY DEF SystemInit, SelInit, ReqInit
<1>2. NewLog \in LogEntry /\ NewLog.status = 0 /\ ~NewLog.written
  BY DEF NewLog, LogEntry
<1>3. SelTypeOK
  BY DEF SystemInit, SelInit, SelTypeOK, NoScore
<1>4. /\ log \in [Requests -> LogEntry] /\ pc \in [Requests -> PCs]
      /\ \A r \in Requests :
           ~log[r].written /\ pc[r] \notin Charged \cup {"body", "log", "used"}
  BY <1>1, <1>2 DEF PCs, Charged
<1>5. ReqTypeOK
  BY <1>1, <1>3, <1>4 DEF ReqTypeOK, ReqInit, LogEntry
<1>6. \A a \in Accounts : Holders(a) = {}
  BY <1>4 DEF Holders
<1>7. ConnAccounting
  BY <1>1, <1>6, FS_EmptySet DEF ConnAccounting
<1>8. LogInv
  BY <1>1, <1>2 DEF LogInv, LogOK
<1> QED
  BY <1>1, <1>5, <1>7, <1>8 DEF SystemInv, ConnOK

\* No admin call touches a counter, nor does the boot of a worker.
LEMMA CallKeepsConn ==
  ASSUME NEW c \in Calls, CallStep(c) \/ CallRaises(c)
  PROVE  UNCHANGED conn
<1> USE DEF storeVars
<1>1. \A a \in Accounts :
        CreateInsert(c, a) \/ UpdateGet(c, a) \/ DeleteGet(c, a) \/ UnbanGet(c, a)
          => UNCHANGED conn
  BY DEF CreateInsert, UpdateGet, DeleteGet, UnbanGet
<1>2. CreateReread(c) \/ CreateAdd(c) \/ UpdateReload(c) \/ UpdateFlush(c)
        \/ UpdateReread(c) \/ UpdatePop(c) \/ UpdateBuild(c) => UNCHANGED conn
  BY DEF CreateReread, CreateAdd, UpdateReload, UpdateFlush, UpdateReread,
         UpdatePop, UpdateBuild
<1>3. DeleteRow(c) \/ DeleteRemove(c) \/ UnbanRow(c) \/ UnbanClear(c)
        => UNCHANGED conn
  BY DEF DeleteRow, DeleteRemove, UnbanRow, UnbanClear
<1>4. CallRaises(c) => UNCHANGED conn
  BY DEF CallRaises
<1> QED
  BY <1>1, <1>2, <1>3, <1>4 DEF CallStep

\* What leaves counters and requests alone keeps the invariant.
LEMMA SystemFrame ==
  SystemInv /\ UNCHANGED <<conn, selVars, reqVars>> => SystemInv'
<1> SUFFICES ASSUME SystemInv, UNCHANGED <<conn, selVars, reqVars>>
             PROVE  SystemInv'
  OBVIOUS
<1>1. ReqTypeOK' /\ ConnAccounting'
  BY RequestFrame DEF SystemInv
<1>2. ConnOK'
  BY DEF SystemInv, ConnOK
<1>3. LogInv'
  BY DEF SystemInv, LogInv, LogOK, selVars, reqVars
<1> QED
  BY <1>1, <1>2, <1>3 DEF SystemInv

\* A worker that dies loses its handlers, and with them every DECR still to
\* come; it does not make a counter wrong that was not.
LEMMA DeathKeeps ==
  ASSUME SystemInv, NEW w \in Workers, ServerDies(w)
  PROVE  SystemInv'
<1> DEFINE running == {r \in Requests : home[r] = w /\ pc[r] # "new" /\ ~Over(r)}
<1>1. /\ pc' = [r \in Requests |->
                  IF r \notin running THEN pc[r]
                  ELSE IF pc[r] \in Charged THEN "lost" ELSE "done"]
      /\ todo' = [r \in Requests |-> IF r \in running THEN {} ELSE todo[r]]
      /\ cand' = [r \in Requests |-> IF r \in running THEN {} ELSE cand[r]]
      /\ score' = [r \in Requests |-> IF r \in running THEN NoScore ELSE score[r]]
      /\ UNCHANGED <<conn, acct, home, kind, reply, log>>
  BY DEF ServerDies, WorkerDies, reqVars
<1>2. ASSUME NEW r \in Requests
      PROVE  /\ pc'[r] \in PCs
             /\ pc'[r] = pc[r] \/ pc'[r] \in {"lost", "done"}
             /\ pc'[r] \in Charged <=> pc[r] \in Charged
  BY <1>1 DEF SystemInv, ReqTypeOK, PCs, Charged
<1> HIDE DEF running
<1>3. pc' \in [Requests -> PCs]
  BY <1>1, <1>2
<1>4. SelTypeOK'
  <2>1. NoScore \in [Accounts -> Int]
    BY DEF NoScore
  <2>2. /\ todo' \in [Requests -> SUBSET Accounts]
        /\ cand' \in [Requests -> SUBSET Accounts]
        /\ score' \in [Requests -> [Accounts -> Int]]
    BY <1>1, <2>1 DEF SystemInv, ReqTypeOK, SelTypeOK
  <2> QED
    BY <1>1, <2>2 DEF SystemInv, ReqTypeOK, SelTypeOK
<1>5. ReqTypeOK'
  <2>1. /\ home' \in [Requests -> Workers]
        /\ kind' \in [Requests -> {"sync", "stream"}]
        /\ reply' \in [Requests -> Replies \cup {"none"}]
        /\ log' \in [Requests -> LogEntry]
    BY <1>1 DEF SystemInv, ReqTypeOK, LogEntry
  <2>2. ASSUME NEW r \in Requests
        PROVE  /\ pc'[r] \in Charged \cup {"log", "used"} => acct'[r] \in Accounts
               /\ pc'[r] \in {"body", "log", "used"} => log'[r].status # 0
               /\ log'[r].written => log'[r].status # 0
    BY <1>1, <1>2 DEF SystemInv, ReqTypeOK
  <2> QED
    BY <1>3, <1>4, <2>1, <2>2 DEF ReqTypeOK, LogEntry
<1>6. ConnAccounting'
  <2>1. \A a \in Accounts : Holders(a)' = Holders(a)
    BY <1>1, <1>2 DEF Holders
  <2> QED
    BY <1>1, <2>1 DEF SystemInv, ConnAccounting
<1>7. LogInv'
  BY <1>1, <1>2 DEF SystemInv, LogInv, LogOK, Unanswered
<1>8. ConnOK'
  BY <1>1 DEF SystemInv, ConnOK
<1> QED
  BY <1>5, <1>6, <1>7, <1>8 DEF SystemInv

LEMMA SystemStep == SystemInv /\ [SystemNext]_systemVars => SystemInv'
<1> SUFFICES ASSUME SystemInv, [SystemNext]_systemVars PROVE SystemInv'
  OBVIOUS
<1>1. ASSUME NEW r \in Requests, Step(r) \/ Mishap(r) \/ Failure(r) PROVE SystemInv'
  BY <1>1, RequestType, RequestAccounting, RequestLog DEF SystemInv
<1>2. ASSUME NEW c \in Calls, CallStep(c) \/ CallRaises(c), UNCHANGED <<selVars, reqVars>>
      PROVE  SystemInv'
  BY <1>2, CallKeepsConn, SystemFrame
<1>3. ASSUME NEW a \in Accounts, Expiry(a) PROVE SystemInv'
  BY <1>3, SystemFrame DEF Expiry, LimitExpires
<1>4. ASSUME NEW w \in Workers, ServerDies(w) \/ ServerBoots(w) PROVE SystemInv'
  BY <1>4, DeathKeeps, SystemFrame DEF ServerBoots, WorkerBoots
<1>5. CASE SystemQuiescent \/ UNCHANGED systemVars
  BY <1>5, SystemFrame DEF SystemQuiescent, systemVars, storeVars
<1> QED
  BY <1>1, <1>2, <1>3, <1>4, <1>5 DEF SystemNext, CalmSystemNext

\* While accounts are created, changed, deleted and unbanned and worker
\* processes die, conn:<id> counts the handlers between acquire and release
\* (proxy_service.py:75, 120 and 215) and those that died or ended in between.
THEOREM SystemAccounted == SystemSpec => []ConnAccounting
<1>1. SystemInv => ConnAccounting
  BY DEF SystemInv
<1> QED
  BY <1>1, SystemInitInv, SystemStep, PTL DEF SystemSpec

\* A row of the request log that says 200 and names no error stands for a
\* request that Anthropic answered with 2xx (proxy_service.py:119-129).
THEOREM SystemCleanLog == SystemSpec => []CleanLogMeansOk
<1>1. SystemInv => CleanLogMeansOk
  BY DEF SystemInv, LogInv, LogOK, CleanLogMeansOk
<1> QED
  BY <1>1, SystemInitInv, SystemStep, PTL DEF SystemSpec

-----------------------------------------------------------------------------
(* Admin calls among requests that write the table as well, and among workers *)
(* that die in the middle of a call.                                           *)

AdminInv == AdminTypeOK /\ DeleteInv /\ RefusalInv

LEMMA AdminInitInv == SystemInit => AdminInv
<1> SUFFICES ASSUME SystemInit PROVE AdminInv
  OBVIOUS
<1>1. proxy \in [Accounts -> Proxies \ Malformed]
  BY DEF SystemInit, CallInit
<1>2. StoreTypeOK
  BY <1>1, BootPoolType DEF SystemInit, StoreTypeOK, RowStates, AccountStatus
<1>3. cpc = [c \in Calls |-> "idle"] /\ "idle" \in CallPCs
  BY DEF SystemInit, CallInit, CallPCs
<1>4. seen \in [Calls -> RowType] /\ loaded \in [Calls -> RowType]
  BY NoRowType DEF SystemInit, CallInit
<1>5. AdminTypeOK
  BY <1>1, <1>2, <1>3, <1>4 DEF SystemInit, CallInit, AdminTypeOK, RowType
<1>6. DeleteInv /\ RefusalInv
  BY <1>1, <1>3 DEF DeleteInv, RefusalInv
<1> QED
  BY <1>5, <1>6 DEF AdminInv

\* What does not touch the calls, and changes the status of rows in the table
\* only, keeps what is known of the calls.
LEMMA CallsFrame ==
  ASSUME AdminInv, UNCHANGED adminVars, StoreTypeOK',
         \A a \in Accounts : \/ status'[a] = status[a]
                             \/ Exists(a) /\ status'[a] \in AccountStatus
  PROVE  AdminInv'
<1>1. AdminTypeOK'
  BY DEF AdminInv, AdminTypeOK, adminVars
<1>2. \A a \in Accounts : /\ status[a] = "deleted" => status'[a] = "deleted"
                          /\ status[a] # "unborn" => status'[a] # "unborn"
                          /\ Exists(a)' => Exists(a)
  BY DEF Exists, AccountStatus
<1>3. DeleteInv'
  BY <1>2 DEF AdminInv, AdminTypeOK, DeleteInv, adminVars
<1>4. UNCHANGED <<proxy, target, cpc, seen>>
  BY DEF adminVars
<1>5. \A a \in Accounts, c \in Calls : Notices(c, a) => Notices(c, a)'
  BY <1>4 DEF Notices
<1>6. RefusalInv'
  BY <1>2, <1>4, <1>5 DEF AdminInv, RefusalInv
<1> QED
  BY <1>1, <1>3, <1>6 DEF AdminInv

\* The step of a request.
LEMMA RequestKeepsAdmin ==
  ASSUME ReqTypeOK, ConnOK, AdminInv, UNCHANGED adminVars,
         NEW r \in Requests, Step(r) \/ Mishap(r) \/ Failure(r)
  PROVE  AdminInv'
<1>1. StoreTypeOK /\ StatusOK
  BY DEF AdminInv, AdminTypeOK, StoreTypeOK, StatusOK
<1>2. StoreTypeOK'
  BY <1>1, RequestType, StoreStep DEF StoreTypeOK, ConnOK
<1>3. \A a \in Accounts : \/ status'[a] = status[a]
                          \/ Exists(a) /\ status'[a] \in {"rate_limited", "banned"}
  BY <1>1, RowStep
<1> QED
  BY <1>2, <1>3, CallsFrame DEF AccountStatus

\* The step of a call, or of a worker, is one of AdminNext.
LEMMA AdminKeeps ==
  ASSUME AdminInv,
         \/ \E c \in Calls : CallStep(c) \/ CallRaises(c)
         \/ \E w \in Workers : WorkerDies(w) \/ WorkerBoots(w)
  PROVE  AdminInv'
<1>1. AdminNext
  BY DEF AdminNext
<1> QED
  BY <1>1, CallType, RaiseType, WorkerType, DeleteStep, RefusalStep DEF AdminInv

LEMMA AdminStep ==
  SystemInv /\ AdminInv /\ [SystemNext]_systemVars => AdminInv'
<1> SUFFICES ASSUME SystemInv, AdminInv, [SystemNext]_systemVars PROVE AdminInv'
  OBVIOUS
<1>1. ASSUME NEW r \in Requests, Step(r) \/ Mishap(r) \/ Failure(r), UNCHANGED adminVars
      PROVE  AdminInv'
  BY <1>1, RequestKeepsAdmin DEF SystemInv
<1>2. ASSUME NEW c \in Calls, CallStep(c) \/ CallRaises(c) PROVE AdminInv'
  BY <1>2, AdminKeeps
<1>3. ASSUME NEW w \in Workers, ServerDies(w) \/ ServerBoots(w) PROVE AdminInv'
  BY <1>3, AdminKeeps DEF ServerDies, ServerBoots
<1>4. ASSUME UNCHANGED <<status, conn, pool, adminVars>>, limited' \subseteq limited
      PROVE  AdminInv'
  BY <1>4, CallsFrame DEF AdminInv, AdminTypeOK, StoreTypeOK
<1>5. ASSUME NEW a \in Accounts, Expiry(a), UNCHANGED adminVars PROVE AdminInv'
  BY <1>4, <1>5 DEF Expiry, LimitExpires
<1>6. CASE SystemQuiescent \/ UNCHANGED systemVars
  BY <1>4, <1>6 DEF SystemQuiescent, systemVars, storeVars
<1> QED
  BY <1>1, <1>2, <1>3, <1>5, <1>6 DEF SystemNext, CalmSystemNext

\* Requests and calls write only what the column may hold, and calls only what
\* they read, a worker's death in the middle included (account_service.py:40-94).
THEOREM SystemTypes == SystemSpec => [](ReqTypeOK /\ AdminTypeOK)
<1>1. SystemInv /\ AdminInv => ReqTypeOK /\ AdminTypeOK
  BY DEF SystemInv, AdminInv
<1> QED
  BY <1>1, SystemInitInv, SystemStep, AdminInitInv, AdminStep, PTL DEF SystemSpec

\* Among requests, calls and deaths a row is inserted once and deleted once.
LEMMA SystemRowLife ==
  ASSUME SystemInv, AdminInv, [SystemNext]_systemVars, NEW a \in Accounts
  PROVE  /\ status[a] = "deleted" => status'[a] = "deleted"
         /\ status[a] # "unborn" => status'[a] # "unborn"
<1>1. ASSUME NEW r \in Requests, Step(r) \/ Mishap(r) \/ Failure(r)
      PROVE  /\ status[a] = "deleted" => status'[a] = "deleted"
             /\ status[a] # "unborn" => status'[a] # "unborn"
  <2>1. StatusOK /\ ReqTypeOK
    BY DEF AdminInv, AdminTypeOK, StoreTypeOK, StatusOK, SystemInv
  <2> QED
    BY <1>1, <2>1, RowStep DEF Exists, AccountStatus
<1>2. ASSUME NEW c \in Calls, CallStep(c) \/ CallRaises(c)
      PROVE  /\ status[a] = "deleted" => status'[a] = "deleted"
             /\ status[a] # "unborn" => status'[a] # "unborn"
  BY <1>2, RowLife DEF AdminNext, AdminInv
<1>3. \/ \E b \in Accounts : Expiry(b)
      \/ \E w \in Workers : ServerDies(w) \/ ServerBoots(w)
      \/ SystemQuiescent
      \/ UNCHANGED systemVars
      => UNCHANGED status
  BY DEF Expiry, LimitExpires, ServerDies, WorkerDies, ServerBoots, WorkerBoots,
         SystemQuiescent, systemVars, storeVars
<1> QED
  BY <1>1, <1>2, <1>3 DEF SystemNext, CalmSystemNext

\* The reactions of requests that still hold a deleted account do not bring its
\* row back, no more than overlapping updates do (account_repository.py:63-97).
THEOREM SystemDeletedStays == SystemSpec => DeletedStays
<1>1. SystemInv /\ AdminInv /\ [SystemNext]_systemVars
        => [\A a \in Accounts : status[a] = "deleted" => status'[a] = "deleted"
           ]_<<storeVars, adminVars>>
  BY SystemRowLife
<1> QED
  BY <1>1, SystemInitInv, SystemStep, AdminInitInv, AdminStep, PTL
  DEF SystemSpec, DeletedStays

\* Among requests, failing calls and deaths of workers, a worker that is up loses
\* the client of an account in the table only through an update that fails in
\* ClientPool.refresh and says so (account_service.py:63-94,
\* client_pool.py:34-44).
THEOREM SystemClientsKept == SystemSpec => ClientsKept
<1>1. SystemInv /\ AdminInv /\ [SystemNext]_systemVars
        => [\A w \in up \cap up', a \in Accounts :
              Served(w, a) /\ Exists(a)' => Served(w, a)' \/ RefreshFails(w, a)
           ]_<<storeVars, adminVars>>
  <2> SUFFICES ASSUME SystemInv, AdminInv, [SystemNext]_systemVars,
                      NEW w \in up \cap up', NEW a \in Accounts,
                      Served(w, a), Exists(a)'
               PROVE  Served(w, a)' \/ RefreshFails(w, a)
    OBVIOUS
  <2>1. w \in Workers
    BY DEF AdminInv, AdminTypeOK
  <2>2. ASSUME NEW c \in Calls, CallStep(c) \/ CallRaises(c)
        PROVE  Served(w, a)' \/ RefreshFails(w, a)
    BY <2>1, <2>2, SeatStep DEF AdminInv
  <2>3. ASSUME NEW v \in Workers, ServerDies(v) \/ ServerBoots(v)
        PROVE  Served(w, a)'
    BY <2>3, OtherWorker DEF AdminInv, ServerDies, ServerBoots
  <2>4. UNCHANGED <<pool, cpc, host, target>> => Served(w, a)'
    BY DEF Served, Rebuilding
  <2>5. ASSUME NEW r \in Requests, Step(r) \/ Mishap(r) \/ Failure(r), UNCHANGED adminVars
        PROVE  UNCHANGED <<pool, cpc, host, target>>
    BY <2>5, StoreStep DEF adminVars, SystemInv, AdminInv, AdminTypeOK
  <2>6. (\E b \in Accounts : Expiry(b) /\ UNCHANGED adminVars)
          \/ SystemQuiescent \/ UNCHANGED systemVars
          => UNCHANGED <<pool, cpc, host, target>>
    BY DEF Expiry, LimitExpires, SystemQuiescent, systemVars, storeVars, adminVars
  <2> QED
    BY <2>2, <2>3, <2>4, <2>5, <2>6 DEF SystemNext, CalmSystemNext
<1> QED
  BY <1>1, SystemInitInv, SystemStep, AdminInitInv, AdminStep, PTL
  DEF SystemSpec, ClientsKept

\* Requests that mark an account, and workers that die in the middle of a call,
\* do not hide a proxy that httpx refuses either (account_service.py:40-82,
\* client_pool.py:34-39,52-69).
THEOREM SystemRefusalsNoticed == SystemSpec => []RefusalsAreNoticed
<1>1. AdminInv => RefusalsAreNoticed
  BY DEF AdminInv, RefusalInv, RefusalsAreNoticed, Notices
<1> QED
  BY <1>1, SystemInitInv, SystemStep, AdminInitInv, AdminStep, PTL DEF SystemSpec

-----------------------------------------------------------------------------
(* The ledger of connections.                                                 *)

\* A worker that dies gives up the connections of its handlers.
LEMMA DeathLedger ==
  ASSUME SystemInv, NEW w \in Workers, ServerDies(w)
  PROVE  Ledger!LedgerNext
<1> DEFINE running == {r \in Requests : home[r] = w /\ pc[r] # "new" /\ ~Over(r)}
<1>1. /\ pc' = [r \in Requests |->
                  IF r \notin running THEN pc[r]
                  ELSE IF pc[r] \in Charged THEN "lost" ELSE "done"]
      /\ UNCHANGED <<conn, acct>>
  BY DEF ServerDies, WorkerDies
<1>2. \A r \in running : pc[r] \notin {"done", "lost"} /\ r \in Requests
  BY DEF Over
<1> HIDE DEF running
<1>3. ASSUME NEW r \in Requests \ running PROVE Stage(r)' = Stage(r)
  BY <1>1 DEF Stage
<1>4. ASSUME NEW r \in Requests, r \in running
      PROVE  Stage(r)' = CASE Stage(r) = "before" -> "after"
                           [] Stage(r) = "open" -> "leaked"
                           [] OTHER -> Stage(r)
  BY <1>1, <1>2, <1>4 DEF Stage, Charged
<1>5. running \in SUBSET Requests
  BY DEF running
<1>6. Ledger!GiveUp(running)
  BY <1>1, <1>3, <1>4 DEF Ledger!GiveUp
<1> QED
  BY <1>5, <1>6 DEF Ledger!LedgerNext

\* Whatever fails, whatever the admin does, whichever worker dies: a counter
\* changes only by the acquire of a request and by its one release
\* (proxy_service.py:75, 120 and 215).
THEOREM SystemKeepsLedger == SystemSpec => KeepsLedger
<1>1. SystemInit => Ledger!LedgerInit
  BY DEF SystemInit, SelInit, Ledger!LedgerInit, Stage
<1>2. SystemInv /\ [SystemNext]_systemVars => [Ledger!LedgerNext]_Ledger!ledgerVars
  <2> SUFFICES ASSUME SystemInv, [SystemNext]_systemVars
               PROVE  [Ledger!LedgerNext]_Ledger!ledgerVars
    OBVIOUS
  <2>1. ASSUME NEW r \in Requests, Step(r) \/ Mishap(r) \/ Failure(r)
        PROVE  Ledger!LedgerNext
    BY <2>1, LedgerStep DEF SystemInv
  <2>2. ASSUME NEW w \in Workers, ServerDies(w) PROVE Ledger!LedgerNext
    BY <2>2, DeathLedger
  <2>3. ASSUME NEW c \in Calls, CallStep(c) \/ CallRaises(c), UNCHANGED <<selVars, reqVars>>
        PROVE  UNCHANGED <<conn, selVars>>
    BY <2>3, CallKeepsConn
  <2>4. \/ \E a \in Accounts : Expiry(a)
        \/ \E w \in Workers : ServerBoots(w)
        \/ SystemQuiescent
        \/ UNCHANGED systemVars
        => UNCHANGED <<conn, selVars>>
    BY DEF Expiry, LimitExpires, ServerBoots, WorkerBoots, SystemQuiescent,
           systemVars, storeVars
  <2> QED
    BY <2>1, <2>2, <2>3, <2>4, LedgerFrame DEF SystemNext, CalmSystemNext
<1> QED
  BY <1>1, <1>2, SystemInitInv, SystemStep, PTL
  DEF SystemSpec, KeepsLedger, Ledger!LedgerSpec

-----------------------------------------------------------------------------
(* While Redis and PostgreSQL answer and no worker dies, and accounts come     *)
(* and go under the requests.                                                 *)

LEMMA CalmSystemInit == SystemInit => CalmInv
<1> SUFFICES ASSUME SystemInit, NEW r \in Requests PROVE CalmOK(r) /\ BornOK(r)
  BY DEF CalmInv
<1>1. pc[r] = "new" /\ todo[r] = {} /\ cand[r] = {} /\ reply[r] = "none"
  BY DEF SystemInit, SelInit, ReqInit
<1> QED
  BY <1>1 DEF CalmOK, BornOK, Picked, Charged

LEMMA CalmSystemStep ==
  SystemInv /\ AdminInv /\ CalmInv /\ [CalmSystemNext]_systemVars => CalmInv'
<1> SUFFICES ASSUME SystemInv, AdminInv, CalmInv, [CalmSystemNext]_systemVars
             PROVE  CalmInv'
  OBVIOUS
<1>1. ReqTypeOK /\ StatusOK
  BY DEF SystemInv, AdminInv, AdminTypeOK, StoreTypeOK, StatusOK
<1>2. ASSUME NEW r \in Requests, Step(r) \/ Mishap(r) PROVE CalmInv'
  BY <1>1, <1>2, RequestCalm
<1>3. CASE UNCHANGED <<selVars, reqVars>>
  <2>1. \A a \in Accounts : /\ status[a] = "deleted" => status'[a] = "deleted"
                            /\ status[a] # "unborn" => status'[a] # "unborn"
    BY SystemRowLife DEF SystemNext
  <2> SUFFICES ASSUME NEW q \in Requests PROVE CalmOK(q)' /\ BornOK(q)'
    BY DEF CalmInv
  <2>2. /\ pc'[q] = pc[q] /\ log'[q] = log[q] /\ reply'[q] = reply[q] /\ kind' = kind
        /\ acct'[q] = acct[q] /\ todo'[q] = todo[q] /\ cand'[q] = cand[q]
    BY <1>3 DEF selVars, reqVars
  <2> QED
    BY <1>1, <2>1, <2>2, CalmFrame DEF CalmInv
<1>4. (\E a \in Accounts : Expiry(a)) \/ SystemQuiescent \/ UNCHANGED systemVars
        => UNCHANGED <<selVars, reqVars>>
  BY DEF Expiry, SystemQuiescent, systemVars
<1> QED
  BY <1>2, <1>3, <1>4 DEF CalmSystemNext

\* A calm server is a server: it keeps all that SystemSpec promises.
LEMMA CalmIsSystem == [CalmSystemNext]_systemVars => [SystemNext]_systemVars
BY DEF SystemNext

\* Deleting accounts under the requests that use them does not make a request
\* that is not a stream leak a connection after its answer
\* (proxy_service.py:95-97 and 106-120).
THEOREM CalmSyncLeaks == CalmSystemSpec => []SyncLeaksEarly
<1>1. CalmInv => SyncLeaksEarly
  BY DEF CalmInv, CalmOK, SyncLeaksEarly
<1> QED
  BY <1>1, CalmIsSystem, SystemInitInv, SystemStep, AdminInitInv, AdminStep,
     CalmSystemInit, CalmSystemStep, PTL DEF CalmSystemSpec

\* Only the deletion of its account keeps the row of an answered request that is
\* not a stream out of the request log (proxy_service.py:125-129).
THEOREM CalmSyncIsLogged == CalmSystemSpec => []AnsweredSyncIsLogged
<1>1. CalmInv => AnsweredSyncIsLogged
  BY DEF CalmInv, CalmOK, AnsweredSyncIsLogged, Exists, AccountStatus
<1> QED
  BY <1>1, CalmIsSystem, SystemInitInv, SystemStep, AdminInitInv, AdminStep,
     CalmSystemInit, CalmSystemStep, PTL DEF CalmSystemSpec
=============================================================================

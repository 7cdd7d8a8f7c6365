------------------------- MODULE AccountServiceProofs -------------------------
(***************************************************************************)
(* What AccountService guarantees for any number of accounts, workers and  *)
(* overlapping admin calls, failing calls and dying workers: types, that a *)
(* deleted account stays deleted, what can take a client out of a pool,    *)
(* and that a proxy httpx refuses does not stay unnoticed.                 *)
(***************************************************************************)
EXTENDS AccountService, TLAPS

RowType == [status : RowStates, proxy : Proxies \cup {NoClient}]

\* A row that was read from the table.
Read(row) == row.proxy \in Proxies /\ row.status \in AccountStatus

\* Where a call goes on working with the row it read first.
Working == {"add", "reload", "flush", "pop", "build"}

LEMMA RowIsRead ==
  ASSUME AdminTypeOK, NEW a \in Accounts
  PROVE  Row(a) \in RowType /\ (Exists(a) => Read(Row(a)))
BY DEF AdminTypeOK, StoreTypeOK, Row, Exists, RowType, Read

LEMMA NoRowType == NoRow \in RowType
BY DEF NoRow, RowType, RowStates

\* A call that ends has no data any more.
LEMMA ForgetType ==
  ASSUME AdminTypeOK, NEW c \in Calls, Forget(c)
  PROVE  /\ want' \in [Calls -> Proxies \cup {Keep}]
         /\ seen' \in [Calls -> RowType] /\ loaded' \in [Calls -> RowType]
         /\ \A d \in Calls \ {c} : seen'[d] = seen[d] /\ loaded'[d] = loaded[d]
<1>1. seen \in [Calls -> RowType] /\ loaded \in [Calls -> RowType]
  BY DEF AdminTypeOK, RowType
<1>2. want' \in [Calls -> Proxies \cup {Keep}]
  BY DEF Forget, AdminTypeOK
<1> QED
  BY <1>1, <1>2, NoRowType DEF Forget

\* _create_client changes the pool by a client it was given, or not at all.
LEMMA CreateClientType ==
  ASSUME AdminTypeOK, NEW c \in Calls, CreateClient(c),
         target[c] \in Accounts, seen[c].proxy \in Proxies
  PROVE  /\ Forget(c)
         /\ \E l \in {"finished", "failed"} : CallGoTo(c, l)
         /\ UNCHANGED pool \/ SetSeat(c, seen[c].proxy)
BY DEF CreateClient

\* A step of call c that leaves the other calls alone keeps the types if it
\* keeps those of c and of the store.
LEMMA OneCall ==
  ASSUME AdminTypeOK, NEW c \in Calls, NEW l \in CallPCs, CallGoTo(c, l),
         StoreTypeOK', proxy' \in [Accounts -> Proxies],
         target' \in [Calls -> Accounts \cup {NoTarget}],
         host' \in [Calls -> Workers], up' \subseteq Workers,
         want' \in [Calls -> Proxies \cup {Keep}],
         seen' \in [Calls -> RowType], loaded' \in [Calls -> RowType],
         \A d \in Calls \ {c} : /\ target'[d] = target[d] /\ seen'[d] = seen[d]
                                /\ loaded'[d] = loaded[d],
         l # "idle" => target'[c] \in Accounts,
         l \in Working => Read(seen'[c]),
         l = "flush" => Read(loaded'[c])
  PROVE  AdminTypeOK'
<1>1. /\ cpc' \in [Calls -> CallPCs] /\ cpc'[c] = l
      /\ \A d \in Calls \ {c} : cpc'[d] = cpc[d]
  BY DEF CallGoTo, AdminTypeOK
<1>2. ASSUME NEW d \in Calls
      PROVE  /\ cpc'[d] # "idle" => target'[d] \in Accounts
             /\ cpc'[d] \in Working => Read(seen'[d])
             /\ cpc'[d] = "flush" => Read(loaded'[d])
  <2>1. CASE d = c
    BY <2>1, <1>1
  <2>2. CASE d # c
    BY <2>2, <1>1 DEF AdminTypeOK, Working, Read
  <2> QED
    BY <2>1, <2>2
<1> QED
  BY <1>1, <1>2 DEF AdminTypeOK, RowType, Working, Read

\* The first transaction of a call.
LEMMA BeginType ==
  ASSUME AdminTypeOK, NEW c \in Calls, NEW a \in Accounts,
         \/ CreateInsert(c, a) \/ UpdateGet(c, a)
         \/ DeleteGet(c, a) \/ UnbanGet(c, a)
  PROVE  AdminTypeOK'
<1> USE DEF storeVars
<1>1. /\ Begin(c, a)
      /\ UNCHANGED <<conn, limited, pool, loaded>>
  BY DEF CreateInsert, UpdateGet, DeleteGet, UnbanGet
<1>2. /\ target' \in [Calls -> Accounts \cup {NoTarget}] /\ target'[c] = a
      /\ \A d \in Calls \ {c} : target'[d] = target[d]
      /\ host' \in [Calls -> Workers] /\ up' \subseteq Workers
      /\ loaded' \in [Calls -> RowType]
  BY <1>1 DEF Begin, AdminTypeOK, RowType
<1>3. Row(a) \in RowType /\ (Exists(a) => Read(Row(a)))
  BY RowIsRead
<1>4. CASE CreateInsert(c, a)
  <2>1. StoreTypeOK' /\ proxy' \in [Accounts -> Proxies]
    BY <1>1, <1>4 DEF CreateInsert, AdminTypeOK, StoreTypeOK, RowStates, AccountStatus
  <2>2. /\ CallGoTo(c, "reread") /\ "reread" \in CallPCs \ Working
        /\ UNCHANGED <<want, seen>>
    BY <1>4 DEF CreateInsert, CallPCs, Working
  <2>3. seen' \in [Calls -> RowType] /\ want' \in [Calls -> Proxies \cup {Keep}]
    BY <2>2 DEF AdminTypeOK, RowType
  <2> QED
    BY <1>1, <1>2, <2>1, <2>2, <2>3, OneCall
<1>5. CASE UpdateGet(c, a)
  <2> DEFINE l == IF Exists(a) THEN "reload" ELSE "finished"
  <2>1. StoreTypeOK' /\ proxy' \in [Accounts -> Proxies]
    BY <1>5 DEF UpdateGet, AdminTypeOK, StoreTypeOK
  <2>2. want' \in [Calls -> Proxies \cup {Keep}]
    BY <1>5 DEF UpdateGet, AdminTypeOK
  <2>3. /\ seen' \in [Calls -> RowType] /\ (Exists(a) => seen'[c] = Row(a))
        /\ \A d \in Calls \ {c} : seen'[d] = seen[d]
    BY <1>3, <1>5 DEF UpdateGet, AdminTypeOK, RowType
  <2>4. CallGoTo(c, l) /\ l \in CallPCs /\ l # "flush" /\ (l \in Working => Exists(a))
    BY <1>5 DEF UpdateGet, CallPCs, Working
  <2> HIDE DEF l
  <2> QED
    BY <1>1, <1>2, <1>3, <2>1, <2>2, <2>3, <2>4, OneCall
<1>6. CASE DeleteGet(c, a) \/ UnbanGet(c, a)
  <2>1. StoreTypeOK' /\ proxy' \in [Accounts -> Proxies]
    BY <1>6 DEF DeleteGet, UnbanGet, AdminTypeOK, StoreTypeOK
  <2>2. PICK l \in {"delete", "setavailable", "finished"} : CallGoTo(c, l)
    BY <1>6 DEF DeleteGet, UnbanGet
  <2>3. l \in CallPCs \ Working /\ l # "flush"
    BY DEF CallPCs, Working
  <2>4. UNCHANGED <<want, seen>>
    BY <1>6 DEF DeleteGet, UnbanGet
  <2>5. seen' \in [Calls -> RowType] /\ want' \in [Calls -> Proxies \cup {Keep}]
    BY <2>4 DEF AdminTypeOK, RowType
  <2> QED
    BY <1>1, <1>2, <2>1, <2>2, <2>3, <2>4, <2>5, OneCall
<1> QED
  BY <1>4, <1>5, <1>6

\* The transactions after it that read or write the table.
LEMMA RowStepType ==
  ASSUME AdminTypeOK, NEW c \in Calls,
         \/ CreateReread(c) \/ UpdateReload(c) \/ UpdateFlush(c) \/ UpdateReread(c)
         \/ DeleteRow(c) \/ UnbanRow(c)
  PROVE  AdminTypeOK'
<1> USE DEF storeVars, callVars
<1> DEFINE a == target[c]
<1>1. /\ a \in Accounts
      /\ UNCHANGED <<target, host, up, conn, limited, pool>>
      /\ UpdateFlush(c) \/ UNCHANGED want
  BY DEF CreateReread, UpdateReload, UpdateFlush, UpdateReread, DeleteRow, UnbanRow,
         AdminTypeOK
<1>2. /\ target' \in [Calls -> Accounts \cup {NoTarget}] /\ target'[c] \in Accounts
      /\ host' \in [Calls -> Workers] /\ up' \subseteq Workers
      /\ UpdateFlush(c) => Forget(c)
      /\ want' \in [Calls -> Proxies \cup {Keep}]
      /\ seen \in [Calls -> RowType] /\ loaded \in [Calls -> RowType]
  BY <1>1, ForgetType DEF AdminTypeOK, RowType, UpdateFlush
<1>3. Row(a) \in RowType /\ (Exists(a) => Read(Row(a)))
  BY <1>1, RowIsRead
<1> HIDE DEF a
<1>4. CASE CreateReread(c) \/ UpdateReread(c)
  <2>1. PICK l \in {"add", "pop", "failed"} :
          CallGoTo(c, l) /\ (l # "failed" => Exists(a))
    BY <1>4 DEF CreateReread, UpdateReread, a
  <2>2. l \in CallPCs /\ l # "flush" /\ (l \in Working => l # "failed")
    BY DEF CallPCs, Working
  <2>3. seen' = [seen EXCEPT ![c] = Row(a)] /\ UNCHANGED <<status, proxy, loaded>>
    BY <1>4 DEF CreateReread, UpdateReread, a
  <2>4. /\ seen' \in [Calls -> RowType] /\ seen'[c] = Row(a)
        /\ \A d \in Calls \ {c} : seen'[d] = seen[d]
    BY <1>2, <1>3, <2>3
  <2>5. StoreTypeOK' /\ proxy' \in [Accounts -> Proxies]
    BY <1>1, <2>3 DEF AdminTypeOK, StoreTypeOK
  <2> QED
    BY <1>1, <1>2, <1>3, <2>1, <2>2, <2>3, <2>4, <2>5, OneCall
<1>5. CASE UpdateReload(c)
  <2>1. PICK l \in {"flush", "failed"} :
          CallGoTo(c, l) /\ (l # "failed" => Exists(a))
    BY <1>5 DEF UpdateReload, a
  <2>2. l \in CallPCs /\ (l \in Working => l = "flush")
    BY DEF CallPCs, Working
  <2>3. /\ loaded' = [loaded EXCEPT ![c] = Row(a)]
        /\ UNCHANGED <<status, proxy, seen>>
        /\ cpc[c] = "reload"
    BY <1>5 DEF UpdateReload, a
  <2>4. /\ loaded' \in [Calls -> RowType] /\ loaded'[c] = Row(a)
        /\ \A d \in Calls \ {c} : loaded'[d] = loaded[d]
    BY <1>2, <1>3, <2>3
  <2>5. StoreTypeOK' /\ proxy' \in [Accounts -> Proxies]
    BY <1>1, <2>3 DEF AdminTypeOK, StoreTypeOK
  <2>6. Read(seen'[c])
    BY <2>3 DEF AdminTypeOK, Read
  <2> QED
    BY <1>1, <1>2, <1>3, <2>1, <2>2, <2>3, <2>4, <2>5, <2>6, OneCall
<1>6. CASE UpdateFlush(c)
  <2>1. Forget(c) /\ Read(seen[c])
    BY <1>6 DEF UpdateFlush, AdminTypeOK, Read
  <2>2. PICK l \in {"refresh", "failed"} : CallGoTo(c, l)
    BY <1>6 DEF UpdateFlush
  <2>3. l \in CallPCs \ Working /\ l # "flush"
    BY DEF CallPCs, Working
  <2>4. want[c] \in Proxies \cup {Keep}
    BY DEF AdminTypeOK
  <2>5. \/ UNCHANGED status
        \/ \E s \in AccountStatus : status' = [status EXCEPT ![a] = s]
    BY <1>6, <2>1 DEF UpdateFlush, Read, rowVars, AdminTypeOK, StoreTypeOK, a
  <2>6. \/ UNCHANGED proxy
        \/ \E p \in Proxies : proxy' = [proxy EXCEPT ![a] = p]
    BY <1>6, <2>1, <2>4 DEF UpdateFlush, Read, rowVars, AdminTypeOK, a
  <2>7. StoreTypeOK'
    <3>1. status \in [Accounts -> RowStates] /\ AccountStatus \subseteq RowStates
      BY DEF AdminTypeOK, StoreTypeOK, RowStates
    <3>2. status' \in [Accounts -> RowStates]
      BY <2>5, <3>1
    <3> QED
      BY <1>1, <3>2 DEF AdminTypeOK, StoreTypeOK
  <2>8. proxy' \in [Accounts -> Proxies]
    BY <2>6 DEF AdminTypeOK
  <2> QED
    BY <1>1, <1>2, <2>1, <2>2, <2>3, <2>7, <2>8, ForgetType, OneCall
<1>7. CASE DeleteRow(c) \/ UnbanRow(c)
  <2>1. UNCHANGED <<seen, loaded, proxy>>
    BY <1>7 DEF DeleteRow, UnbanRow
  <2>2. PICK l \in {"remove", "clearlimit"} : CallGoTo(c, l)
    BY <1>7 DEF DeleteRow, UnbanRow
  <2>3. l \in CallPCs \ Working /\ l # "flush"
    BY DEF CallPCs, Working
  <2>4. StoreTypeOK' /\ proxy' \in [Accounts -> Proxies]
    BY <1>1, <1>7, <2>1 DEF DeleteRow, UnbanRow, UpdateStatus, AdminTypeOK,
       StoreTypeOK, RowStates, AccountStatus
  <2> QED
    BY <1>1, <1>2, <2>1, <2>2, <2>3, <2>4, OneCall
<1> QED
  BY <1>4, <1>5, <1>6, <1>7

\* The steps that touch a client pool or Redis.
LEMMA PoolStepType ==
  ASSUME AdminTypeOK, NEW c \in Calls,
         \/ CreateAdd(c) \/ UpdatePop(c) \/ UpdateBuild(c)
         \/ DeleteRemove(c) \/ UnbanClear(c)
  PROVE  AdminTypeOK'
<1> USE DEF storeVars, callVars
<1>1. /\ target[c] \in Accounts
      /\ UNCHANGED <<target, host, up, conn, status, proxy>>
  BY DEF CreateAdd, UpdatePop, UpdateBuild, DeleteRemove, UnbanClear, AdminTypeOK
<1>2. CreateAdd(c) \/ UpdatePop(c) \/ UpdateBuild(c)
        => Read(seen[c]) /\ UNCHANGED limited
  BY DEF CreateAdd, UpdatePop, UpdateBuild, AdminTypeOK, Read
<1>3. /\ Forget(c) \/ UNCHANGED <<want, seen, loaded>>
      /\ \E l \in {"build", "finished", "failed"} :
           CallGoTo(c, l) /\ (l = "build" => Read(seen[c]) /\ UNCHANGED seen)
      /\ \/ UNCHANGED <<pool, limited>>
         \/ UNCHANGED pool /\ limited' = limited \ {target[c]}
         \/ UNCHANGED limited /\ \E p \in Proxies \cup {NoClient} : SetSeat(c, p)
  <2>1. CASE UpdatePop(c) /\ SetSeat(c, NoClient) /\ CallGoTo(c, "build")
               /\ UNCHANGED <<want, seen, loaded>>
    BY <1>2, <2>1
  <2>2. CASE (CreateAdd(c) \/ UpdatePop(c) \/ UpdateBuild(c)) /\ CreateClient(c)
    BY <1>1, <1>2, <2>2, CreateClientType DEF Read
  <2>3. CASE UpdateBuild(c) /\ CallGoTo(c, "failed") /\ Forget(c) /\ UNCHANGED pool
    BY <1>2, <2>3
  <2>4. CASE DeleteRemove(c) \/ UnbanClear(c)
    BY <2>4 DEF DeleteRemove, UnbanClear
  <2> QED
    BY <2>1, <2>2, <2>3, <2>4 DEF CreateAdd, UpdatePop, UpdateBuild
<1>4. PICK l \in {"build", "finished", "failed"} :
        CallGoTo(c, l) /\ (l = "build" => Read(seen[c]) /\ UNCHANGED seen)
  BY <1>3
<1>5. l \in CallPCs /\ l # "flush" /\ (l \in Working => l = "build")
  BY DEF CallPCs, Working
<1>6. ASSUME NEW p \in Proxies \cup {NoClient}, SetSeat(c, p)
      PROVE  pool' \in [Workers -> [Accounts -> Proxies \cup {NoClient}]]
  BY <1>1, <1>6 DEF SetSeat, AdminTypeOK, StoreTypeOK
<1>7. StoreTypeOK'
  BY <1>1, <1>3, <1>6 DEF AdminTypeOK, StoreTypeOK
<1>8. /\ proxy' \in [Accounts -> Proxies]
      /\ target' \in [Calls -> Accounts \cup {NoTarget}]
      /\ host' \in [Calls -> Workers] /\ up' \subseteq Workers
  BY <1>1 DEF AdminTypeOK
<1>9. /\ want' \in [Calls -> Proxies \cup {Keep}]
      /\ seen' \in [Calls -> RowType] /\ loaded' \in [Calls -> RowType]
      /\ \A d \in Calls \ {c} : seen'[d] = seen[d] /\ loaded'[d] = loaded[d]
  BY <1>3, ForgetType DEF AdminTypeOK, RowType
<1> QED
  BY <1>1, <1>4, <1>5, <1>7, <1>8, <1>9, OneCall

LEMMA CallType ==
  ASSUME AdminTypeOK, NEW c \in Calls, CallStep(c)
  PROVE  AdminTypeOK'
BY BeginType, RowStepType, PoolStepType DEF CallStep

\* A call that raises.
LEMMA RaiseType ==
  ASSUME AdminTypeOK, NEW c \in Calls, CallRaises(c)
  PROVE  AdminTypeOK'
<1>1. /\ CallGoTo(c, "failed") /\ Forget(c) /\ target[c] \in Accounts
      /\ UNCHANGED <<status, conn, limited, pool, up, target, host, proxy>>
  BY DEF CallRaises, AdminTypeOK, storeVars
<1>2. StoreTypeOK'
  BY <1>1 DEF AdminTypeOK, StoreTypeOK
<1>3. /\ proxy' \in [Accounts -> Proxies] /\ up' \subseteq Workers
      /\ target' \in [Calls -> Accounts \cup {NoTarget}]
      /\ host' \in [Calls -> Workers]
  BY <1>1 DEF AdminTypeOK
<1>4. "failed" \in CallPCs \ Working
  BY DEF CallPCs, Working
<1> QED
  BY <1>1, <1>2, <1>3, <1>4, ForgetType, OneCall

LEMMA BootPoolType ==
  ASSUME NEW px \in [Accounts -> Proxies]
  PROVE  BootPool(px) \in [Accounts -> Proxies \cup {NoClient}]
BY DEF BootPool

\* What the death of a worker does to the calls.
LEMMA DeathOfCalls ==
  ASSUME AdminTypeOK, NEW w \in Workers, WorkerDies(w), NEW c \in Calls
  PROVE  /\ target'[c] = target[c] /\ host'[c] = host[c]
         /\ \/ cpc'[c] = "failed" /\ cpc[c] # "idle" /\ host[c] = w
            \/ cpc'[c] = cpc[c] /\ seen'[c] = seen[c] /\ loaded'[c] = loaded[c]
<1> DEFINE running == {d \in Calls : host[d] = w /\ cpc[d] # "idle" /\ ~Ended(d)}
<1>1. /\ cpc' = [d \in Calls |-> IF d \in running THEN "failed" ELSE cpc[d]]
      /\ seen' = [d \in Calls |-> IF d \in running THEN NoRow ELSE seen[d]]
      /\ loaded' = [d \in Calls |-> IF d \in running THEN NoRow ELSE loaded[d]]
      /\ UNCHANGED <<target, host>>
  BY DEF WorkerDies
<1>2. c \in running => cpc[c] # "idle" /\ host[c] = w
  OBVIOUS
<1> HIDE DEF running
<1> QED
  BY <1>1, <1>2

\* Workers that die and boot.
LEMMA WorkerType ==
  ASSUME AdminTypeOK, NEW w \in Workers, WorkerDies(w) \/ WorkerBoots(w)
  PROVE  AdminTypeOK'
<1>1. /\ UNCHANGED <<status, conn, limited, proxy, target, host>>
      /\ up' \subseteq Workers
  BY DEF WorkerDies, WorkerBoots, AdminTypeOK
<1>2. \/ pool' = [pool EXCEPT ![w] = NoPool]
      \/ pool' = [pool EXCEPT ![w] = BootPool(proxy)]
  BY DEF WorkerDies, WorkerBoots
<1>3. /\ NoPool \in [Accounts -> Proxies \cup {NoClient}]
      /\ BootPool(proxy) \in [Accounts -> Proxies \cup {NoClient}]
  BY BootPoolType DEF NoPool, AdminTypeOK
<1>4. pool' \in [Workers -> [Accounts -> Proxies \cup {NoClient}]]
  BY <1>2, <1>3 DEF AdminTypeOK, StoreTypeOK
<1>5. StoreTypeOK'
  BY <1>1, <1>4 DEF AdminTypeOK, StoreTypeOK
<1>6. CASE WorkerBoots(w)
  <2>1. UNCHANGED <<cpc, want, seen, loaded>>
    BY <1>6 DEF WorkerBoots
  <2> QED
    BY <1>1, <1>5, <2>1 DEF AdminTypeOK
<1>7. CASE WorkerDies(w)
  <2> DEFINE running == {c \in Calls : host[c] = w /\ cpc[c] # "idle" /\ ~Ended(c)}
  <2>1. /\ cpc' = [c \in Calls |-> IF c \in running THEN "failed" ELSE cpc[c]]
        /\ want' = [c \in Calls |-> IF c \in running THEN Keep ELSE want[c]]
        /\ seen' = [c \in Calls |-> IF c \in running THEN NoRow ELSE seen[c]]
        /\ loaded' = [c \in Calls |-> IF c \in running THEN NoRow ELSE loaded[c]]
    BY <1>7 DEF WorkerDies
  <2> HIDE DEF running
  <2>2. "failed" \in CallPCs
    BY DEF CallPCs
  <2>3. cpc' \in [Calls -> CallPCs] /\ want' \in [Calls -> Proxies \cup {Keep}]
    BY <2>1, <2>2 DEF AdminTypeOK
  <2>4. seen' \in [Calls -> RowType] /\ loaded' \in [Calls -> RowType]
    BY <2>1, NoRowType DEF AdminTypeOK, RowType
  <2>5. ASSUME NEW c \in Calls
        PROVE  /\ cpc'[c] # "idle" => target'[c] \in Accounts
               /\ cpc'[c] \in Working => Read(seen'[c])
               /\ cpc'[c] = "flush" => Read(loaded'[c])
    BY <1>7, DeathOfCalls DEF AdminTypeOK, Working, Read
  <2> QED
    BY <1>1, <1>5, <2>3, <2>4, <2>5 DEF AdminTypeOK, RowType, Working, Read
<1> QED
  BY <1>6, <1>7

\* Every variable keeps its type, and a call writes to the table or the pool
\* only what it read from the table (account_service.py:40-94).
THEOREM AdminTypeCorrect == AdminSpec => []AdminTypeOK
<1>1. AdminInit => AdminTypeOK
  <2> SUFFICES ASSUME AdminInit PROVE AdminTypeOK
    OBVIOUS
  <2>1. proxy \in [Accounts -> Proxies]
    BY DEF AdminInit, CallInit
  <2>2. StoreTypeOK
    BY <2>1, BootPoolType DEF AdminInit, StoreTypeOK, RowStates
  <2>3. seen \in [Calls -> RowType] /\ loaded \in [Calls -> RowType]
    BY NoRowType DEF AdminInit, CallInit
  <2>4. cpc \in [Calls -> CallPCs] /\ \A c \in Calls : cpc[c] = "idle"
    BY DEF AdminInit, CallInit, CallPCs
  <2> QED
    BY <2>1, <2>2, <2>3, <2>4 DEF AdminInit, CallInit, AdminTypeOK, RowType
<1>2. AdminTypeOK /\ [AdminNext]_<<storeVars, adminVars>> => AdminTypeOK'
  <2> SUFFICES ASSUME AdminTypeOK, [AdminNext]_<<storeVars, adminVars>>
               PROVE  AdminTypeOK'
    OBVIOUS
  <2>1. ASSUME NEW c \in Calls, CallStep(c) \/ CallRaises(c) PROVE AdminTypeOK'
    BY <2>1, CallType, RaiseType
  <2>2. ASSUME NEW a \in Accounts, LimitExpires(a), UNCHANGED adminVars
        PROVE  AdminTypeOK'
    BY <2>2 DEF LimitExpires, adminVars, AdminTypeOK, StoreTypeOK
  <2>3. CASE AdminQuiescent \/ UNCHANGED <<storeVars, adminVars>>
    BY <2>3 DEF AdminQuiescent, storeVars, adminVars, AdminTypeOK, StoreTypeOK
  <2> QED
    BY <2>1, <2>2, <2>3, WorkerType DEF AdminNext
<1> QED
  BY <1>1, <1>2, PTL DEF AdminSpec

-----------------------------------------------------------------------------
(* Action properties.                                                         *)

\* A row is inserted once and deleted once.
LEMMA RowLife ==
  ASSUME AdminTypeOK, [AdminNext]_<<storeVars, adminVars>>, NEW a \in Accounts
  PROVE  /\ status[a] = "deleted" => status'[a] = "deleted"
         /\ status[a] # "unborn" => status'[a] # "unborn"
<1> USE DEF storeVars
<1> DEFINE Goal == /\ status[a] = "deleted" => status'[a] = "deleted"
                   /\ status[a] # "unborn" => status'[a] # "unborn"
<1>0. status \in [Accounts -> RowStates] /\ (status[a] = "deleted" => ~Exists(a))
  BY DEF AdminTypeOK, StoreTypeOK, Exists, AccountStatus
<1>1. CASE UNCHANGED status
  BY <1>1
<1>2. ASSUME NEW c \in Calls, NEW b \in Accounts, CreateInsert(c, b) PROVE Goal
  BY <1>0, <1>2 DEF CreateInsert
<1>3. ASSUME NEW c \in Calls, UpdateFlush(c) PROVE Goal
  <2>1. seen[c].status \in AccountStatus
    BY <1>3 DEF UpdateFlush, AdminTypeOK
  <2>2. seen[c].status # "unborn"
    BY <2>1 DEF AccountStatus
  <2>3. CASE target[c] = a
    BY <1>0, <1>3, <2>2, <2>3 DEF UpdateFlush, rowVars
  <2>4. CASE target[c] # a
    BY <1>0, <1>3, <2>4 DEF UpdateFlush, rowVars
  <2> QED
    BY <2>3, <2>4
<1>4. ASSUME NEW c \in Calls, DeleteRow(c) \/ UnbanRow(c) PROVE Goal
  BY <1>0, <1>4 DEF DeleteRow, UnbanRow, UpdateStatus, Exists
<1>5. ASSUME NEW c \in Calls,
             \/ CreateReread(c) \/ CreateAdd(c) \/ UpdateReload(c)
             \/ UpdateReread(c) \/ UpdatePop(c) \/ UpdateBuild(c)
             \/ DeleteRemove(c) \/ UnbanClear(c)
      PROVE  UNCHANGED status
  BY <1>5 DEF CreateReread, CreateAdd, UpdateReload, UpdateReread, UpdatePop,
              UpdateBuild, DeleteRemove, UnbanClear
<1>6. ASSUME NEW c \in Calls, NEW b \in Accounts,
             UpdateGet(c, b) \/ DeleteGet(c, b) \/ UnbanGet(c, b)
      PROVE  UNCHANGED status
  BY <1>6 DEF UpdateGet, DeleteGet, UnbanGet
<1>7. (\E b \in Accounts : LimitExpires(b)) \/ AdminQuiescent
        \/ UNCHANGED <<storeVars, adminVars>> => UNCHANGED status
  BY DEF LimitExpires, AdminQuiescent
<1>8. (\E c \in Calls : CallRaises(c))
        \/ (\E w \in Workers : WorkerDies(w) \/ WorkerBoots(w)) => UNCHANGED status
  BY DEF CallRaises, WorkerDies, WorkerBoots
<1> QED
  BY <1>1, <1>2, <1>3, <1>4, <1>5, <1>6, <1>7, <1>8 DEF AdminNext, CallStep

\* An update that overtakes a delete, or is overtaken by it, does not bring the
\* account back (account_repository.py:63-83).
THEOREM DeletedStaysDeleted == AdminSpec => DeletedStays
<1>1. AdminTypeOK /\ [AdminNext]_<<storeVars, adminVars>>
        => [\A a \in Accounts : status[a] = "deleted" => status'[a] = "deleted"
           ]_<<storeVars, adminVars>>
  BY RowLife
<1> QED
  BY <1>1, AdminTypeCorrect, PTL DEF AdminSpec, DeletedStays

\* When a call takes a client out of the pool its row is gone for good.
DeleteInv ==
  \A c \in Calls :
    /\ cpc[c] = "delete" => status[target[c]] # "unborn"
    /\ cpc[c] = "remove" => status[target[c]] = "deleted"

\* Only one call moves in a step, and only one that is idle takes a target.
LEMMA OneMoves ==
  ASSUME AdminTypeOK, NEW c \in Calls, CallStep(c) \/ CallRaises(c)
  PROVE  /\ \A d \in Calls \ {c} : /\ cpc'[d] = cpc[d] /\ target'[d] = target[d]
                                   /\ host'[d] = host[d] /\ seen'[d] = seen[d]
         /\ cpc[c] # "idle" => UNCHANGED <<target, host>>
<1> USE DEF callVars
<1>1. \A l : CallGoTo(c, l) => \A d \in Calls \ {c} : cpc'[d] = cpc[d]
  BY DEF CallGoTo, AdminTypeOK
<1>2. ASSUME NEW a \in Accounts,
             \/ CreateInsert(c, a) \/ UpdateGet(c, a)
             \/ DeleteGet(c, a) \/ UnbanGet(c, a)
      PROVE  /\ cpc[c] = "idle" /\ \E l : CallGoTo(c, l)
             /\ \A d \in Calls \ {c} : /\ target'[d] = target[d] /\ host'[d] = host[d]
                                       /\ seen'[d] = seen[d]
  BY <1>2 DEF CreateInsert, UpdateGet, DeleteGet, UnbanGet, Begin, AdminTypeOK
<1>3. CreateReread(c) \/ CreateAdd(c) \/ UpdateReload(c) \/ UpdateFlush(c)
        \/ UpdateReread(c) \/ UpdatePop(c) \/ UpdateBuild(c)
        => /\ UNCHANGED <<target, host>> /\ \E l : CallGoTo(c, l)
           /\ \A d \in Calls \ {c} : seen'[d] = seen[d]
  BY DEF CreateReread, CreateAdd, UpdateReload, UpdateFlush, UpdateReread,
         UpdatePop, UpdateBuild, CreateClient, Forget, AdminTypeOK
<1>4. DeleteRow(c) \/ DeleteRemove(c) \/ UnbanRow(c) \/ UnbanClear(c)
        => UNCHANGED <<target, host, seen>> /\ \E l : CallGoTo(c, l)
  BY DEF DeleteRow, DeleteRemove, UnbanRow, UnbanClear
<1>5. CallRaises(c) => /\ UNCHANGED <<target, host>> /\ CallGoTo(c, "failed")
                       /\ \A d \in Calls \ {c} : seen'[d] = seen[d]
  BY DEF CallRaises, Forget, AdminTypeOK
<1> QED
  BY <1>1, <1>2, <1>3, <1>4, <1>5 DEF CallStep

LEMMA DeleteStep ==
  ASSUME AdminTypeOK, DeleteInv, [AdminNext]_<<storeVars, adminVars>>
  PROVE  DeleteInv'
<1>1. \A a \in Accounts : /\ status[a] = "deleted" => status'[a] = "deleted"
                          /\ status[a] # "unborn" => status'[a] # "unborn"
  BY RowLife
<1>2. ASSUME NEW d \in Calls, cpc'[d] = cpc[d], target'[d] = target[d]
      PROVE  /\ cpc'[d] = "delete" => status'[target'[d]] # "unborn"
             /\ cpc'[d] = "remove" => status'[target'[d]] = "deleted"
  BY <1>1, <1>2 DEF DeleteInv, AdminTypeOK
<1>3. ASSUME NEW c \in Calls, CallStep(c) PROVE DeleteInv'
  <2>1. CASE \E a \in Accounts : DeleteGet(c, a)
    <3>1. PICK a \in Accounts : DeleteGet(c, a)
      BY <2>1
    <3>2. target'[c] = a /\ UNCHANGED status
      BY <3>1 DEF DeleteGet, Begin, AdminTypeOK, storeVars
    <3>3. cpc'[c] = IF Exists(a) THEN "delete" ELSE "finished"
      BY <3>1 DEF DeleteGet, CallGoTo, AdminTypeOK
    <3>4. Exists(a) => status[a] # "unborn"
      BY DEF Exists, AccountStatus
    <3> QED
      BY <1>2, <1>3, <3>2, <3>3, <3>4, OneMoves DEF DeleteInv
  <2>2. CASE DeleteRow(c)
    <3>1. /\ cpc[c] = "delete" /\ cpc'[c] = "remove" /\ UNCHANGED target
          /\ target[c] \in Accounts
      BY <2>2 DEF DeleteRow, CallGoTo, AdminTypeOK, callVars
    <3>2. status[target[c]] \in RowStates /\ status[target[c]] # "unborn"
      BY <3>1 DEF DeleteInv, AdminTypeOK, StoreTypeOK
    <3>3. status'[target[c]] = "deleted"
      BY <2>2, <3>1, <3>2 DEF DeleteRow, Exists, RowStates, AdminTypeOK, StoreTypeOK
    <3> QED
      BY <1>2, <1>3, <3>1, <3>3, OneMoves DEF DeleteInv
  <2>3. CASE cpc'[c] \notin {"delete", "remove"}
    BY <1>2, <1>3, <2>3, OneMoves DEF DeleteInv
  <2>4. ASSUME NEW l \in CallPCs, CallGoTo(c, l) PROVE cpc'[c] = l
    BY <2>4 DEF CallGoTo, AdminTypeOK
  <2>5. ASSUME NEW a \in Accounts,
               CreateInsert(c, a) \/ UpdateGet(c, a) \/ UnbanGet(c, a)
        PROVE  cpc'[c] \notin {"delete", "remove"}
    BY <2>5 DEF CreateInsert, UpdateGet, UnbanGet, CallGoTo, AdminTypeOK
  <2>6. CreateReread(c) \/ CreateAdd(c) \/ UpdateReload(c) \/ UpdateFlush(c)
          \/ UpdateReread(c) => cpc'[c] \notin {"delete", "remove"}
    BY DEF CreateReread, CreateAdd, UpdateReload, UpdateFlush, UpdateReread,
           CreateClient, CallGoTo, AdminTypeOK
  <2>7. UpdatePop(c) \/ UpdateBuild(c) \/ DeleteRemove(c) \/ UnbanRow(c)
          \/ UnbanClear(c) => cpc'[c] \notin {"delete", "remove"}
    BY DEF UpdatePop, UpdateBuild, DeleteRemove, UnbanRow, UnbanClear,
           CreateClient, CallGoTo, AdminTypeOK
  <2> QED
    BY <1>3, <2>1, <2>2, <2>3, <2>5, <2>6, <2>7 DEF CallStep
<1>4. (\E a \in Accounts : LimitExpires(a) /\ UNCHANGED adminVars) \/ AdminQuiescent
        \/ UNCHANGED <<storeVars, adminVars>> => UNCHANGED <<cpc, target>>
  BY DEF AdminQuiescent, adminVars
<1>5. UNCHANGED <<cpc, target>> => DeleteInv'
  BY <1>2 DEF DeleteInv
<1>6. ASSUME NEW c \in Calls, CallRaises(c) PROVE DeleteInv'
  <2>1. cpc'[c] = "failed"
    BY <1>6 DEF CallRaises, CallGoTo, AdminTypeOK
  <2> QED
    BY <1>2, <1>6, <2>1, OneMoves DEF DeleteInv
<1>7. ASSUME NEW w \in Workers, WorkerDies(w) PROVE DeleteInv'
  BY <1>2, <1>7, DeathOfCalls DEF DeleteInv
<1>8. ASSUME NEW w \in Workers, WorkerBoots(w) PROVE UNCHANGED <<cpc, target>>
  BY <1>8 DEF WorkerBoots
<1> QED
  BY <1>3, <1>4, <1>5, <1>6, <1>7, <1>8 DEF AdminNext

\* What a step does to the client of account a in worker w.
LEMMA SeatStep ==
  ASSUME AdminTypeOK, DeleteInv, NEW c \in Calls, CallStep(c) \/ CallRaises(c),
         NEW w \in Workers, NEW a \in Accounts, Served(w, a), Exists(a)'
  PROVE  Served(w, a)' \/ RefreshFails(w, a)
<1> USE DEF storeVars, callVars
<1> DEFINE mine == host[c] = w /\ target[c] = a
           Goal == Served(w, a)' \/ RefreshFails(w, a)
<1>1. /\ \A d \in Calls \ {c} : /\ cpc'[d] = cpc[d] /\ target'[d] = target[d]
                                /\ host'[d] = host[d]
      /\ cpc[c] # "idle" => UNCHANGED <<target, host>>
  BY OneMoves
<1>2. pool \in [Workers -> [Accounts -> Proxies \cup {NoClient}]]
  BY DEF AdminTypeOK, StoreTypeOK
<1>3. CASE cpc[c] # "build" /\ pool'[w][a] = pool[w][a]
  BY <1>1, <1>3 DEF Served, Rebuilding
<1>4. CASE cpc[c] = "build" /\ pool'[w][a] = pool[w][a] /\ ~mine
  BY <1>1, <1>4 DEF Served, Rebuilding
<1>5. CASE pool'[w][a] # NoClient
  BY <1>5 DEF Served
<1>6. ASSUME NEW p, SetSeat(c, p), p = NoClient => ~mine
      PROVE  pool'[w][a] # NoClient \/ (~mine /\ pool'[w][a] = pool[w][a])
  BY <1>2, <1>6 DEF SetSeat, AdminTypeOK, StoreTypeOK
<1>7. ASSUME UNCHANGED pool, CallGoTo(c, "failed"), cpc[c] = "build" PROVE Goal
  <2>1. cpc'[c] = "failed" /\ pool'[w][a] = pool[w][a]
    BY <1>7 DEF CallGoTo, AdminTypeOK
  <2> QED
    BY <1>4, <1>7, <2>1 DEF RefreshFails
<1>8. ASSUME CreateClient(c), cpc[c] \in {"add", "pop", "build"} PROVE Goal
  <2>1. CASE SetSeat(c, seen[c].proxy)
    <3>1. seen[c].proxy \in Proxies
      BY <1>8 DEF AdminTypeOK
    <3>2. seen[c].proxy # NoClient
      BY <3>1, NoClientAssumption
    <3> QED
      BY <1>3, <1>4, <1>5, <1>6, <2>1, <3>2
  <2>2. CASE UNCHANGED pool /\ CallGoTo(c, "failed")
    BY <1>3, <1>7, <2>2
  <2> QED
    BY <1>8, <2>1, <2>2 DEF CreateClient
<1>9. CASE CreateAdd(c)
  BY <1>8, <1>9 DEF CreateAdd
<1>10. CASE UpdateBuild(c)
  BY <1>7, <1>8, <1>10 DEF UpdateBuild
<1>11. CASE UpdatePop(c)
  <2>1. CASE SetSeat(c, NoClient) /\ CallGoTo(c, "build")
    <3>1. cpc'[c] = "build" /\ UNCHANGED <<host, target>>
      BY <1>11, <2>1 DEF UpdatePop, CallGoTo, AdminTypeOK
    <3>2. CASE mine
      BY <3>1, <3>2 DEF Served, Rebuilding
    <3>3. CASE ~mine
      BY <1>3, <1>5, <1>6, <1>11, <2>1, <3>3 DEF UpdatePop
    <3> QED
      BY <3>2, <3>3
  <2> QED
    BY <1>8, <1>11, <2>1 DEF UpdatePop
<1>12. CASE DeleteRemove(c)
  <2>1. SetSeat(c, NoClient) /\ cpc[c] = "remove" /\ UNCHANGED status
    BY <1>12 DEF DeleteRemove
  <2>2. status[target[c]] = "deleted"
    BY <2>1 DEF DeleteInv
  <2>3. target[c] # a
    BY <2>1, <2>2 DEF Exists, AccountStatus
  <2> QED
    BY <1>3, <1>5, <1>6, <2>1, <2>3
<1>13. ASSUME NEW b \in Accounts,
              \/ CreateInsert(c, b) \/ UpdateGet(c, b)
              \/ DeleteGet(c, b) \/ UnbanGet(c, b)
       PROVE  UNCHANGED pool /\ cpc[c] # "build"
  BY <1>13 DEF CreateInsert, UpdateGet, DeleteGet, UnbanGet, Begin
<1>14. CreateReread(c) \/ UpdateReload(c) \/ UpdateFlush(c) \/ UpdateReread(c)
         \/ DeleteRow(c) \/ UnbanRow(c) \/ UnbanClear(c) \/ CallRaises(c)
         => UNCHANGED pool /\ cpc[c] # "build"
  BY DEF CreateReread, UpdateReload, UpdateFlush, UpdateReread, DeleteRow,
         UnbanRow, UnbanClear, CallRaises
<1> QED
  BY <1>3, <1>9, <1>10, <1>11, <1>12, <1>13, <1>14 DEF CallStep

\* What happens to one worker leaves the clients of the others alone.
LEMMA OtherWorker ==
  ASSUME AdminTypeOK, NEW v \in Workers, WorkerDies(v) \/ WorkerBoots(v),
         NEW w \in up \cap up', NEW a \in Accounts, Served(w, a)
  PROVE  Served(w, a)'
<1>1. v # w
  BY DEF WorkerDies, WorkerBoots
<1>2. w \in Workers /\ pool'[w][a] = pool[w][a]
  BY <1>1 DEF WorkerDies, WorkerBoots, AdminTypeOK, StoreTypeOK
<1>3. ASSUME NEW c \in Calls, host[c] = w
      PROVE  cpc'[c] = cpc[c] /\ host'[c] = host[c] /\ target'[c] = target[c]
  <2>1. CASE WorkerDies(v)
    BY <1>1, <1>3, <2>1, DeathOfCalls
  <2>2. CASE WorkerBoots(v)
    BY <2>2 DEF WorkerBoots
  <2> QED
    BY <2>1, <2>2
<1> QED
  BY <1>2, <1>3 DEF Served, Rebuilding

\* Of an account in the table a worker that is up loses the client only through
\* an update that fails in ClientPool.refresh and says so; updates, deletes and
\* unbans in any order, failing before that or not, leave it with one
\* (account_service.py:63-94, client_pool.py:34-44).
THEOREM ClientsAreKept == AdminSpec => ClientsKept
<1>1. AdminInit => DeleteInv
  BY DEF AdminInit, CallInit, DeleteInv
<1>2. AdminTypeOK /\ DeleteInv /\ [AdminNext]_<<storeVars, adminVars>> => DeleteInv'
  BY DeleteStep
<1>3. AdminTypeOK /\ DeleteInv /\ [AdminNext]_<<storeVars, adminVars>>
        => [\A w \in up \cap up', a \in Accounts :
              Served(w, a) /\ Exists(a)' => Served(w, a)' \/ RefreshFails(w, a)
           ]_<<storeVars, adminVars>>
  <2> SUFFICES ASSUME AdminTypeOK, DeleteInv, [AdminNext]_<<storeVars, adminVars>>,
                      NEW w \in up \cap up', NEW a \in Accounts,
                      Served(w, a), Exists(a)'
               PROVE  Served(w, a)' \/ RefreshFails(w, a)
    OBVIOUS
  <2>1. w \in Workers
    BY DEF AdminTypeOK
  <2>2. ASSUME NEW c \in Calls, CallStep(c) \/ CallRaises(c)
        PROVE  Served(w, a)' \/ RefreshFails(w, a)
    BY <2>1, <2>2, SeatStep
  <2>3. ASSUME NEW v \in Workers, WorkerDies(v) \/ WorkerBoots(v)
        PROVE  Served(w, a)'
    BY <2>3, OtherWorker
  <2>4. (\E b \in Accounts : LimitExpires(b) /\ UNCHANGED adminVars)
          \/ AdminQuiescent \/ UNCHANGED <<storeVars, adminVars>>
          => UNCHANGED <<pool, cpc, host, target>>
    BY DEF LimitExpires, AdminQuiescent, adminVars, storeVars
  <2>5. UNCHANGED <<pool, cpc, host, target>> => Served(w, a)'
    BY DEF Served, Rebuilding
  <2> QED
    BY <2>2, <2>3, <2>4, <2>5 DEF AdminNext
<1> QED
  BY <1>1, <1>2, <1>3, AdminTypeCorrect, PTL DEF AdminSpec, ClientsKept

-----------------------------------------------------------------------------
(* Proxies that httpx refuses.                                                *)

\* Call c has written or read the proxy of account a and has not yet tried to
\* build a client with it, or it has failed.
Notices(c, a) ==
  /\ target[c] = a
  /\ \/ cpc[c] \in {"reread", "refresh", "failed"}
     \/ cpc[c] \in {"add", "pop", "build"} /\ seen[c].proxy \in Malformed

RefusalInv ==
  \A a \in Accounts :
    Exists(a) /\ proxy[a] \in Malformed => \E c \in Calls : Notices(c, a)

\* A call that is about to notice goes on until it has.
LEMMA NoticeStep ==
  ASSUME AdminTypeOK, NEW c \in Calls, CallStep(c) \/ CallRaises(c),
         NEW a \in Accounts, Notices(c, a), proxy[a] \in Malformed
  PROVE  Notices(c, a)'
<1> USE DEF callVars, storeVars
<1>1. \A l : CallGoTo(c, l) => cpc'[c] = l
  BY DEF CallGoTo, AdminTypeOK
<1>2. target'[c] = a
  BY OneMoves DEF Notices
<1>3. CASE CallRaises(c)
  BY <1>1, <1>2, <1>3 DEF CallRaises, Notices
<1>4. CASE CreateReread(c) \/ UpdateReread(c)
  <2>1. seen'[c] = Row(a) /\ cpc'[c] \in {"add", "pop", "failed"}
    BY <1>1, <1>4 DEF CreateReread, UpdateReread, Notices, AdminTypeOK
  <2>2. seen'[c].proxy \in Malformed
    BY <2>1 DEF Row
  <2> QED
    BY <1>2, <2>1, <2>2 DEF Notices
<1>5. CASE CreateAdd(c) \/ UpdatePop(c) \/ UpdateBuild(c)
  <2>1. cpc[c] \in {"add", "pop", "build"} /\ seen[c].proxy \in Malformed
    BY <1>5 DEF CreateAdd, UpdatePop, UpdateBuild, Notices
  <2>2. CallGoTo(c, "failed") \/ (CallGoTo(c, "build") /\ UNCHANGED seen)
    BY <1>5, <2>1 DEF CreateAdd, UpdatePop, UpdateBuild, CreateClient
  <2> QED
    BY <1>1, <1>2, <2>1, <2>2 DEF Notices
<1>6. ASSUME NEW b \in Accounts,
             \/ CreateInsert(c, b) \/ UpdateGet(c, b)
             \/ DeleteGet(c, b) \/ UnbanGet(c, b)
      PROVE  FALSE
  BY <1>6 DEF CreateInsert, UpdateGet, DeleteGet, UnbanGet, Begin, Notices
<1>7. ASSUME UpdateReload(c) \/ UpdateFlush(c) \/ DeleteRow(c) \/ DeleteRemove(c)
               \/ UnbanRow(c) \/ UnbanClear(c)
      PROVE  FALSE
  BY <1>7 DEF UpdateReload, UpdateFlush, DeleteRow, DeleteRemove, UnbanRow,
              UnbanClear, Notices
<1> QED
  BY <1>3, <1>4, <1>5, <1>6, <1>7 DEF CallStep

\* Whoever writes a proxy or a row has a client to build after that.
LEMMA WriterNotices ==
  ASSUME AdminTypeOK, NEW c \in Calls, CallStep(c) \/ CallRaises(c),
         NEW a \in Accounts, Exists(a)'
  PROVE  (Exists(a) /\ proxy'[a] = proxy[a]) \/ Notices(c, a)'
<1> USE DEF callVars, storeVars
<1>1. /\ \A l : CallGoTo(c, l) => cpc'[c] = l
      /\ status \in [Accounts -> RowStates] /\ proxy \in [Accounts -> Proxies]
  BY DEF CallGoTo, AdminTypeOK, StoreTypeOK
<1>2. CASE UNCHANGED <<status, proxy>>
  BY <1>2 DEF Exists
<1>3. ASSUME NEW b \in Accounts, CreateInsert(c, b)
      PROVE  (Exists(a) /\ proxy'[a] = proxy[a]) \/ Notices(c, a)'
  <2>1. target'[c] = b /\ cpc'[c] = "reread"
    BY <1>1, <1>3 DEF CreateInsert, Begin, AdminTypeOK
  <2>2. b # a => status'[a] = status[a] /\ proxy'[a] = proxy[a]
    BY <1>1, <1>3 DEF CreateInsert
  <2> QED
    BY <2>1, <2>2 DEF Notices, Exists
<1>4. CASE UpdateFlush(c)
  <2>1. /\ UNCHANGED target /\ target[c] \in Accounts
        /\ UNCHANGED rowVars \/ CallGoTo(c, "refresh")
    BY <1>4 DEF UpdateFlush, AdminTypeOK
  <2>2. CASE target[c] = a /\ CallGoTo(c, "refresh")
    BY <1>1, <2>1, <2>2 DEF Notices
  <2>3. CASE target[c] # a
    <3>1. status'[a] = status[a] /\ proxy'[a] = proxy[a]
      BY <1>1, <1>4, <2>3 DEF UpdateFlush, rowVars
    <3> QED
      BY <3>1 DEF Exists
  <2> QED
    BY <1>2, <2>1, <2>2, <2>3 DEF rowVars
<1>5. CASE DeleteRow(c) \/ UnbanRow(c)
  <2>1. UNCHANGED proxy /\ (~Exists(a) => status'[a] = status[a])
    BY <1>1, <1>5 DEF DeleteRow, UnbanRow, UpdateStatus
  <2> QED
    BY <2>1 DEF Exists
<1>6. CreateReread(c) \/ CreateAdd(c) \/ UpdateReload(c) \/ UpdateReread(c)
        \/ UpdatePop(c) \/ UpdateBuild(c) \/ DeleteRemove(c) \/ UnbanClear(c)
        \/ CallRaises(c) => UNCHANGED <<status, proxy>>
  BY DEF CreateReread, CreateAdd, UpdateReload, UpdateReread, UpdatePop,
         UpdateBuild, DeleteRemove, UnbanClear, CallRaises
<1>7. ASSUME NEW b \in Accounts,
             UpdateGet(c, b) \/ DeleteGet(c, b) \/ UnbanGet(c, b)
      PROVE  UNCHANGED <<status, proxy>>
  BY <1>7 DEF UpdateGet, DeleteGet, UnbanGet, rowVars
<1> QED
  BY <1>2, <1>3, <1>4, <1>5, <1>6, <1>7 DEF CallStep

LEMMA RefusalStep ==
  ASSUME AdminTypeOK, RefusalInv, [AdminNext]_<<storeVars, adminVars>>
  PROVE  RefusalInv'
<1> SUFFICES ASSUME NEW a \in Accounts, Exists(a)', proxy'[a] \in Malformed
             PROVE  \E c \in Calls : Notices(c, a)'
  BY DEF RefusalInv
<1>1. ASSUME NEW c \in Calls, CallStep(c) \/ CallRaises(c)
      PROVE  \E d \in Calls : Notices(d, a)'
  <2>1. CASE Notices(c, a)'
    BY <2>1
  <2>2. CASE Exists(a) /\ proxy'[a] = proxy[a]
    <3>1. PICK d \in Calls : Notices(d, a)
      BY <2>2 DEF RefusalInv
    <3>2. CASE d = c
      BY <1>1, <2>2, <3>1, <3>2, NoticeStep
    <3>3. CASE d # c
      BY <1>1, <3>1, <3>3, OneMoves DEF Notices
    <3> QED
      BY <3>2, <3>3
  <2> QED
    BY <1>1, <2>1, <2>2, WriterNotices
<1>2. CASE UNCHANGED <<status, proxy, cpc, target, seen>>
  <2>1. PICK d \in Calls : Notices(d, a)
    BY <1>2 DEF RefusalInv, Exists
  <2> QED
    BY <1>2, <2>1 DEF Notices
<1>3. ASSUME NEW w \in Workers, WorkerDies(w) PROVE \E d \in Calls : Notices(d, a)'
  <2>1. UNCHANGED <<status, proxy>>
    BY <1>3 DEF WorkerDies
  <2>2. PICK d \in Calls : Notices(d, a)
    BY <2>1 DEF RefusalInv, Exists
  <2> QED
    BY <1>3, <2>2, DeathOfCalls DEF Notices
<1>4. (\E w \in Workers : WorkerBoots(w))
        \/ (\E b \in Accounts : LimitExpires(b) /\ UNCHANGED adminVars)
        \/ AdminQuiescent \/ UNCHANGED <<storeVars, adminVars>>
        => UNCHANGED <<status, proxy, cpc, target, seen>>
  BY DEF WorkerBoots, LimitExpires, AdminQuiescent, storeVars, adminVars
<1> QED
  BY <1>1, <1>2, <1>3, <1>4 DEF AdminNext

\* A proxy that httpx refuses is never in the table with every call on its
\* account answered: whoever wrote it fails when it builds the client, or has
\* failed before, whatever the calls wrote over each other
\* (account_service.py:40-82, client_pool.py:34-39,52-69).
THEOREM RefusalsAlwaysNoticed == AdminSpec => []RefusalsAreNoticed
<1>1. AdminInit => RefusalInv
  BY DEF AdminInit, CallInit, RefusalInv
<1>2. AdminTypeOK /\ RefusalInv /\ [AdminNext]_<<storeVars, adminVars>> => RefusalInv'
  BY RefusalStep
<1>3. RefusalInv => RefusalsAreNoticed
  BY DEF RefusalInv, RefusalsAreNoticed, Notices
<1> QED
  BY <1>1, <1>2, <1>3, AdminTypeCorrect, PTL DEF AdminSpec
=============================================================================

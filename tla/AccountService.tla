---------------------------- MODULE AccountService ----------------------------
(***************************************************************************)
(* The admin calls that change accounts                                    *)
(* (src/src/application/services/account_service.py, over                  *)
(* infrastructure/repositories/account_repository.py and                   *)
(* infrastructure/http/client_pool.py).  A call runs in one worker: it     *)
(* writes the shared table, and the client pool of that worker only.  It   *)
(* may raise at any await, and its worker may die at any time; a worker    *)
(* that comes back builds its pool from the table.                         *)
(*                                                                         *)
(* Each call is several transactions at READ COMMITTED with awaits between *)
(* them.  update_account reads the row (get_account), reads it again       *)
(* (SqlAccountRepository.update: the session keeps no strong reference to  *)
(* the first object), and at commit SQLAlchemy writes the columns whose    *)
(* value differs from the second read.  What the caller wants in a column  *)
(* it did not ask to change is what the first read saw.                    *)
(*                                                                         *)
(* Two columns are followed: status, which no admin request names, and     *)
(* proxy_url, which an update may.  Encryption salts what it is given, so  *)
(* a proxy_url that is given always differs from the one in the table.  It *)
(* is not validated: what httpx makes of it shows when a client is built,  *)
(* and by then it is in the table.                                         *)
(***************************************************************************)
EXTENDS AccountStore

CONSTANTS
  Calls,        \* admin requests; each runs once
  NoTarget,     \* what a call that has not begun works on
  Keep          \* proxy_url is absent from an update request

ASSUME NoTargetAssumption == NoTarget \notin Accounts
ASSUME KeepAssumption == Keep \notin Proxies

VARIABLES
  proxy,     \* column proxy_url
  up,        \* the workers that serve
  cpc,       \* where a call is; "finished" with an answer, "failed" without
  target,    \* its account
  host,      \* its worker
  want,      \* proxy_url of the request
  seen,      \* the row as the call's Account object has it
  loaded     \* the row as the session loaded it to flush against

rowVars == <<status, proxy>>
callVars == <<up, target, host, want>>
adminVars == <<proxy, up, cpc, target, host, want, seen, loaded>>

Row(a) == [status |-> status[a], proxy |-> proxy[a]]
NoRow == [status |-> "unborn", proxy |-> NoClient]

CallPCs == {"idle", "reread", "add", "reload", "flush", "refresh", "pop",
            "build", "delete", "remove", "setavailable", "clearlimit",
            "finished", "failed"}

Ended(c) == cpc[c] \in {"finished", "failed"}

CallGoTo(c, label) == cpc' = [cpc EXCEPT ![c] = label]

\* A call arrives at some worker.
Begin(c, a) ==
  /\ cpc[c] = "idle"
  /\ target' = [target EXCEPT ![c] = a]
  /\ \E w \in up : host' = [host EXCEPT ![c] = w]
  /\ UNCHANGED up

\* What a call knows goes with it.
Forget(c) ==
  /\ want' = [want EXCEPT ![c] = Keep]
  /\ seen' = [seen EXCEPT ![c] = NoRow]
  /\ loaded' = [loaded EXCEPT ![c] = NoRow]

Seat(c) == pool[host[c]][target[c]]
SetSeat(c, client) == pool' = [pool EXCEPT ![host[c]][target[c]] = client]

-----------------------------------------------------------------------------
(* Faulty variants of the operations below.  No specification uses them: each *)
(* is the bug that a property of this module is there to catch.               *)

\* The commit of an update inserts the row again if it is gone (an upsert).
UpdateFlushUpserts(c) ==
  /\ cpc[c] = "flush"
  /\ status' = [status EXCEPT ![target[c]] = seen[c].status]
  /\ CallGoTo(c, "refresh")
  /\ UNCHANGED <<conn, limited, pool, callVars, proxy, seen, loaded>>

\* delete_account closes the client before it deletes the row.
DeleteGetCloses(c, a) ==
  /\ Begin(c, a)
  /\ CallGoTo(c, IF Exists(a) THEN "delete" ELSE "finished")
  /\ pool' = [w \in Workers |-> [pool[w] EXCEPT ![a] = NoClient]]
  /\ UNCHANGED <<rowVars, conn, limited, want, seen, loaded>>

\* An update clears the fields it does not set.
UpdateGetForgets(c, a) ==
  /\ Begin(c, a)
  /\ \E p \in Proxies \cup {Keep} : want' = [want EXCEPT ![c] = p]
  /\ seen' = [seen EXCEPT ![c].status = "none"]
  /\ CallGoTo(c, IF Exists(a) THEN "reload" ELSE "finished")
  /\ UNCHANGED <<storeVars, proxy, loaded>>

\* An exception of httpx is logged, like one of decrypt_token.
CreateClientQuietly(c) ==
  /\ IF seen[c].proxy \in Malformed THEN UNCHANGED pool
                                     ELSE SetSeat(c, seen[c].proxy)
  /\ CallGoTo(c, "finished")
  /\ Forget(c)

-----------------------------------------------------------------------------
(* ClientPool._create_client, where create_account and update_account end.    *)

\* The account has its client, or the call has failed and the pool is as it was.
CreateClient(c) ==
  /\ \/ /\ seen[c].proxy \notin Malformed
        /\ SetSeat(c, seen[c].proxy)
        /\ CallGoTo(c, "finished")
     \/ /\ seen[c].proxy \in Malformed
        /\ UNCHANGED pool
        /\ CallGoTo(c, "failed")
  /\ Forget(c)

-----------------------------------------------------------------------------
(* create_account: INSERT, session.refresh, pool.add.                         *)

CreateInsert(c, a) ==
  /\ Begin(c, a)
  /\ status[a] = "unborn"
  /\ \E p \in Proxies : proxy' = [proxy EXCEPT ![a] = p]
  /\ status' = [status EXCEPT ![a] = "available"]
  /\ CallGoTo(c, "reread")
  /\ UNCHANGED <<conn, limited, pool, want, seen, loaded>>

\* session.refresh(row) raises if the row is gone again.
CreateReread(c) ==
  /\ cpc[c] = "reread"
  /\ seen' = [seen EXCEPT ![c] = Row(target[c])]
  /\ CallGoTo(c, IF Exists(target[c]) THEN "add" ELSE "failed")
  /\ UNCHANGED <<storeVars, callVars, proxy, loaded>>

CreateAdd(c) ==
  /\ cpc[c] = "add"
  /\ CreateClient(c)
  /\ UNCHANGED <<status, conn, limited, up, target, host, proxy>>

-----------------------------------------------------------------------------
(* update_account: get_account, repo.update, pool.refresh.                    *)

\* 404 if there is no such row.
UpdateGet(c, a) ==
  /\ Begin(c, a)
  /\ \/ /\ Exists(a)
        /\ \E p \in Proxies \cup {Keep} : want' = [want EXCEPT ![c] = p]
        /\ seen' = [seen EXCEPT ![c] = Row(a)]
        /\ CallGoTo(c, "reload")
     \/ /\ ~Exists(a)
        /\ CallGoTo(c, "finished")
        /\ UNCHANGED <<want, seen>>
  /\ UNCHANGED <<storeVars, proxy, loaded>>

\* ValueError if the row is gone.
UpdateReload(c) ==
  /\ cpc[c] = "reload"
  /\ loaded' = [loaded EXCEPT ![c] = Row(target[c])]
  /\ CallGoTo(c, IF Exists(target[c]) THEN "flush" ELSE "failed")
  /\ UNCHANGED <<storeVars, callVars, proxy, seen>>

\* Without a changed column there is no UPDATE; an UPDATE that finds no row is
\* a StaleDataError.
UpdateFlush(c) ==
  LET a == target[c]
      setStatus == seen[c].status # loaded[c].status
      setProxy == want[c] # Keep \/ seen[c].proxy # loaded[c].proxy
      newProxy == IF want[c] # Keep THEN want[c] ELSE seen[c].proxy
  IN
  /\ cpc[c] = "flush"
  /\ \/ /\ Exists(a) \/ ~(setStatus \/ setProxy)
        /\ status' = [status EXCEPT ![a] = IF setStatus THEN seen[c].status ELSE @]
        /\ proxy' = [proxy EXCEPT ![a] = IF setProxy THEN newProxy ELSE @]
        /\ CallGoTo(c, "refresh")
     \/ /\ ~Exists(a) /\ (setStatus \/ setProxy)
        /\ CallGoTo(c, "failed")
        /\ UNCHANGED rowVars
  /\ Forget(c)
  /\ UNCHANGED <<conn, limited, pool, up, target, host>>

\* session.refresh(row); it raises if the row is gone.
UpdateReread(c) ==
  /\ cpc[c] = "refresh"
  /\ seen' = [seen EXCEPT ![c] = Row(target[c])]
  /\ CallGoTo(c, IF Exists(target[c]) THEN "pop" ELSE "failed")
  /\ UNCHANGED <<storeVars, callVars, proxy, loaded>>

\* ClientPool.refresh.  While the old client closes there is no client; without
\* an old one there is nothing to wait for.
UpdatePop(c) ==
  /\ cpc[c] = "pop"
  /\ \/ /\ Seat(c) # NoClient
        /\ SetSeat(c, NoClient)
        /\ CallGoTo(c, "build")
        /\ UNCHANGED <<want, seen, loaded>>
     \/ Seat(c) = NoClient /\ CreateClient(c)
  /\ UNCHANGED <<status, conn, limited, up, target, host, proxy>>

\* Nothing is built if aclose() of the old client raises.
UpdateBuild(c) ==
  /\ cpc[c] = "build"
  /\ \/ CreateClient(c)
     \/ CallGoTo(c, "failed") /\ Forget(c) /\ UNCHANGED pool
  /\ UNCHANGED <<status, conn, limited, up, target, host, proxy>>

-----------------------------------------------------------------------------
(* delete_account: get_account, repo.delete, pool.remove.                     *)

DeleteGet(c, a) ==
  /\ Begin(c, a)
  /\ CallGoTo(c, IF Exists(a) THEN "delete" ELSE "finished")
  /\ UNCHANGED <<storeVars, want, proxy, seen, loaded>>

\* A row that is gone already is no error.
DeleteRow(c) ==
  /\ cpc[c] = "delete"
  /\ status' = [status EXCEPT ![target[c]] = IF Exists(target[c])
                                               THEN "deleted" ELSE @]
  /\ CallGoTo(c, "remove")
  /\ UNCHANGED <<conn, limited, pool, callVars, proxy, seen, loaded>>

\* Neither conn:<a> nor rl:<a> is deleted, nor any other worker's client.  The
\* client is out of the pool before its aclose() may raise.
DeleteRemove(c) ==
  /\ cpc[c] = "remove"
  /\ SetSeat(c, NoClient)
  /\ \/ CallGoTo(c, "finished")
     \/ Seat(c) # NoClient /\ CallGoTo(c, "failed")
  /\ UNCHANGED <<status, conn, limited, callVars, proxy, seen, loaded>>

-----------------------------------------------------------------------------
(* unban_account: get_account, repo.update_status, state.clear_rate_limit.    *)

UnbanGet(c, a) ==
  /\ Begin(c, a)
  /\ CallGoTo(c, IF Exists(a) THEN "setavailable" ELSE "finished")
  /\ UNCHANGED <<storeVars, want, proxy, seen, loaded>>

UnbanRow(c) ==
  /\ cpc[c] = "setavailable"
  /\ UpdateStatus(target[c], "available")
  /\ CallGoTo(c, "clearlimit")
  /\ UNCHANGED <<conn, limited, pool, callVars, proxy, seen, loaded>>

UnbanClear(c) ==
  /\ cpc[c] = "clearlimit"
  /\ limited' = limited \ {target[c]}
  /\ CallGoTo(c, "finished")
  /\ UNCHANGED <<status, conn, pool, callVars, proxy, seen, loaded>>

-----------------------------------------------------------------------------
CallStep(c) ==
  \/ \E a \in Accounts :
       CreateInsert(c, a) \/ UpdateGet(c, a) \/ DeleteGet(c, a) \/ UnbanGet(c, a)
  \/ CreateReread(c) \/ CreateAdd(c)
  \/ UpdateReload(c) \/ UpdateFlush(c) \/ UpdateReread(c)
  \/ UpdatePop(c) \/ UpdateBuild(c)
  \/ DeleteRow(c) \/ DeleteRemove(c)
  \/ UnbanRow(c) \/ UnbanClear(c)

\* A transaction or a Redis command raises, and the call with it; what it had
\* done before stays.
CallRaises(c) ==
  /\ cpc[c] \in {"reread", "reload", "flush", "refresh", "delete",
                 "setavailable", "clearlimit"}
  /\ CallGoTo(c, "failed")
  /\ Forget(c)
  /\ UNCHANGED <<storeVars, up, target, host, proxy>>

-----------------------------------------------------------------------------
(* The worker processes.                                                      *)

\* The pool of the process is gone and so are the calls it was running.
WorkerDies(w) ==
  LET running == {c \in Calls : host[c] = w /\ cpc[c] # "idle" /\ ~Ended(c)} IN
  /\ w \in up
  /\ up' = up \ {w}
  /\ pool' = [pool EXCEPT ![w] = NoPool]
  /\ cpc' = [c \in Calls |-> IF c \in running THEN "failed" ELSE cpc[c]]
  /\ want' = [c \in Calls |-> IF c \in running THEN Keep ELSE want[c]]
  /\ seen' = [c \in Calls |-> IF c \in running THEN NoRow ELSE seen[c]]
  /\ loaded' = [c \in Calls |-> IF c \in running THEN NoRow ELSE loaded[c]]
  /\ UNCHANGED <<status, conn, limited, proxy, target, host>>

\* uvicorn starts a process in its place.  If lifespan() raises, that one exits
\* and uvicorn starts the next: the worker is down until a boot gets through.
WorkerBoots(w) ==
  /\ w \notin up
  /\ Bootable(proxy)
  /\ up' = up \cup {w}
  /\ pool' = [pool EXCEPT ![w] = BootPool(proxy)]
  /\ UNCHANGED <<status, conn, limited, proxy, cpc, target, host, want, seen, loaded>>

-----------------------------------------------------------------------------
\* The workers have just booted on the table, so every proxy in it is one that
\* httpx takes.
CallInit ==
  /\ proxy \in [Accounts -> Proxies \ Malformed]
  /\ up = Workers
  /\ cpc = [c \in Calls |-> "idle"]
  /\ target = [c \in Calls |-> NoTarget]
  /\ host \in [Calls -> Workers]
  /\ want = [c \in Calls |-> Keep]
  /\ seen = [c \in Calls |-> NoRow]
  /\ loaded = seen

\* The limits of rate-limited accounts may have survived in Redis.
AdminInit ==
  /\ status \in [Accounts -> RowStates \ {"deleted"}]
  /\ conn = [a \in Accounts |-> 0]
  /\ limited \in SUBSET {a \in Accounts : status[a] = "rate_limited"}
  /\ CallInit
  /\ pool = [w \in Workers |-> BootPool(proxy)]

\* With no worker up there is nobody to take a call.
AdminIdle == \A c \in Calls : Ended(c) \/ (cpc[c] = "idle" /\ up = {})

AdminQuiescent == AdminIdle /\ UNCHANGED <<storeVars, adminVars>>

AdminNext ==
  \/ \E c \in Calls : CallStep(c) \/ CallRaises(c)
  \/ \E w \in Workers : WorkerDies(w) \/ WorkerBoots(w)
  \/ \E a \in Accounts : LimitExpires(a) /\ UNCHANGED adminVars
  \/ AdminQuiescent

AdminSpec == AdminInit /\ [][AdminNext]_<<storeVars, adminVars>>

-----------------------------------------------------------------------------
(* Properties.                                                               *)

\* Every variable keeps its type; a call that has begun names its account, and
\* only rows that were read reach the table or the pool.
AdminTypeOK ==
  /\ StoreTypeOK
  /\ proxy \in [Accounts -> Proxies]
  /\ up \subseteq Workers
  /\ cpc \in [Calls -> CallPCs]
  /\ target \in [Calls -> Accounts \cup {NoTarget}]
  /\ host \in [Calls -> Workers]
  /\ want \in [Calls -> Proxies \cup {Keep}]
  /\ seen \in [Calls -> [status : RowStates, proxy : Proxies \cup {NoClient}]]
  /\ loaded \in [Calls -> [status : RowStates, proxy : Proxies \cup {NoClient}]]
  /\ \A c \in Calls : cpc[c] # "idle" => target[c] \in Accounts
  /\ \A c \in Calls : cpc[c] \in {"add", "reload", "flush", "pop", "build"}
                        => seen[c].proxy \in Proxies /\ seen[c].status \in AccountStatus
  /\ \A c \in Calls : cpc[c] = "flush"
                        => loaded[c].proxy \in Proxies /\ loaded[c].status \in AccountStatus

Rebuilding(w, a) ==
  \E c \in Calls : cpc[c] = "build" /\ host[c] = w /\ target[c] = a

Served(w, a) == pool[w][a] # NoClient \/ Rebuilding(w, a)

\* An update of the account in this worker ends in ClientPool.refresh, with an
\* exception.
RefreshFails(w, a) ==
  \E c \in Calls : /\ host[c] = w /\ target[c] = a
                   /\ cpc[c] \in {"pop", "build"} /\ cpc'[c] = "failed"

\* While a worker is up, it loses the client of an account in the table in one
\* way only: an update of that account in that worker fails in refresh, of which
\* the admin is told.  No overlap of other updates, deletes and unbans, failing
\* or not, takes a client away for longer than it takes to build the next.
ClientsKept ==
  [][\A w \in up \cap up', a \in Accounts :
       Served(w, a) /\ Exists(a)' => Served(w, a)' \/ RefreshFails(w, a)
    ]_<<storeVars, adminVars>>

\* A proxy that httpx refuses is in the table before anybody tries to build a
\* client with it, and as long as it is, no worker can boot.  It does not stay
\* unnoticed: if every call on an account was answered, the account's proxy is
\* one that httpx takes, whatever the calls wrote over each other.
RefusalsAreNoticed ==
  \A a \in Accounts :
    Exists(a) /\ (\A c \in Calls : target[c] = a => cpc[c] = "finished")
      => proxy[a] \notin Malformed

\* An update that overtakes a delete, or is overtaken by it, does not bring the
\* account back.
DeletedStays ==
  [][\A a \in Accounts : status[a] = "deleted" => status'[a] = "deleted"
    ]_<<storeVars, adminVars>>

\* "Multiple workers are safe" (README.md:326): once every call has ended with an
\* answer, it does not matter to an available account which worker a request
\* comes to.
WorkersAgree ==
  (\A c \in Calls : cpc[c] = "finished") =>
    \A v, w \in up, a \in Accounts :
      status[a] = "available" /\ pool[v][a] # NoClient => pool[w][a] # NoClient
=============================================================================

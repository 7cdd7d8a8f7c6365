----------------------------- MODULE ProxyService -----------------------------
(***************************************************************************)
(* The life of a proxied request                                           *)
(* (src/src/application/services/proxy_service.py): choose an account,     *)
(* count the connection, look up credentials and client, call Anthropic,   *)
(* react to a 429 or a ban, release the connection, log.  A step is the    *)
(* code between two awaits together with the effect of the await it ends   *)
(* in, so the steps of all handlers interleave as they do in the server.   *)
(*                                                                         *)
(* pc[r] names the await a handler stands before:                          *)
(*   new filter score   choosing (LeastConnections)                        *)
(*   prepare            counted; decrypt_token and pool.get, outside try   *)
(*   handoff            stream only: the StreamingResponse is returned and *)
(*                      its generator not started yet                      *)
(*   upstream           client.post / client.stream                        *)
(*   mark setlimited    429: rl: key in Redis, then the row                *)
(*   ban                401 or 403, not streaming: the row                 *)
(*   body               stream only: passing chunks on                     *)
(*   release log used   the finally block                                  *)
(*   done               over, the connection not counted any more          *)
(*   lost               over, and nothing will ever uncount the connection *)
(***************************************************************************)
EXTENDS LeastConnections

CONSTANT
  Unreadable    \* accounts whose auth_token does not decrypt

ASSUME UnreadableAssumption == Unreadable \subseteq Accounts

VARIABLES
  home,     \* the worker process that runs the request
  kind,     \* "sync" or "stream", the "stream" field of the payload
  reply,    \* what Anthropic answered, "none" so far
  log       \* the RequestLog: status_code, error_type set?, row written?

reqVars == <<home, kind, reply, log>>
proxyVars == <<storeVars, selVars, reqVars>>

\* "limited" is a 429 whose retry-after is a positive integer, "limited_bad" one
\* on which int() or Redis raises; "banned" is 401 or 403, "error" any other
\* status httpx raises for; "raise" stands for every exception of the client:
\* a refused or broken connection, a timeout, a client closed under it.
Replies == {"ok", "limited", "limited_bad", "banned", "error", "raise"}

PCs == {"new", "filter", "score", "prepare", "handoff", "upstream", "mark",
        "setlimited", "ban", "body", "release", "log", "used", "done", "lost"}

\* Between the INCR and the DECR, or beyond the reach of any DECR.
Charged == {"prepare", "handoff", "upstream", "mark", "setlimited", "ban",
            "body", "release", "lost"}

NewLog == [status |-> 0, error |-> FALSE, written |-> FALSE]

ReqInit ==
  /\ home \in [Requests -> Workers]
  /\ kind \in [Requests -> {"sync", "stream"}]
  /\ reply = [r \in Requests |-> "none"]
  /\ log = [r \in Requests |-> NewLog]

Sync(r) == kind[r] = "sync"

\* Assignments to log.status_code and log.error_type; session.commit() of the row.
SetLog(r, s, e) ==
  log' = [log EXCEPT ![r] = [status |-> s, error |-> e, written |-> log[r].written]]
SaveLog(r, w) ==
  log' = [log EXCEPT ![r] = [status |-> log[r].status, error |-> log[r].error,
                             written |-> w]]

\* A status nobody set is logged as 200.
FinalStatus(r) == IF log[r].status = 0 THEN 200 ELSE log[r].status

-----------------------------------------------------------------------------
(* Faulty variants of the operations below.  No specification uses them: each *)
(* is the bug that a property of this module is there to catch.               *)

\* The generator does not record the exception it re-raises.
FailLogSyncOnly(r) ==
  IF Sync(r) THEN SetLog(r, 500, TRUE) ELSE UNCHANGED log

\* A DECR whose answer got lost is sent again.
DecrRetried(r) ==
  \/ DecrConn(acct[r]) /\ GoTo(r, "release")
  \/ UNCHANGED conn /\ GoTo(r, "lost")

\* A 429 is remembered in Redis only.
SetLimitedForgotten(r) ==
  /\ pc[r] = "setlimited"
  /\ SetLog(r, 429, Sync(r))
  /\ GoTo(r, IF Sync(r) THEN "release" ELSE "body")
  /\ UNCHANGED <<storeVars, acct, todo, cand, score, home, kind, reply>>

\* AccountBannedError leaves the handler past the finally block.
BanSkipsFinally(r) ==
  /\ pc[r] = "ban"
  /\ UpdateStatus(acct[r], "banned")
  /\ GoTo(r, "lost")
  /\ UNCHANGED <<conn, limited, pool, acct, todo, cand, score, reqVars>>

\* The connection is given back after success only.
ReleaseOnSuccess(r) ==
  /\ pc[r] = "release"
  /\ IF log[r].error THEN UNCHANGED conn ELSE DecrConn(acct[r])
  /\ SetLog(r, FinalStatus(r), log[r].error)
  /\ GoTo(r, "log")
  /\ UNCHANGED <<status, limited, pool, acct, todo, cand, score>>
  /\ UNCHANGED <<home, kind, reply>>

\* An interrupted stream is logged with the status it started with.
ReleaseKeepsZero(r) ==
  /\ pc[r] = "release"
  /\ DecrConn(acct[r])
  /\ GoTo(r, "log")
  /\ UNCHANGED <<status, limited, pool, acct, todo, cand, score, reqVars>>

\* Only successful requests reach the request log.
ReleaseLogsSuccess(r) ==
  /\ pc[r] = "release"
  /\ DecrConn(acct[r])
  /\ SetLog(r, FinalStatus(r), log[r].error)
  /\ GoTo(r, IF log[r].error THEN "done" ELSE "log")
  /\ UNCHANGED <<status, limited, pool, acct, todo, cand, score>>
  /\ UNCHANGED <<home, kind, reply>>

-----------------------------------------------------------------------------
(* From the choice of the account to the call.                                *)

Choose(r) == Select(r) /\ UNCHANGED reqVars

\* decrypt_token and pool.get run after acquire and before the try block: if
\* one of them raises, the finally block that would release is never entered.
Prepare(r) ==
  /\ pc[r] = "prepare"
  /\ GoTo(r, IF acct[r] \in Unreadable \/ pool[home[r]][acct[r]] = NoClient
               THEN "lost"
               ELSE IF Sync(r) THEN "upstream" ELSE "handoff")
  /\ UNCHANGED <<storeVars, acct, todo, cand, score, reqVars>>

\* Starlette begins to iterate over event_generator().
StartStream(r) ==
  /\ pc[r] = "handoff"
  /\ GoTo(r, "upstream")
  /\ UNCHANGED <<storeVars, acct, todo, cand, score, reqVars>>

\* The client is gone before that.  A generator that was never started runs no
\* finally block.
AbandonStream(r) ==
  /\ pc[r] = "handoff"
  /\ GoTo(r, "lost")
  /\ UNCHANGED <<storeVars, acct, todo, cand, score, reqVars>>

-----------------------------------------------------------------------------
(* The answer of Anthropic.                                                   *)

\* The except clause every other exception ends in: proxy_request logs status
\* 500, the generator leaves the status it had.
FailLog(r) ==
  SetLog(r, IF Sync(r) THEN 500 ELSE log[r].status, TRUE)

HttpStatus(rep) == IF rep = "ok" THEN 200 ELSE IF rep = "banned" THEN 401 ELSE 500

\* A sync error status becomes an HTTPStatusError, a stream is passed on as it
\* comes: only _handle_upstream_error looks for a ban, and streams never get
\* there.
Answer(r) ==
  /\ pc[r] = "upstream"
  /\ \E rep \in Replies :
       /\ reply' = [reply EXCEPT ![r] = rep]
       /\ \/ /\ rep = "limited"
             /\ GoTo(r, "mark")
             /\ UNCHANGED log
          \/ /\ rep \in {"limited_bad", "raise"}
             /\ FailLog(r)
             /\ GoTo(r, "release")
          \/ /\ rep \in {"ok", "banned", "error"}
             /\ SetLog(r, HttpStatus(rep), Sync(r) /\ rep # "ok")
             /\ GoTo(r, IF ~Sync(r) THEN "body"
                        ELSE IF rep = "banned" THEN "ban" ELSE "release")
  /\ UNCHANGED <<storeVars, acct, todo, cand, score, home, kind>>

MarkLimited(r) ==
  /\ pc[r] = "mark"
  /\ limited' = limited \cup {acct[r]}
  /\ GoTo(r, "setlimited")
  /\ UNCHANGED <<status, conn, pool, acct, todo, cand, score, reqVars>>

\* Then raise_for_status() for a sync request; a stream goes on with the body.
SetLimited(r) ==
  /\ pc[r] = "setlimited"
  /\ UpdateStatus(acct[r], "rate_limited")
  /\ SetLog(r, 429, Sync(r))
  /\ GoTo(r, IF Sync(r) THEN "release" ELSE "body")
  /\ UNCHANGED <<conn, limited, pool, acct, todo, cand, score>>
  /\ UNCHANGED <<home, kind, reply>>

Ban(r) ==
  /\ pc[r] = "ban"
  /\ UpdateStatus(acct[r], "banned")
  /\ GoTo(r, "release")
  /\ UNCHANGED <<conn, limited, pool, acct, todo, cand, score, reqVars>>

\* The stream ends; or the client goes while the generator stands at its yield,
\* and asyncio closes the generator from a task of its own.
EndBody(r) ==
  /\ pc[r] = "body"
  /\ GoTo(r, "release")
  /\ UNCHANGED <<storeVars, acct, todo, cand, score, reqVars>>

BreakBody(r) ==
  /\ pc[r] = "body"
  /\ FailLog(r)
  /\ GoTo(r, "release")
  /\ UNCHANGED <<storeVars, acct, todo, cand, score, home, kind, reply>>

-----------------------------------------------------------------------------
(* The finally block, the same in proxy_request and in the generator.         *)

Release(r) ==
  /\ pc[r] = "release"
  /\ DecrConn(acct[r])
  /\ SetLog(r, FinalStatus(r), log[r].error)
  /\ GoTo(r, "log")
  /\ UNCHANGED <<status, limited, pool, acct, todo, cand, score>>
  /\ UNCHANGED <<home, kind, reply>>

\* The row refers to the account: if that was deleted the INSERT fails, the
\* exception is swallowed and update_last_used is skipped.
WriteLog(r) ==
  /\ pc[r] = "log"
  /\ SaveLog(r, Exists(acct[r]))
  /\ GoTo(r, IF Exists(acct[r]) THEN "used" ELSE "done")
  /\ UNCHANGED <<storeVars, acct, todo, cand, score, home, kind, reply>>

UpdateLastUsed(r) ==
  /\ pc[r] = "used"
  /\ GoTo(r, "done")
  /\ UNCHANGED <<storeVars, acct, todo, cand, score, reqVars>>

-----------------------------------------------------------------------------
(* Calls that fail, and clients that go away.                                 *)

\* A command that raises may have taken effect all the same.
DecrOrNot(r) ==
  \/ DecrConn(acct[r]) /\ GoTo(r, "done")
  \/ UNCHANGED conn /\ GoTo(r, "lost")

MarkOrNot(r) == limited' = limited \/ limited' = limited \cup {acct[r]}

RedisFails(r) ==
  /\ \/ /\ pc[r] \in {"filter", "score"}      \* a read
        /\ GoTo(r, "done")
        /\ UNCHANGED <<conn, limited, acct, log>>
     \/ /\ pc[r] = "score"                    \* the INCR
        /\ todo[r] = {}
        /\ \E a \in Best(r) : acct' = [acct EXCEPT ![r] = a] /\ IncrConn(a)
        /\ GoTo(r, "lost")
        /\ UNCHANGED <<limited, log>>
     \/ /\ pc[r] = "mark"
        /\ MarkOrNot(r)
        /\ FailLog(r)
        /\ GoTo(r, "release")
        /\ UNCHANGED <<conn, acct>>
     \/ /\ pc[r] = "release"                  \* and the log is skipped
        /\ DecrOrNot(r)
        /\ UNCHANGED <<limited, acct, log>>
  /\ todo' = [todo EXCEPT ![r] = {}]
  /\ cand' = [cand EXCEPT ![r] = {}]
  /\ score' = [score EXCEPT ![r] = NoScore]
  /\ UNCHANGED <<status, pool, home, kind, reply>>

\* A transaction that raises is rolled back.  _handle_upstream_error raises
\* inside an except clause, so the log entry stays the one of the ban.
DatabaseFails(r) ==
  /\ \/ /\ pc[r] = "new"
        /\ GoTo(r, "done")
        /\ UNCHANGED log
     \/ /\ pc[r] = "setlimited"
        /\ FailLog(r)
        /\ GoTo(r, "release")
     \/ /\ pc[r] = "ban"
        /\ GoTo(r, "release")
        /\ UNCHANGED log
     \/ /\ pc[r] \in {"log", "used"}          \* swallowed
        /\ GoTo(r, "done")
        /\ UNCHANGED log
  /\ UNCHANGED <<storeVars, acct, todo, cand, score, home, kind, reply>>

\* The client of a stream is gone: Starlette cancels the task, every await of
\* the generator raises from then on, those of its finally block included.
\* The call it was waiting for, and then the DECR, may have gone out or not.
CancelStream(r) ==
  /\ ~Sync(r)
  /\ \/ /\ pc[r] \in {"upstream", "mark", "setlimited", "body", "release"}
        /\ IF pc[r] = "mark" THEN MarkOrNot(r) ELSE UNCHANGED limited
        /\ \/ UNCHANGED status
           \/ pc[r] = "setlimited" /\ UpdateStatus(acct[r], "rate_limited")
        /\ DecrOrNot(r)
        /\ UNCHANGED log
     \/ /\ pc[r] = "log"
        /\ UNCHANGED log \/ SaveLog(r, Exists(acct[r]))
        /\ GoTo(r, "done")
        /\ UNCHANGED <<status, conn, limited>>
     \/ /\ pc[r] = "used"
        /\ GoTo(r, "done")
        /\ UNCHANGED <<status, conn, limited, log>>
  /\ UNCHANGED <<pool, acct, todo, cand, score, home, kind, reply>>

-----------------------------------------------------------------------------
\* What a handler does by itself, as long as it is scheduled and its calls end.
Step(r) ==
  \/ Choose(r) \/ Prepare(r) \/ StartStream(r) \/ Answer(r) \/ MarkLimited(r)
  \/ SetLimited(r) \/ Ban(r) \/ EndBody(r) \/ BreakBody(r) \/ Release(r)
  \/ WriteLog(r) \/ UpdateLastUsed(r)

\* What its client does to it, and what the servers behind it do.
Mishap(r) == AbandonStream(r) \/ CancelStream(r)
Failure(r) == RedisFails(r) \/ DatabaseFails(r)

Over(r) == pc[r] \in {"done", "lost"}

\* Every request is over: the server waits for the next one.
Quiescent == (\A r \in Requests : Over(r)) /\ UNCHANGED proxyVars

Expiry(a) == LimitExpires(a) /\ UNCHANGED <<selVars, reqVars>>

\* A worker has no client for an account that another worker created since it
\* booted, so any subset of the clients may be there; and an account may have
\* been banned before.
ProxyInit ==
  /\ status \in [Accounts -> {"available", "banned"}]
  /\ conn = [a \in Accounts |-> 0]
  /\ limited = {}
  /\ pool \in [Workers -> [Accounts -> Proxies \cup {NoClient}]]
  /\ SelInit
  /\ ReqInit

\* Redis and PostgreSQL answer every call.
CalmNext ==
  \/ \E r \in Requests : Step(r) \/ Mishap(r)
  \/ \E a \in Accounts : Expiry(a)
  \/ Quiescent

\* Any of them may fail.
ProxyNext == CalmNext \/ \E r \in Requests : Failure(r)

\* asyncio schedules every ready task, httpx bounds every wait by
\* REQUEST_TIMEOUT_SECONDS, and Redis expires keys.
ProxyFairness ==
  /\ \A r \in Requests : WF_proxyVars(Step(r))
  /\ \A a \in Accounts : WF_proxyVars(Expiry(a))

ProxySafety == ProxyInit /\ [][ProxyNext]_proxyVars
CalmSpec == ProxyInit /\ [][CalmNext]_proxyVars /\ ProxyFairness

-----------------------------------------------------------------------------
(* Properties.                                                               *)

ReqTypeOK ==
  /\ SelTypeOK
  /\ pc \in [Requests -> PCs]
  /\ home \in [Requests -> Workers]
  /\ kind \in [Requests -> {"sync", "stream"}]
  /\ reply \in [Requests -> Replies \cup {"none"}]
  /\ log \in [Requests -> [status : {0, 200, 401, 429, 500},
                            error : BOOLEAN, written : BOOLEAN]]
  /\ \A r \in Requests :
       /\ pc[r] \in Charged \cup {"log", "used"} => acct[r] \in Accounts
       /\ pc[r] \in {"body", "log", "used"} => log[r].status # 0
       /\ log[r].written => log[r].status # 0

\* Every variable keeps its type, an account is known as long as the request
\* needs it, and no row of the request log goes without a status.
ProxyTypeOK == StoreTypeOK /\ ReqTypeOK

Holders(a) == {r \in Requests : acct[r] = a /\ pc[r] \in Charged}

\* The counter of an account is the number of handlers between acquire and
\* release plus the number of those that will never release: whatever the
\* router sees too much was leaked by a request that ended as "lost".
ConnAccounting ==
  \A a \in Accounts : conn[a] = Cardinality(Holders(a))

\* What a request has of the ledger of connections.
Stage(r) ==
  IF pc[r] \in {"new", "filter", "score"} THEN "before"
  ELSE IF pc[r] = "lost" THEN "leaked"
  ELSE IF pc[r] \in Charged THEN "open"
  ELSE "after"

Ledger == INSTANCE ConnectionLedger
  WITH count <- conn, stage <- [r \in Requests |-> Stage(r)], account <- acct

\* Whatever fails on its way, a request counts at most one connection and gives
\* back that one, on the same account, at most once; nothing else changes a
\* counter, and no DECR finds a counter at zero.
KeepsLedger == Ledger!LedgerSpec

\* finally writes 200 over a status nobody set.  All the same, a row that says
\* 200 and names no error stands for a request that Anthropic answered with 2xx.
CleanLogMeansOk ==
  \A r \in Requests :
    log[r].written /\ log[r].status = 200 /\ ~log[r].error => reply[r] = "ok"

\* Once a handler has reacted to a usable 429, or to the ban of a request that
\* is not a stream, the account is out of the SELECT of list_available, and the
\* reaction of another handler to another answer does not bring it back.
DetectedLeavesRotation ==
  \A r \in Requests :
    /\ pc[r] \in {"body", "release", "log", "used"}
    /\ reply[r] = "limited" \/ (reply[r] = "banned" /\ Sync(r))
    => status[acct[r]] \in {"rate_limited", "banned"}

\* A request that is not a stream leaks its connection, if at all, before it
\* reaches Anthropic; whatever the answer is, an answered one releases.
SyncLeaksEarly ==
  \A r \in Requests : pc[r] = "lost" /\ Sync(r) => reply[r] = "none"

\* Every answered request that is not a stream is in the request log when it
\* ends, unless its account was deleted meanwhile (its id and the name of its
\* model are taken to fit their columns; see RequestLog).
AnsweredSyncIsLogged ==
  \A r \in Requests :
    /\ pc[r] = "done" /\ Sync(r)
    /\ reply[r] # "none" /\ Exists(acct[r])
    => log[r].written

\* No handler hangs, waiting for others or looping over the accounts.
EveryRequestEnds == \A r \in Requests : <>Over(r)

-----------------------------------------------------------------------------
(* What the README says of 429s and bans ("detected automatically and taken   *)
(* out of rotation until they recover", README.md:11).                        *)

\* A ban is detected, by a stream as well.
BanIsDetected ==
  \A r \in Requests :
    reply[r] = "banned" /\ pc[r] \in {"body", "release", "log", "used"}
    => status[acct[r]] = "banned"

\* When its limit has run out a rate-limited account comes back into rotation.
LimitRecovers ==
  \A a \in Accounts : status[a] = "rate_limited" ~> status[a] = "available"
=============================================================================

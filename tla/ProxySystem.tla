----------------------------- MODULE ProxySystem -----------------------------
(***************************************************************************)
(* The server as a whole: proxied requests and admin calls over the same   *)
(* table, the same Redis and the client pools of several worker processes, *)
(* any of which may die and be started again by uvicorn.                   *)
(***************************************************************************)
EXTENDS ProxyService, AccountService

systemVars == <<storeVars, selVars, reqVars, adminVars>>

\* A worker runs its requests while it is up, and a request that has not begun
\* waits until it is.
Runs(r) == home[r] \in up

\* With the memory of the process go the requests it was running.  What they had
\* written stays.  (A worker without work that dies and comes back only gets the
\* pool of a new boot, which run admin_calls shows.)
ServerDies(w) ==
  LET running == {r \in Requests : home[r] = w /\ pc[r] # "new" /\ ~Over(r)}
      calling == {c \in Calls : host[c] = w /\ cpc[c] # "idle" /\ ~Ended(c)}
  IN
  /\ running # {} \/ calling # {}
  /\ WorkerDies(w)
  /\ pc' = [r \in Requests |->
              IF r \notin running THEN pc[r]
              ELSE IF pc[r] \in Charged THEN "lost" ELSE "done"]
  /\ todo' = [r \in Requests |-> IF r \in running THEN {} ELSE todo[r]]
  /\ cand' = [r \in Requests |-> IF r \in running THEN {} ELSE cand[r]]
  /\ score' = [r \in Requests |-> IF r \in running THEN NoScore ELSE score[r]]
  /\ UNCHANGED <<acct, reqVars>>

ServerBoots(w) == WorkerBoots(w) /\ UNCHANGED <<selVars, reqVars>>

SystemInit ==
  /\ status \in [Accounts -> {"available", "unborn"}]
  /\ conn = [a \in Accounts |-> 0]
  /\ limited = {}
  /\ SelInit
  /\ ReqInit
  /\ CallInit
  /\ pool = [w \in Workers |-> BootPool(proxy)]

SystemQuiescent ==
  /\ \A r \in Requests : Over(r) \/ ~Runs(r)
  /\ AdminIdle
  /\ UNCHANGED systemVars

\* Redis and PostgreSQL answer every call, and no worker dies.
CalmSystemNext ==
  \/ \E r \in Requests : Runs(r) /\ (Step(r) \/ Mishap(r)) /\ UNCHANGED adminVars
  \/ \E c \in Calls : CallStep(c) /\ UNCHANGED <<selVars, reqVars>>
  \/ \E a \in Accounts : Expiry(a) /\ UNCHANGED adminVars
  \/ SystemQuiescent

SystemNext ==
  \/ CalmSystemNext
  \/ \E r \in Requests : Runs(r) /\ Failure(r) /\ UNCHANGED adminVars
  \/ \E c \in Calls : CallRaises(c) /\ UNCHANGED <<selVars, reqVars>>
  \/ \E w \in Workers : ServerDies(w) \/ ServerBoots(w)

CalmSystemSpec == SystemInit /\ [][CalmSystemNext]_systemVars
SystemSpec == SystemInit /\ [][SystemNext]_systemVars

-----------------------------------------------------------------------------
(* Properties, besides ConnAccounting and CleanLogMeansOk of ProxyService,    *)
(* which admin calls and restarts do not disturb.                             *)

\* "Taken out of rotation until they recover" (README.md:11): an account that a
\* request took out comes back through an unban only.
OnlyUnbanRestores ==
  [][\A a \in Accounts :
       status[a] \in {"rate_limited", "banned"} /\ status'[a] = "available"
         => \E c \in Calls : target[c] = a /\ cpc[c] = "setavailable"
    ]_systemVars
=============================================================================

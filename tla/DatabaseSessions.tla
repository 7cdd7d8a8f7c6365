--------------------------- MODULE DatabaseSessions ---------------------------
(***************************************************************************)
(* One worker's connections to PostgreSQL (src/src/core/database.py).  The *)
(* engine opens at most pool_size + max_overflow of them.  get_db gives a  *)
(* request one session, which the authentication and the services share;   *)
(* the session takes a connection with its first statement and keeps it    *)
(* until commit or close.  So a request keeps the connection of its        *)
(* authentication through the upstream call, unless it streams: FastAPI    *)
(* leaves get_db before a StreamingResponse is sent, and the generator     *)
(* goes on with a closed session, which opens again with a statement.      *)
(*                                                                         *)
(* pc[r] names what a request does next:                                   *)
(*   auth               SELECT of the user (API key or JWT)                *)
(*   list               SELECT of the accounts                             *)
(*   exit               stream: the response is returned                   *)
(*   upstream           the call, and the body of a stream                 *)
(*   mark log used      UPDATE of the status, INSERT of the log row,       *)
(*                      UPDATE of last_used_at, each with its commit       *)
(*   read save reread   admin call: SELECT, commit, refresh of the row     *)
(*   close              get_db closes the session; of a stream, the        *)
(*                      garbage collector does                             *)
(*   done                                                                  *)
(***************************************************************************)
EXTENDS Naturals, FiniteSets

CONSTANTS
  Requests,
  Capacity      \* pool_size + max_overflow

ASSUME CapacityAssumption == Capacity \in Nat \ {0}
ASSUME DbRequestsAssumption == IsFiniteSet(Requests)

VARIABLES
  out,          \* sessions that have a connection checked out
  pc, kind,
  reply,        \* what Anthropic answered, "none" so far
  marked,       \* the reaction to a 429 or a ban is in the table
  row           \* the log row: "none", "written", "refused" (account deleted)

dbVars == <<out, pc, kind, reply, marked, row>>

Kinds == {"sync", "stream", "admin", "probe"}
Statements == {"auth", "list", "mark", "log", "used", "read", "save", "reread"}
DbPCs == Statements \cup {"exit", "upstream", "close", "done"}

GoTo(r, l) == pc' = [pc EXCEPT ![r] = l]
Own(r) == {s \in out : s[1] = r}

-----------------------------------------------------------------------------
(* Faulty variants of the operations below.  No specification uses them: each *)
(* is the bug that a property of this module is there to catch.               *)

\* Depends(get_db, use_cache=False): the services get a session of their own.
SessionPerUse(r, l) == <<r, IF l = "auth" THEN "auth" ELSE "service">>

\* get_db is left after the response, not before.
ExitAfterBody(r) ==
  /\ pc[r] = "exit"
  /\ GoTo(r, "upstream")
  /\ UNCHANGED <<out, kind, reply, marked, row>>

\* The connection is given back before the call to Anthropic.
SelectAndCommit(r) ==
  /\ pc[r] = "list"
  /\ <<r, "request">> \in out
  /\ \E l \in {"upstream", "exit", "close"} :
       /\ l = "exit" => kind[r] = "stream"
       /\ l = "upstream" => kind[r] = "sync"
       /\ GoTo(r, l)
  /\ out' = out \ Own(r)
  /\ UNCHANGED <<kind, reply, marked, row>>

\* The pool opens one connection too many.
RoomPlusOne == Cardinality(out) <= Capacity

-----------------------------------------------------------------------------
(* The pool.                                                                  *)

\* FastAPI resolves get_session once per request.
Session(r, l) == <<r, "request">>

HasConn(r) == Session(r, pc[r]) \in out
Waiting(r) == pc[r] \in Statements /\ ~HasConn(r)
Room == Cardinality(out) < Capacity

\* The first statement of a transaction takes a connection, if one is free.
Connect(r) ==
  /\ Waiting(r)
  /\ Room
  /\ out' = out \cup {Session(r, pc[r])}
  /\ UNCHANGED <<pc, kind, reply, marked, row>>

Commit(r) == out' = out \ {Session(r, pc[r])}

\* QueuePool raises TimeoutError after 30 seconds.  What raises in the finally
\* block is swallowed, what raises before ends the request with a 500; a stream
\* that cannot mark its account still tries to log.
Timeout(r) ==
  /\ Waiting(r)
  /\ ~Room
  /\ GoTo(r, IF pc[r] = "mark" THEN "log" ELSE "close")
  /\ UNCHANGED <<out, kind, reply, marked, row>>

-----------------------------------------------------------------------------
(* Proxied requests.                                                          *)

Authenticate(r) ==
  /\ pc[r] = "auth" /\ HasConn(r)
  /\ \/ GoTo(r, IF kind[r] = "admin" THEN "read" ELSE "list")
     \/ GoTo(r, "close")                      \* 401, 403
  /\ UNCHANGED <<out, kind, reply, marked, row>>

\* The job of the scheduler stops after its SELECT: the constructor of
\* ProbeService raises.
SelectAccounts(r) ==
  /\ pc[r] = "list" /\ HasConn(r)
  /\ \/ kind[r] = "sync" /\ GoTo(r, "upstream")
     \/ kind[r] = "stream" /\ GoTo(r, "exit")
     \/ GoTo(r, "close")                      \* no account, no client
  /\ UNCHANGED <<out, kind, reply, marked, row>>

ExitEarly(r) ==
  /\ pc[r] = "exit"
  /\ out' = out \ Own(r)
  /\ GoTo(r, "upstream")
  /\ UNCHANGED <<kind, reply, marked, row>>

\* A ban is looked at when the request does not stream.
Answer(r) ==
  /\ pc[r] = "upstream"
  /\ \E rep \in {"ok", "limited", "banned", "failed"} :
       /\ reply' = [reply EXCEPT ![r] = rep]
       /\ GoTo(r, IF rep = "limited" \/ (rep = "banned" /\ kind[r] = "sync")
                    THEN "mark" ELSE "log")
  /\ UNCHANGED <<out, kind, marked, row>>

Mark(r) ==
  /\ pc[r] = "mark" /\ HasConn(r)
  /\ Commit(r)
  /\ marked' = [marked EXCEPT ![r] = TRUE]
  /\ GoTo(r, "log")
  /\ UNCHANGED <<kind, reply, row>>

\* A refused INSERT leaves the session with its connection, and update_last_used
\* is skipped.
WriteLog(r) ==
  /\ pc[r] = "log" /\ HasConn(r)
  /\ \/ Commit(r) /\ row' = [row EXCEPT ![r] = "written"] /\ GoTo(r, "used")
     \/ row' = [row EXCEPT ![r] = "refused"] /\ GoTo(r, "close") /\ UNCHANGED out
  /\ UNCHANGED <<kind, reply, marked>>

UpdateLastUsed(r) ==
  /\ pc[r] = "used" /\ HasConn(r)
  /\ Commit(r)
  /\ GoTo(r, "close")
  /\ UNCHANGED <<kind, reply, marked, row>>

\* The client of a stream goes away: no await of the generator completes any more.
CancelStream(r) ==
  /\ kind[r] = "stream"
  /\ pc[r] \in {"upstream", "mark", "log", "used"}
  /\ GoTo(r, "close")
  /\ UNCHANGED <<out, kind, reply, marked, row>>

-----------------------------------------------------------------------------
(* Admin calls and pages.                                                     *)

Read(r) ==
  /\ pc[r] = "read" /\ HasConn(r)
  /\ GoTo(r, "save") \/ GoTo(r, "close")      \* a call that only reads, a 404
  /\ UNCHANGED <<out, kind, reply, marked, row>>

Save(r) ==
  /\ pc[r] = "save" /\ HasConn(r)
  /\ Commit(r)
  /\ GoTo(r, "reread") \/ GoTo(r, "close")    \* delete and unban do not read again
  /\ UNCHANGED <<kind, reply, marked, row>>

Reread(r) ==
  /\ pc[r] = "reread" /\ HasConn(r)
  /\ GoTo(r, "close")
  /\ UNCHANGED <<out, kind, reply, marked, row>>

Close(r) ==
  /\ pc[r] = "close"
  /\ out' = out \ Own(r)
  /\ GoTo(r, "done")
  /\ UNCHANGED <<kind, reply, marked, row>>

-----------------------------------------------------------------------------
DbInit ==
  /\ out = {}
  /\ kind \in [Requests -> Kinds]
  /\ pc = [r \in Requests |-> IF kind[r] = "probe" THEN "list" ELSE "auth"]
  /\ reply = [r \in Requests |-> "none"]
  /\ marked = [r \in Requests |-> FALSE]
  /\ row = [r \in Requests |-> "none"]

DbStep(r) ==
  \/ Connect(r) \/ Authenticate(r) \/ SelectAccounts(r) \/ ExitEarly(r)
  \/ Answer(r) \/ Mark(r) \/ WriteLog(r) \/ UpdateLastUsed(r)
  \/ Read(r) \/ Save(r) \/ Reread(r) \/ Close(r)

AllDone == (\A r \in Requests : pc[r] = "done") /\ UNCHANGED dbVars

DbNext ==
  \/ \E r \in Requests : DbStep(r) \/ Timeout(r) \/ CancelStream(r)
  \/ AllDone

DbSafety == DbInit /\ [][DbNext]_dbVars

\* Tasks that are ready run, PostgreSQL and Anthropic answer in the end, and
\* Python collects garbage.  No fairness of Timeout: nobody may depend on it.
DbSpec == DbSafety /\ \A r \in Requests : WF_dbVars(DbStep(r))

-----------------------------------------------------------------------------
(* Properties.                                                                *)

\* Types, and no more connections than the engine allows.
DbTypeOK ==
  /\ out \subseteq Requests \X {"request", "auth", "service"}
  /\ pc \in [Requests -> DbPCs]
  /\ kind \in [Requests -> Kinds]
  /\ reply \in [Requests -> {"none", "ok", "limited", "banned", "failed"}]
  /\ marked \in [Requests -> BOOLEAN]
  /\ row \in [Requests -> {"none", "written", "refused"}]
  /\ Cardinality(out) <= Capacity

\* However long a stream lasts, it takes no connection from anybody meanwhile.
StreamsHoldNothing ==
  \A r \in Requests : kind[r] = "stream" /\ pc[r] = "upstream" => Own(r) = {}

\* What keeping the connection is good for: the first thing a request that does
\* not stream has to write about Anthropic's answer is never lost to a full pool.
\* That is the mark of a 429 or of a ban, and the log row of any other answer
\* (unless the account was deleted).  The commit of the mark gives the connection
\* back, so the log row of a 429 or a ban may still be lost to a timeout.
SyncAnswersSurvive ==
  \A r \in Requests :
    kind[r] = "sync" /\ pc[r] \in {"log", "used", "close", "done"} =>
      /\ reply[r] \in {"limited", "banned"} => marked[r]
      /\ reply[r] \in {"ok", "failed"} /\ pc[r] # "log" => row[r] # "none"

\* Every request ends and leaves no connection behind, even if nobody loses
\* patience.
EveryRequestEndsClean ==
  \A r \in Requests : <>(pc[r] = "done" /\ Own(r) = {})
=============================================================================

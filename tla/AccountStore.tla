----------------------------- MODULE AccountStore -----------------------------
(***************************************************************************)
(* What the services of the proxy share about the Claude accounts:         *)
(*                                                                         *)
(*   status[a]   the row of the PostgreSQL table claude_accounts           *)
(*               (infrastructure/repositories/account_repository.py); every*)
(*               repository method commits, so a method is one transaction *)
(*   conn[a]     conn:<a> in Redis, the open connections                   *)
(*   limited     the accounts with a live rl:<a> key in Redis              *)
(*   pool[w][a]  the httpx client of the account in the memory of worker   *)
(*               process w (infrastructure/http/client_pool.py), known by  *)
(*               the proxy it was built with                               *)
(*                                                                         *)
(* Redis keeps its data here, so its operations are the atomic ones of     *)
(* AccountState, which RedisAccountState implements.                       *)
(***************************************************************************)
EXTENDS Integers, FiniteSets

CONSTANTS
  Accounts,   \* account ids
  Workers,    \* uvicorn worker processes
  Proxies,    \* proxy settings an account can have, none included
  Malformed,  \* those among them that httpx.AsyncClient raises for
  NoClient    \* pool entry of an account without a client

ASSUME NoClientAssumption == NoClient \notin Proxies
ASSUME MalformedAssumption == Malformed \subseteq Proxies

VARIABLES status, conn, limited, pool

storeVars == <<status, conn, limited, pool>>

AccountStatus == {"available", "rate_limited", "banned", "disabled"}

\* A row that is not in the table was not inserted yet or was deleted.
RowStates == AccountStatus \cup {"unborn", "deleted"}

StoreTypeOK ==
  /\ status \in [Accounts -> RowStates]
  /\ conn \in [Accounts -> Nat]
  /\ limited \subseteq Accounts
  /\ pool \in [Workers -> [Accounts -> Proxies \cup {NoClient}]]

Exists(a) == status[a] \in AccountStatus

\* SELECT ... WHERE status = 'available'.
ListAvailable == {a \in Accounts : status[a] = "available"}

\* UPDATE ... WHERE id = a: nothing happens if there is no such row.
UpdateStatus(a, s) ==
  status' = [status EXCEPT ![a] = IF Exists(a) THEN s ELSE @]

IncrConn(a) == conn' = [conn EXCEPT ![a] = @ + 1]
DecrConn(a) == conn' = [conn EXCEPT ![a] = IF @ > 0 THEN @ - 1 ELSE 0]

\* The rl: key of an account reaches the end of its TTL.
LimitExpires(a) ==
  /\ a \in limited
  /\ limited' = limited \ {a}
  /\ UNCHANGED <<status, conn, pool>>

\* lifespan(): at boot a worker builds a client for every account that is not
\* disabled.  If httpx refuses the proxy of one of them, the boot has failed.
\* (Nothing is restored into Redis: every writer of the table stores
\* rate_limit_until = None.)
Enabled(a) == Exists(a) /\ status[a] # "disabled"

Bootable(proxy) == \A a \in Accounts : Enabled(a) => proxy[a] \notin Malformed

BootPool(proxy) ==
  [a \in Accounts |-> IF Enabled(a) THEN proxy[a] ELSE NoClient]

\* The memory of a process that is gone.
NoPool == [a \in Accounts |-> NoClient]
=============================================================================

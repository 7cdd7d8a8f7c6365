--------------------------- MODULE LeastConnections ---------------------------
(***************************************************************************)
(* How a request chooses its account: list_available, then                 *)
(* LeastConnectionsStrategy.select, then acquire                           *)
(* (src/src/application/services/proxy_service.py:70-75 and                *)
(* src/src/application/routing/least_connections.py).  Every is_rate_limited*)
(* and every get_connections is a round trip to Redis of its own, so the   *)
(* table, the limits and the counters may all have changed by the time the *)
(* request increments the counter of the account it settled on.            *)
(*                                                                         *)
(* The loops go through the rows in the order the SELECT returned them.  It *)
(* has no ORDER BY, so that is any order; sort() keeps it among equals.     *)
(***************************************************************************)
EXTENDS AccountStore

CONSTANTS
  Requests,    \* request handlers
  NoAccount,   \* no account chosen
  Priority     \* the priority column

ASSUME RequestsAssumption == IsFiniteSet(Requests)
ASSUME NoAccountAssumption == NoAccount \notin Accounts
ASSUME PriorityAssumption == Priority \in [Accounts -> Int]

VARIABLES
  pc,      \* where in its handler a request is
  acct,    \* the account it acquired
  todo,    \* rows the current loop has still to go through
  cand,    \* the list "available" of select
  score    \* the connection counts it read

selVars == <<pc, acct, todo, cand, score>>

NoScore == [a \in Accounts |-> 0]

SelInit ==
  /\ pc = [r \in Requests |-> "new"]
  /\ acct = [r \in Requests |-> NoAccount]
  /\ todo = [r \in Requests |-> {}]
  /\ cand = [r \in Requests |-> {}]
  /\ score = [r \in Requests |-> NoScore]

SelTypeOK ==
  /\ acct \in [Requests -> Accounts \cup {NoAccount}]
  /\ todo \in [Requests -> SUBSET Accounts]
  /\ cand \in [Requests -> SUBSET Accounts]
  /\ score \in [Requests -> [Accounts -> Int]]

GoTo(r, label) == pc' = [pc EXCEPT ![r] = label]

List(r) ==
  /\ pc[r] = "new"
  /\ GoTo(r, "filter")
  /\ todo' = [todo EXCEPT ![r] = ListAvailable]
  /\ UNCHANGED <<storeVars, acct, cand, score>>

\* One await state.is_rate_limited(account.id).
Filter(r) ==
  /\ pc[r] = "filter"
  /\ \E a \in todo[r] :
       /\ todo' = [todo EXCEPT ![r] = @ \ {a}]
       /\ cand' = [cand EXCEPT ![r] = IF a \in limited THEN @ ELSE @ \cup {a}]
  /\ UNCHANGED <<storeVars, pc, acct, score>>

\* Faulty variant of Filtered: with nothing left, look again instead of giving up.
FilteredRetries(r) ==
  /\ pc[r] = "filter"
  /\ todo[r] = {}
  /\ todo' = [todo EXCEPT ![r] = cand[r]]
  /\ GoTo(r, IF cand[r] = {} THEN "new" ELSE "score")
  /\ UNCHANGED <<storeVars, acct, cand, score>>

\* The end of the first loop; with nothing left the request is answered 503.
Filtered(r) ==
  /\ pc[r] = "filter"
  /\ todo[r] = {}
  /\ todo' = [todo EXCEPT ![r] = cand[r]]
  /\ GoTo(r, IF cand[r] = {} THEN "done" ELSE "score")
  /\ UNCHANGED <<storeVars, acct, cand, score>>

\* One await state.get_connections(account.id).
Score(r) ==
  /\ pc[r] = "score"
  /\ \E a \in todo[r] :
       /\ todo' = [todo EXCEPT ![r] = @ \ {a}]
       /\ score' = [score EXCEPT ![r][a] = conn[a]]
  /\ UNCHANGED <<storeVars, pc, acct, cand>>

\* Faulty variant of Best: most connections first.
BestReversed(r) ==
  {a \in cand[r] : \A b \in cand[r] : score[r][a] >= score[r][b]}

\* What scored.sort() may put first: fewest connections, then highest priority.
Best(r) ==
  {a \in cand[r] : \A b \in cand[r] :
     \/ score[r][a] < score[r][b]
     \/ score[r][a] = score[r][b] /\ Priority[a] >= Priority[b]}

\* select returns without another await; the next thing to happen anywhere is
\* the INCR of acquire.
Acquire(r) ==
  /\ pc[r] = "score"
  /\ todo[r] = {}
  /\ \E a \in Best(r) :
       /\ acct' = [acct EXCEPT ![r] = a]
       /\ IncrConn(a)
  /\ cand' = [cand EXCEPT ![r] = {}]
  /\ score' = [score EXCEPT ![r] = NoScore]
  /\ GoTo(r, "prepare")
  /\ UNCHANGED <<status, limited, pool, todo>>

Select(r) == List(r) \/ Filter(r) \/ Filtered(r) \/ Score(r) \/ Acquire(r)

-----------------------------------------------------------------------------
(* A burst: requests keep coming and none of the answers has finished yet.   *)

CONSTANT MaxOpen   \* bound on the connections of an account in a burst

\* A handler whose request is streaming is free to run the next one.
NextRequest(r) ==
  /\ pc[r] = "prepare"
  /\ \A a \in Accounts : conn[a] < MaxOpen
  /\ GoTo(r, "new")
  /\ acct' = [acct EXCEPT ![r] = NoAccount]
  /\ UNCHANGED <<storeVars, todo, cand, score>>

BurstFull ==
  /\ \E a \in Accounts : conn[a] >= MaxOpen
  /\ \A r \in Requests : pc[r] \in {"prepare", "done"}
  /\ UNCHANGED <<storeVars, selVars>>

BurstInit ==
  /\ status = [a \in Accounts |-> "available"]
  /\ conn = [a \in Accounts |-> 0]
  /\ limited = {}
  /\ pool \in [Workers -> [Accounts -> Proxies]]
  /\ SelInit

BurstNext ==
  \/ \E r \in Requests : Select(r) \/ NextRequest(r)
  \/ BurstFull

BurstSpec == BurstInit /\ [][BurstNext]_<<storeVars, selVars>>

\* Requests that choose at the same time read counters the others are about to
\* change and may all settle on one account.  That costs at most one
\* connection per request that is choosing: the counters of two accounts never
\* drift further apart than there are handlers.
Balanced ==
  \A a, b \in Accounts : conn[a] - conn[b] <= Cardinality(Requests)
=============================================================================

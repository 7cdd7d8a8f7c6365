----------------------------- MODULE AccountState -----------------------------
(***************************************************************************)
(* What an account state manager promises to the rest of the proxy         *)
(* (src/src/domain/interfaces/account_state_manager.py), as the in-memory  *)
(* AccountStateManager keeps it: a counter of open connections and a       *)
(* rate-limit deadline per account, every operation one atomic step        *)
(* because each method holds the asyncio.Lock from beginning to end.       *)
(*                                                                         *)
(* A key missing from the defaultdict counts 0; a key missing from         *)
(* _rate_limit_until is written NoLimit.  Time is counted in ticks.        *)
(***************************************************************************)
EXTENDS Integers

CONSTANTS
  Accounts,       \* account ids
  NoLimit,        \* "no deadline recorded"
  RetryAfters,    \* the retry_after values, in ticks, that a 429 may carry
  Deadlines,      \* the deadlines restore_rate_limit may be called with
  RestoreSlack    \* how many ticks early a restored limit may end (0 in memory)

VARIABLES
  connections,    \* _connections
  until,          \* _rate_limit_until
  now             \* datetime.now(UTC)

stateVars == <<connections, until, now>>

Init ==
  /\ connections = [a \in Accounts |-> 0]
  /\ until = [a \in Accounts |-> NoLimit]
  /\ now = 0

Acquire(a) ==
  /\ connections' = [connections EXCEPT ![a] = @ + 1]
  /\ UNCHANGED <<until, now>>

\* max(0, n - 1): the counter never goes below zero.
Release(a) ==
  /\ connections' = [connections EXCEPT ![a] = IF @ > 0 THEN @ - 1 ELSE 0]
  /\ UNCHANGED <<until, now>>

MarkRateLimited(a) ==
  /\ \E ra \in RetryAfters : until' = [until EXCEPT ![a] = now + ra]
  /\ UNCHANGED <<connections, now>>

\* A deadline that has already passed is ignored.
RestoreRateLimit(a) ==
  /\ \E d \in Deadlines : \E t \in (d - RestoreSlack)..d :
       until' = IF t > now THEN [until EXCEPT ![a] = t] ELSE until
  /\ UNCHANGED <<connections, now>>

\* is_rate_limited drops an entry whose deadline has passed.
ForgetExpired(a) ==
  /\ until[a] # NoLimit
  /\ now >= until[a]
  /\ until' = [until EXCEPT ![a] = NoLimit]
  /\ UNCHANGED <<connections, now>>

ClearRateLimit(a) ==
  /\ until' = [until EXCEPT ![a] = NoLimit]
  /\ UNCHANGED <<connections, now>>

Tick ==
  /\ now' = now + 1
  /\ UNCHANGED <<connections, until>>

Next ==
  \/ Tick
  \/ \E a \in Accounts :
       \/ Acquire(a) \/ Release(a)
       \/ MarkRateLimited(a) \/ RestoreRateLimit(a)
       \/ ForgetExpired(a) \/ ClearRateLimit(a)

Spec == Init /\ [][Next]_stateVars

\* What is_rate_limited returns.
IsRateLimited(a) == until[a] # NoLimit /\ now < until[a]
=============================================================================

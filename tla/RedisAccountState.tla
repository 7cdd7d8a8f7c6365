-------------------------- MODULE RedisAccountState --------------------------
(***************************************************************************)
(* RedisAccountStateManager, the state manager production runs with        *)
(* (src/src/infrastructure/state/redis_account_state_manager.py): every    *)
(* worker process of the proxy talks to one Redis server, which executes   *)
(* each command atomically.  A caller is one request handler: it acquires  *)
(* a connection of an account, holds it while it talks upstream, and       *)
(* releases it once.  release() is two commands, DECR and, if the value    *)
(* came out negative, SET 0; other callers' commands run in between.       *)
(*                                                                         *)
(* conn[a] is the integer under conn:<a>, a missing key counting 0.        *)
(* expiry[a] is the instant at which the key rl:<a> expires, NoKey if      *)
(* there is no such key.  Time is counted in ticks, TicksPerSecond to the  *)
(* second, because Redis takes TTLs in whole seconds and datetime does not.*)
(***************************************************************************)
EXTENDS Integers, FiniteSets

CONSTANTS
  Accounts,         \* account ids
  Callers,          \* request handlers, over all workers
  NoAccount,        \* what an idle caller holds
  NoKey,            \* no rl: key
  RetryAfters,      \* retry-after values, in seconds, an upstream 429 carries
  Deadlines,        \* the rate_limit_until values, in ticks, found at a boot
  TicksPerSecond,
  MaxTime           \* bound on the clock

ASSUME TicksAssumption == TicksPerSecond \in Nat \ {0}
ASSUME RetryAssumption == RetryAfters \subseteq Int
ASSUME TimeAssumption == MaxTime \in Nat /\ Deadlines \subseteq Nat
ASSUME CallersAssumption == IsFiniteSet(Callers)
ASSUME NoAccountAssumption == NoAccount \notin Accounts
ASSUME NoKeyAssumption == NoKey \notin Int

VARIABLES
  conn, expiry, now, pc, acct,
  wiped             \* history: Redis has lost its data at least once

redisVars == <<conn, expiry, now, pc, acct, wiped>>

-----------------------------------------------------------------------------
(* Faulty variants of the operations below.  No specification uses them: each *)
(* is the bug that a property of this module is there to catch.               *)

\* acquire counts the connection under the key of no account.
AcquireForgetsAccount(c, a) ==
  /\ pc[c] = "idle"
  /\ conn' = [conn EXCEPT ![a] = @ + 1]
  /\ pc' = [pc EXCEPT ![c] = "held"]
  /\ UNCHANGED <<expiry, now, acct, wiped>>

\* "if val <= 0": also the last honest release resets the counter.
ReleaseDecrClampsZero(c) ==
  /\ pc[c] = "held"
  /\ conn' = [conn EXCEPT ![acct[c]] = @ - 1]
  /\ IF conn[acct[c]] - 1 <= 0
       THEN /\ pc' = [pc EXCEPT ![c] = "clamp"]
            /\ UNCHANGED acct
       ELSE /\ pc' = [pc EXCEPT ![c] = "idle"]
            /\ acct' = [acct EXCEPT ![c] = NoAccount]
  /\ UNCHANGED <<expiry, now, wiped>>

\* release without the second command.
ReleaseDecrOnly(c) ==
  /\ pc[c] = "held"
  /\ conn' = [conn EXCEPT ![acct[c]] = @ - 1]
  /\ pc' = [pc EXCEPT ![c] = "idle"]
  /\ acct' = [acct EXCEPT ![c] = NoAccount]
  /\ UNCHANGED <<expiry, now, wiped>>

\* The clamp undoes the decrement instead of storing 0.
ReleaseClampIncr(c) ==
  /\ pc[c] = "clamp"
  /\ conn' = [conn EXCEPT ![acct[c]] = @ + 1]
  /\ pc' = [pc EXCEPT ![c] = "idle"]
  /\ acct' = [acct EXCEPT ![c] = NoAccount]
  /\ UNCHANGED <<expiry, now, wiped>>

\* The remaining seconds are rounded up: the limit outlives its deadline.
RestoreRoundsUp(a) ==
  /\ \E until \in Deadlines :
       LET ttl == (until - now + TicksPerSecond - 1) \div TicksPerSecond
       IN  expiry' = IF until > now
                       THEN [expiry EXCEPT ![a] = now + ttl * TicksPerSecond]
                       ELSE expiry
  /\ UNCHANGED <<conn, now, pc, acct, wiped>>

-----------------------------------------------------------------------------
Init ==
  /\ conn = [a \in Accounts |-> 0]
  /\ expiry = [a \in Accounts |-> NoKey]
  /\ now = 0
  /\ pc = [c \in Callers |-> "idle"]
  /\ acct = [c \in Callers |-> NoAccount]
  /\ wiped = FALSE

Acquire(c, a) ==
  /\ pc[c] = "idle"
  /\ conn' = [conn EXCEPT ![a] = @ + 1]
  /\ pc' = [pc EXCEPT ![c] = "held"]
  /\ acct' = [acct EXCEPT ![c] = a]
  /\ UNCHANGED <<expiry, now, wiped>>

\* The first command of release; DECR answers the new value.
ReleaseDecr(c) ==
  /\ pc[c] = "held"
  /\ conn' = [conn EXCEPT ![acct[c]] = @ - 1]
  /\ IF conn[acct[c]] - 1 < 0
       THEN /\ pc' = [pc EXCEPT ![c] = "clamp"]
            /\ UNCHANGED acct
       ELSE /\ pc' = [pc EXCEPT ![c] = "idle"]
            /\ acct' = [acct EXCEPT ![c] = NoAccount]
  /\ UNCHANGED <<expiry, now, wiped>>

\* The second command: whatever the counter has become meanwhile, it is 0 now.
ReleaseClamp(c) ==
  /\ pc[c] = "clamp"
  /\ conn' = [conn EXCEPT ![acct[c]] = 0]
  /\ pc' = [pc EXCEPT ![c] = "idle"]
  /\ acct' = [acct EXCEPT ![c] = NoAccount]
  /\ UNCHANGED <<expiry, now, wiped>>

\* SET ... EX retry_after.  Redis refuses an expire time below one second.
MarkRateLimited(a) ==
  /\ \E ra \in RetryAfters :
       expiry' = IF ra >= 1
                   THEN [expiry EXCEPT ![a] = now + ra * TicksPerSecond]
                   ELSE expiry
  /\ UNCHANGED <<conn, now, pc, acct, wiped>>

\* int() drops the fraction of the last second; a TTL of 0 is refused.
RestoreRateLimit(a) ==
  /\ \E until \in Deadlines :
       LET ttl == (until - now) \div TicksPerSecond
       IN  expiry' = IF until > now /\ ttl >= 1
                       THEN [expiry EXCEPT ![a] = now + ttl * TicksPerSecond]
                       ELSE expiry
  /\ UNCHANGED <<conn, now, pc, acct, wiped>>

ClearRateLimit(a) ==
  /\ expiry' = [expiry EXCEPT ![a] = NoKey]
  /\ UNCHANGED <<conn, now, pc, acct, wiped>>

\* Redis drops a key whose TTL has run out.
Expire(a) ==
  /\ expiry[a] # NoKey
  /\ now >= expiry[a]
  /\ expiry' = [expiry EXCEPT ![a] = NoKey]
  /\ UNCHANGED <<conn, now, pc, acct, wiped>>

\* The redis service of docker-compose.yml has no volume: a new container is
\* an empty server, and the handlers that were talking to the old one go on.
Restart ==
  /\ conn' = [a \in Accounts |-> 0]
  /\ expiry' = [a \in Accounts |-> NoKey]
  /\ wiped' = TRUE
  /\ UNCHANGED <<now, pc, acct>>

Tick ==
  /\ now < MaxTime
  /\ now' = now + 1
  /\ UNCHANGED <<conn, expiry, pc, acct, wiped>>

Next ==
  \/ Tick
  \/ Restart
  \/ \E c \in Callers :
       \/ \E a \in Accounts : Acquire(c, a)
       \/ ReleaseDecr(c)
       \/ ReleaseClamp(c)
  \/ \E a \in Accounts :
       \/ MarkRateLimited(a) \/ RestoreRateLimit(a)
       \/ ClearRateLimit(a) \/ Expire(a)

Spec == Init /\ [][Next]_redisVars

\* EXISTS rl:<a>.  An expired key does not exist, dropped or not.
IsRateLimited(a) == expiry[a] # NoKey /\ now < expiry[a]

-----------------------------------------------------------------------------
Holders(a) == {c \in Callers : pc[c] = "held" /\ acct[c] = a}
Clampers(a) == {c \in Callers : pc[c] = "clamp" /\ acct[c] = a}

\* Every variable keeps its type; a caller that is not idle names an account.
TypeOK ==
  /\ conn \in [Accounts -> Int]
  /\ expiry \in [Accounts -> Int \cup {NoKey}]
  /\ now \in Nat
  /\ pc \in [Callers -> {"idle", "held", "clamp"}]
  /\ acct \in [Callers -> Accounts \cup {NoAccount}]
  /\ wiped \in BOOLEAN
  /\ \A c \in Callers : pc[c] # "idle" => acct[c] \in Accounts

\* While Redis keeps its data, the counter the router compares is exactly the
\* number of handlers that hold a connection of the account.
ExactCount == wiped \/ \A a \in Accounts : conn[a] = Cardinality(Holders(a))

\* Whatever is lost, an account never looks busier than it is: a handler that
\* comes to release can only find the counter too low.
NeverOvercounts == \A a \in Accounts : conn[a] <= Cardinality(Holders(a))

\* A negative counter is always about to be put right: some handler stands
\* between the DECR and the SET of release.
NegativeIsTransient ==
  \A a \in Accounts : conn[a] < 0 => Clampers(a) # {}

\* The counter heals: once nobody holds or releases a connection of an
\* account its counter is 0 again, whatever Redis lost before.
IdleMeansZero ==
  \A a \in Accounts : Holders(a) = {} /\ Clampers(a) = {} => conn[a] = 0

\* As long as Redis keeps its data, every command has the effect of one operation
\* of the in-memory manager, except that a restored limit may end a fraction of a
\* second early.
Abstract == INSTANCE AccountState WITH
  connections <- conn,
  until <- expiry,
  NoLimit <- NoKey,
  RetryAfters <- {ra * TicksPerSecond : ra \in {s \in RetryAfters : s >= 1}},
  RestoreSlack <- TicksPerSecond - 1

ImplementsAccountState ==
  Abstract!Init /\ [][wiped' \/ Abstract!Next]_(Abstract!stateVars)
=============================================================================

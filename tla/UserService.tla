------------------------------ MODULE UserService ------------------------------
(***************************************************************************)
(* Users and their API keys: the admin calls that change them, and the     *)
(* first admin a worker creates when it boots                              *)
(* (src/src/application/services/user_service.py over                      *)
(* infrastructure/repositories/user_repository.py).                        *)
(*                                                                         *)
(* update_user and rotate_api_key read the row (get_by_id), change a copy, *)
(* read the row again (SqlUserRepository.update: the session keeps no      *)
(* strong reference to the first object), and at commit SQLAlchemy writes  *)
(* the columns in which copy and second read differ.  PostgreSQL runs the  *)
(* calls of all workers at READ COMMITTED, so others commit in between.    *)
(*                                                                         *)
(* Three columns are followed: the two that make up an API key, and        *)
(* is_active, for which email, password and role would do as well.  A hash *)
(* is named by the key it was made of.  No call deletes a user.            *)
(***************************************************************************)
EXTENDS FiniteSets

CONSTANTS
  Users,       \* user ids
  Keys,        \* what generate_api_key may return
  NoKey,       \* no key
  Prefix,      \* Prefix[k]: the first twelve characters of key k
  Calls,       \* admin requests; each runs once
  NoUser,      \* no user
  Keep,        \* is_active is absent from an update request
  Workers      \* uvicorn worker processes

ASSUME NoKeyAssumption == NoKey \notin Keys
ASSUME NoUserAssumption == NoUser \notin Users
ASSUME KeepAssumption == Keep \notin BOOLEAN

\* Behind "ccp_" a prefix has eight random characters, 48 bits: two keys with
\* one prefix are not followed.
ASSUME PrefixAssumption ==
  /\ DOMAIN Prefix = Keys
  /\ \A k, l \in Keys : Prefix[k] = Prefix[l] => k = l

VARIABLES
  hash,      \* column api_key_hash; NoKey as long as there is no row
  prefix,    \* column api_key_prefix
  active,    \* column is_active
  first,     \* users whose username is FIRST_ADMIN_USERNAME
  issued,    \* keys that were generated
  cpc,       \* where a call is
  target,    \* its user
  want,      \* is_active of an update request
  copy,      \* the User object of the call
  loaded,    \* the row its session loaded to flush against
  boot       \* where a worker is in ensure_admin_exists

rowVars == <<hash, prefix, active, first>>
callVars == <<cpc, target, want, copy, loaded>>
userVars == <<rowVars, issued, callVars, boot>>

Prefixes == {Prefix[k] : k \in Keys}
Rows == [hash : Keys, prefix : Prefixes, active : BOOLEAN]

Exists(u) == hash[u] # NoKey
Row(u) == [hash |-> hash[u], prefix |-> prefix[u], active |-> active[u]]

\* get_by_api_key: one user by prefix, then the hash, then is_active.
KeyOpens(k) ==
  {u \in Users : Exists(u) /\ prefix[u] = Prefix[k] /\ hash[u] = k /\ active[u]}

\* A call that has changed its copy and is going to save it.
Saving(c) == cpc[c] \in {"reload", "flush"}

GoTo(c, label) == cpc' = [cpc EXCEPT ![c] = label]

\* secrets.token_urlsafe does not repeat itself.
Generate(k) == k \in Keys \ issued /\ issued' = issued \cup {k}

\* The INSERT of SqlUserRepository.create.
Insert(u, k) ==
  /\ hash' = [hash EXCEPT ![u] = k]
  /\ prefix' = [prefix EXCEPT ![u] = Prefix[k]]
  /\ active' = [active EXCEPT ![u] = TRUE]

\* A request reaches a worker that serves, and get_current_admin finds its admin.
Begin(c, u) ==
  /\ cpc[c] = "idle"
  /\ \E w \in Workers : boot[w] = "up"
  /\ target' = [target EXCEPT ![c] = u]

-----------------------------------------------------------------------------
(* Faulty variants of the operations below.  No specification uses them: each *)
(* is the bug that a property of this module is there to catch.               *)

\* rotate_api_key leaves the prefix of the old key.
RotateGetForgetsPrefix(c, u) ==
  /\ Begin(c, u)
  /\ Exists(u)
  /\ \E k \in Keys :
       /\ Generate(k)
       /\ copy' = [copy EXCEPT ![c] = [Row(u) EXCEPT !.hash = k]]
  /\ GoTo(c, "reload")
  /\ UNCHANGED <<rowVars, want, loaded, boot>>

\* update_user assigns is_active without asking whether the request has one.
UpdateGetUnasked(c, u) ==
  /\ Begin(c, u)
  /\ Exists(u)
  /\ \E w \in BOOLEAN \cup {Keep} :
       /\ want' = [want EXCEPT ![c] = w]
       /\ copy' = [copy EXCEPT ![c] = [Row(u) EXCEPT !.active = w]]
  /\ GoTo(c, "reload")
  /\ UNCHANGED <<rowVars, issued, loaded, boot>>

\* ensure_admin_exists does not look at the count.
EnsureCountIgnored(w) ==
  /\ boot[w] = "count"
  /\ boot' = [boot EXCEPT ![w] = "insert"]
  /\ UNCHANGED <<rowVars, issued, callVars>>

\* The username column is not unique.
EnsureInsertTwice(w) ==
  /\ boot[w] = "insert"
  /\ \E u \in Users, k \in Keys :
       /\ ~Exists(u)
       /\ Generate(k)
       /\ Insert(u, k)
       /\ first' = first \cup {u}
  /\ boot' = [boot EXCEPT ![w] = "up"]
  /\ UNCHANGED callVars

-----------------------------------------------------------------------------
(* The admin calls.                                                           *)

\* Usernames of the form other than FIRST_ADMIN_USERNAME.
CreateUser(c, u) ==
  /\ Begin(c, u)
  /\ ~Exists(u)
  /\ \E k \in Keys : Generate(k) /\ Insert(u, k)
  /\ GoTo(c, "finished")
  /\ UNCHANGED <<first, want, copy, loaded, boot>>

UpdateGet(c, u) ==
  /\ Begin(c, u)
  /\ Exists(u)
  /\ \E w \in BOOLEAN \cup {Keep} :
       /\ want' = [want EXCEPT ![c] = w]
       /\ copy' = [copy EXCEPT ![c] =
                     [Row(u) EXCEPT !.active = IF w = Keep THEN @ ELSE w]]
  /\ GoTo(c, "reload")
  /\ UNCHANGED <<rowVars, issued, loaded, boot>>

RotateGet(c, u) ==
  /\ Begin(c, u)
  /\ Exists(u)
  /\ \E k \in Keys :
       /\ Generate(k)
       /\ copy' = [copy EXCEPT ![c] =
                     [hash |-> k, prefix |-> Prefix[k], active |-> active[u]]]
  /\ GoTo(c, "reload")
  /\ UNCHANGED <<rowVars, want, loaded, boot>>

\* session.get in SqlUserRepository.update.
Reload(c) ==
  /\ cpc[c] = "reload"
  /\ loaded' = [loaded EXCEPT ![c] = Row(target[c])]
  /\ GoTo(c, "flush")
  /\ UNCHANGED <<rowVars, issued, target, want, copy, boot>>

\* What commit leaves in a column.
Flushed(wanted, old, current) == IF wanted # old THEN wanted ELSE current

\* The commit, and a last read of the row for the answer.
Flush(c) ==
  LET u == target[c] IN
  /\ cpc[c] = "flush"
  /\ hash' = [hash EXCEPT ![u] = Flushed(copy[c].hash, loaded[c].hash, @)]
  /\ prefix' = [prefix EXCEPT ![u] = Flushed(copy[c].prefix, loaded[c].prefix, @)]
  /\ active' = [active EXCEPT ![u] = Flushed(copy[c].active, loaded[c].active, @)]
  /\ GoTo(c, "finished")
  /\ UNCHANGED <<first, issued, target, want, copy, loaded, boot>>

\* A read or the commit raises and is rolled back, or the worker dies.
CallFails(c) ==
  /\ Saving(c)
  /\ GoTo(c, "finished")
  /\ UNCHANGED <<rowVars, issued, target, want, copy, loaded, boot>>

CallStep(c) ==
  \/ \E u \in Users : CreateUser(c, u) \/ UpdateGet(c, u) \/ RotateGet(c, u)
  \/ Reload(c) \/ Flush(c) \/ CallFails(c)

-----------------------------------------------------------------------------
(* ensure_admin_exists, the last thing lifespan does before a worker serves.  *)

EnsureCount(w) ==
  /\ boot[w] = "count"
  /\ boot' = [boot EXCEPT ![w] =
                IF \E u \in Users : Exists(u) THEN "up" ELSE "insert"]
  /\ UNCHANGED <<rowVars, issued, callVars>>

\* The username is UNIQUE: if it is there the INSERT raises, lifespan fails and
\* the worker exits.  The new key is dropped.
EnsureInsert(w) ==
  /\ boot[w] = "insert"
  /\ \/ /\ first = {}
        /\ \E u \in Users, k \in Keys :
             /\ ~Exists(u)
             /\ Generate(k)
             /\ Insert(u, k)
             /\ first' = {u}
        /\ boot' = [boot EXCEPT ![w] = "up"]
     \/ /\ first # {}
        /\ boot' = [boot EXCEPT ![w] = "exited"]
        /\ UNCHANGED <<rowVars, issued>>
  /\ UNCHANGED callVars

\* The supervisor of uvicorn starts a worker again that exited or died.
WorkerRestarts(w) ==
  /\ boot[w] \in {"exited", "dead"}
  /\ boot' = [boot EXCEPT ![w] = "count"]
  /\ UNCHANGED <<rowVars, issued, callVars>>

BootStep(w) == EnsureCount(w) \/ EnsureInsert(w) \/ WorkerRestarts(w)

\* A worker may die at any time.
WorkerDies(w) ==
  /\ boot[w] \notin {"exited", "dead"}
  /\ boot' = [boot EXCEPT ![w] = "dead"]
  /\ UNCHANGED <<rowVars, issued, callVars>>

-----------------------------------------------------------------------------
AllServed ==
  /\ \A w \in Workers : boot[w] = "up"
  /\ \A c \in Calls : cpc[c] = "finished"
  /\ UNCHANGED userVars

\* The table is empty on the first boot of all.
UserInit ==
  /\ hash = [u \in Users |-> NoKey]
  /\ prefix = [u \in Users |-> NoKey]
  /\ active = [u \in Users |-> FALSE]
  /\ first = {}
  /\ issued = {}
  /\ cpc = [c \in Calls |-> "idle"]
  /\ target = [c \in Calls |-> NoUser]
  /\ want = [c \in Calls |-> Keep]
  /\ copy = [c \in Calls |-> NoUser]
  /\ loaded = [c \in Calls |-> NoUser]
  /\ boot = [w \in Workers |-> "count"]

UserNext ==
  \/ \E c \in Calls : CallStep(c)
  \/ \E w \in Workers : BootStep(w) \/ WorkerDies(w)
  \/ AllServed

\* A worker that boots gets its turn, and the supervisor restarts the dead.
UserFairness == \A w \in Workers : WF_userVars(BootStep(w))

UserSafety == UserInit /\ [][UserNext]_userVars
UserSpec == UserSafety /\ UserFairness

-----------------------------------------------------------------------------
(* Properties.                                                               *)

\* Every variable keeps its type; a row has both halves of a key or neither,
\* and what a call is going to write is a whole row.
UserTypeOK ==
  /\ hash \in [Users -> Keys \cup {NoKey}]
  /\ prefix \in [Users -> Prefixes \cup {NoKey}]
  /\ active \in [Users -> BOOLEAN]
  /\ \A u \in Users : Exists(u) => Row(u) \in Rows /\ hash[u] \in issued
  /\ first \subseteq {u \in Users : Exists(u)}
  /\ issued \subseteq Keys
  /\ cpc \in [Calls -> {"idle", "reload", "flush", "finished"}]
  /\ target \in [Calls -> Users \cup {NoUser}]
  /\ want \in [Calls -> BOOLEAN \cup {Keep}]
  /\ copy \in [Calls -> Rows \cup {NoUser}]
  /\ loaded \in [Calls -> Rows \cup {NoUser}]
  /\ \A c \in Calls :
       /\ Saving(c) => /\ target[c] \in Users /\ Exists(target[c])
                        /\ copy[c] \in Rows /\ copy[c].hash \in issued
       /\ cpc[c] = "flush" => loaded[c] \in Rows
  /\ boot \in [Workers -> {"count", "insert", "up", "exited", "dead"}]

\* However updates and rotations overlap and overwrite each other's columns, the
\* key an active user has is found by its prefix, verified by its hash, and
\* lets in that user and nobody else (get_by_api_key).
EveryKeyWorks ==
  \A u \in Users : Exists(u) /\ active[u] => KeyOpens(hash[u]) = {u}

\* Four workers count an empty table at the same time, and all of them go on to
\* create the first admin: a row comes from a boot only while the table is empty.
FirstAdminOnly ==
  [][\A w \in Workers :
       boot[w] = "insert" /\ boot'[w] = "up" => \A u \in Users : ~Exists(u)]_userVars

\* The boot that lost that race is repeated and gets through: unless it keeps
\* dying, every worker has come up at some time.
BootsEnd ==
  \A w \in Workers : <>[](boot[w] # "dead") => <>(boot[w] = "up")

=============================================================================

--------------------------- MODULE UserServiceProofs ---------------------------
(***************************************************************************)
(* What UserService guarantees for any number of users, workers and        *)
(* overlapping admin calls: types, that every key works for its user only, *)
(* and that one first admin is created.                                    *)
(***************************************************************************)
EXTENDS UserService, TLAPS

LEMMA RowOfTable ==
  ASSUME UserTypeOK, NEW u \in Users, Exists(u)
  PROVE  /\ hash[u] \in Keys /\ prefix[u] \in Prefixes /\ active[u] \in BOOLEAN
         /\ Row(u) \in Rows
BY DEF UserTypeOK, Rows, Row

LEMMA CallType ==
  ASSUME UserTypeOK, NEW c \in Calls, CallStep(c)
  PROVE  UserTypeOK'
<1> USE NoKeyAssumption, NoUserAssumption DEF Exists, Saving, GoTo, callVars, rowVars
<1>1. ASSUME NEW u \in Users, CreateUser(c, u) PROVE UserTypeOK'
  <2>1. PICK k \in Keys : Generate(k) /\ Insert(u, k)
    BY <1>1 DEF CreateUser
  <2>2. /\ hash' \in [Users -> Keys \cup {NoKey}] /\ prefix' \in [Users -> Prefixes \cup {NoKey}]
        /\ active' \in [Users -> BOOLEAN] /\ issued' \subseteq Keys
        /\ issued \subseteq issued' /\ k \in issued'
    BY <2>1 DEF UserTypeOK, Generate, Insert, Prefixes
  <2>3. \A v \in Users : Exists(v)' => Row(v)' \in Rows /\ hash'[v] \in issued'
    <3> SUFFICES ASSUME NEW v \in Users, Exists(v)'
                 PROVE  Row(v)' \in Rows /\ hash'[v] \in issued'
      OBVIOUS
    <3>1. CASE v = u
      BY <3>1, <2>1, <2>2 DEF UserTypeOK, Insert, Row, Rows, Prefixes
    <3>2. CASE v # u
      BY <3>2, <2>1, <2>2 DEF UserTypeOK, Insert, Row, Rows
    <3> QED
      BY <3>1, <3>2
  <2>4. \A v \in Users : Exists(v) => Exists(v)'
    BY <2>1 DEF UserTypeOK, Insert
  <2>5. /\ cpc' = [cpc EXCEPT ![c] = "finished"] /\ target' = [target EXCEPT ![c] = u]
        /\ UNCHANGED <<first, want, copy, loaded, boot>>
    BY <1>1 DEF CreateUser, Begin
  <2>6. \A d \in Calls :
          /\ Saving(d)' => /\ target'[d] \in Users /\ Exists(target[d])'
                            /\ copy'[d] \in Rows /\ copy'[d].hash \in issued'
          /\ cpc'[d] = "flush" => loaded'[d] \in Rows
    BY <2>2, <2>4, <2>5 DEF UserTypeOK
  <2> QED
    BY <2>2, <2>3, <2>4, <2>5, <2>6 DEF UserTypeOK
<1>2. ASSUME NEW u \in Users, UpdateGet(c, u) \/ RotateGet(c, u) PROVE UserTypeOK'
  <2>1. /\ cpc' = [cpc EXCEPT ![c] = "reload"] /\ target' = [target EXCEPT ![c] = u]
        /\ Exists(u) /\ UNCHANGED <<rowVars, loaded, boot>>
    BY <1>2 DEF UpdateGet, RotateGet, Begin
  <2>2. /\ want' \in [Calls -> BOOLEAN \cup {Keep}]
        /\ issued \subseteq issued' /\ issued' \subseteq Keys
        /\ copy' \in [Calls -> Rows \cup {NoUser}]
        /\ copy'[c] \in Rows /\ copy'[c].hash \in issued'
        /\ \A d \in Calls \ {c} : copy'[d] = copy[d]
    <3>1. CASE UpdateGet(c, u)
      <4>1. PICK w \in BOOLEAN \cup {Keep} :
              /\ want' = [want EXCEPT ![c] = w]
              /\ copy' = [copy EXCEPT ![c] =
                           [Row(u) EXCEPT !.active = IF w = Keep THEN @ ELSE w]]
        BY <3>1 DEF UpdateGet
      <4>2. /\ [Row(u) EXCEPT !.active = IF w = Keep THEN @ ELSE w] \in Rows
            /\ [Row(u) EXCEPT !.active = IF w = Keep THEN @ ELSE w].hash \in issued
        BY <2>1, RowOfTable DEF Rows, Row, UserTypeOK
      <4> QED
        BY <3>1, <4>1, <4>2 DEF UpdateGet, UserTypeOK
    <3>2. CASE RotateGet(c, u)
      <4>1. PICK k \in Keys :
              /\ Generate(k)
              /\ copy' = [copy EXCEPT ![c] =
                           [hash |-> k, prefix |-> Prefix[k], active |-> active[u]]]
        BY <3>2 DEF RotateGet
      <4>2. [hash |-> k, prefix |-> Prefix[k], active |-> active[u]] \in Rows
        BY DEF UserTypeOK, Rows, Prefixes
      <4> QED
        BY <3>2, <4>1, <4>2 DEF RotateGet, UserTypeOK, Generate
    <3> QED
      BY <1>2, <3>1, <3>2
  <2>3. \A d \in Calls :
          /\ Saving(d)' => /\ target'[d] \in Users /\ Exists(target'[d])
                            /\ copy'[d] \in Rows /\ copy'[d].hash \in issued'
          /\ cpc'[d] = "flush" => loaded'[d] \in Rows
    BY <2>1, <2>2 DEF UserTypeOK
  <2> QED
    BY <2>1, <2>2, <2>3 DEF UserTypeOK, Row
<1>3. CASE Reload(c)
  <2>1. Row(target[c]) \in Rows
    BY <1>3, RowOfTable DEF Reload, UserTypeOK
  <2> QED
    BY <1>3, <2>1 DEF Reload, UserTypeOK, Row
<1>4. CASE Flush(c)
  <2> DEFINE u == target[c]
  <2>1. /\ u \in Users /\ Exists(u)
        /\ copy[c] \in Rows /\ copy[c].hash \in issued
        /\ cpc' = [cpc EXCEPT ![c] = "finished"]
        /\ UNCHANGED <<first, issued, target, want, copy, loaded, boot>>
    BY <1>4 DEF Flush, UserTypeOK
  <2>2. /\ hash' = [hash EXCEPT ![u] = Flushed(copy[c].hash, loaded[c].hash, @)]
        /\ prefix' = [prefix EXCEPT ![u] = Flushed(copy[c].prefix, loaded[c].prefix, @)]
        /\ active' = [active EXCEPT ![u] = Flushed(copy[c].active, loaded[c].active, @)]
    BY <1>4 DEF Flush
  <2>3. /\ hash[u] \in Keys /\ prefix[u] \in Prefixes /\ active[u] \in BOOLEAN
        /\ copy[c].hash \in Keys /\ copy[c].prefix \in Prefixes
        /\ copy[c].active \in BOOLEAN
    BY <2>1, RowOfTable DEF Rows
  <2>4. /\ hash' \in [Users -> Keys \cup {NoKey}] /\ hash'[u] \in Keys
        /\ prefix' \in [Users -> Prefixes \cup {NoKey}] /\ prefix'[u] \in Prefixes
        /\ active' \in [Users -> BOOLEAN]
        /\ hash'[u] \in {copy[c].hash, hash[u]}
        /\ \A v \in Users \ {u} : /\ hash'[v] = hash[v] /\ prefix'[v] = prefix[v]
                                  /\ active'[v] = active[v]
    BY <2>1, <2>2, <2>3 DEF UserTypeOK, Flushed
  <2>5. hash'[u] \in issued'
    BY <2>1, <2>4 DEF UserTypeOK
  <2>6. \A v \in Users : Exists(v)' => Row(v)' \in Rows /\ hash'[v] \in issued'
    <3> SUFFICES ASSUME NEW v \in Users, Exists(v)'
                 PROVE  Row(v)' \in Rows /\ hash'[v] \in issued'
      OBVIOUS
    <3>1. CASE v = u
      BY <3>1, <2>4, <2>5 DEF Row, Rows
    <3>2. CASE v # u
      BY <3>2, <2>1, <2>4 DEF UserTypeOK, Row, Rows
    <3> QED
      BY <3>1, <3>2
  <2>7. \A v \in Users : Exists(v) => Exists(v)'
    BY <2>3, <2>4
  <2> QED
    BY <2>1, <2>4, <2>6, <2>7 DEF UserTypeOK
<1>5. CASE CallFails(c)
  BY <1>5 DEF CallFails, UserTypeOK, Row
<1> QED
  BY <1>1, <1>2, <1>3, <1>4, <1>5 DEF CallStep

LEMMA BootType ==
  ASSUME UserTypeOK, NEW w \in Workers, BootStep(w) \/ WorkerDies(w)
  PROVE  UserTypeOK'
<1> USE NoKeyAssumption DEF Exists, Saving, callVars, rowVars
<1>1. boot' \in [Workers -> {"count", "insert", "up", "exited", "dead"}]
  BY DEF UserTypeOK, BootStep, EnsureCount, EnsureInsert, WorkerRestarts, WorkerDies
<1>2. CASE UNCHANGED <<rowVars, issued, callVars>>
  BY <1>1, <1>2 DEF UserTypeOK, Row
<1>3. ASSUME NEW u \in Users, NEW k \in Keys, ~Exists(u), Generate(k), Insert(u, k),
             first' = {u}, UNCHANGED callVars
      PROVE  UserTypeOK'
  <2>1. /\ hash' \in [Users -> Keys \cup {NoKey}] /\ prefix' \in [Users -> Prefixes \cup {NoKey}]
        /\ active' \in [Users -> BOOLEAN] /\ issued' \subseteq Keys
        /\ issued \subseteq issued' /\ k \in issued' /\ Exists(u)'
    BY <1>3 DEF UserTypeOK, Generate, Insert, Prefixes
  <2>2. \A v \in Users : Exists(v)' => Row(v)' \in Rows /\ hash'[v] \in issued'
    <3> SUFFICES ASSUME NEW v \in Users, Exists(v)'
                 PROVE  Row(v)' \in Rows /\ hash'[v] \in issued'
      OBVIOUS
    <3>1. CASE v = u
      BY <3>1, <1>3, <2>1 DEF UserTypeOK, Insert, Row, Rows, Prefixes
    <3>2. CASE v # u
      BY <3>2, <1>3, <2>1 DEF UserTypeOK, Insert, Row, Rows
    <3> QED
      BY <3>1, <3>2
  <2>3. \A v \in Users : Exists(v) => Exists(v)'
    BY <1>3 DEF UserTypeOK, Insert
  <2> QED
    BY <1>1, <1>3, <2>1, <2>2, <2>3 DEF UserTypeOK
<1> QED
  BY <1>2, <1>3 DEF BootStep, EnsureCount, EnsureInsert, WorkerRestarts, WorkerDies

LEMMA TypeStep == UserTypeOK /\ [UserNext]_userVars => UserTypeOK'
<1> SUFFICES ASSUME UserTypeOK, [UserNext]_userVars PROVE UserTypeOK'
  OBVIOUS
<1>1. CASE UNCHANGED userVars
  BY <1>1 DEF UserTypeOK, userVars, rowVars, callVars, Exists, Saving, Row
<1> QED
  BY <1>1, CallType, BootType DEF UserNext, AllServed

LEMMA TypeInit == UserInit => UserTypeOK
BY DEF UserInit, UserTypeOK, Exists, Saving

\* Rows stay whole, and nothing is saved but whole rows, under any overlap of
\* admin calls and boots (user_service.py, user_repository.py:65-78).
THEOREM UserTypeCorrect == UserSafety => []UserTypeOK
<1> QED
  BY TypeInit, TypeStep, PTL DEF UserSafety

-----------------------------------------------------------------------------
(* Every key works for its user only.  Two facts make it so.  The halves of a *)
(* key stay together: what commit compares are pairs, and pairs that differ   *)
(* in one half differ in the other, so it writes both halves or none.  And no *)
(* key is ever held for two users, in a row or by a call that will save it.   *)

Pair(row) == row.prefix = Prefix[row.hash]

Whole ==
  /\ \A u \in Users : Exists(u) => Pair(Row(u))
  /\ \A c \in Calls : Saving(c) => Pair(copy[c])
  /\ \A c \in Calls : cpc[c] = "flush" => Pair(loaded[c])

\* The keys that are user u's or may become so.
Held(u) ==
  {k \in Keys : \/ hash[u] = k
                \/ \E c \in Calls : Saving(c) /\ target[c] = u /\ copy[c].hash = k}

NoneShared == \A u, v \in Users : u # v => Held(u) \cap Held(v) = {}

KeyInv == UserTypeOK /\ Whole /\ NoneShared

LEMMA HeldWasIssued ==
  ASSUME UserTypeOK, NEW u \in Users
  PROVE  Held(u) \subseteq issued
BY NoKeyAssumption DEF UserTypeOK, Held, Exists

\* A new key goes to one user; all else that is held was held before.
LEMMA StillNoneShared ==
  ASSUME UserTypeOK, NoneShared, NEW u \in Users, NEW k, k \notin issued,
         \A v \in Users \ {u} : Held(v)' \subseteq Held(v),
         Held(u)' \subseteq Held(u) \cup {k}
  PROVE  NoneShared'
BY HeldWasIssued DEF NoneShared

LEMMA CallWhole ==
  ASSUME UserTypeOK, Whole, NEW c \in Calls, CallStep(c)
  PROVE  Whole'
<1> USE NoKeyAssumption DEF Exists, Saving, GoTo, callVars, rowVars, Pair, Row
<1>1. ASSUME NEW u \in Users, CreateUser(c, u) PROVE Whole'
  <2>1. PICK k \in Keys : Insert(u, k)
    BY <1>1 DEF CreateUser
  <2>2. \A v \in Users : Exists(v)' => Pair(Row(v))'
    BY <2>1 DEF UserTypeOK, Whole, Insert
  <2> QED
    BY <1>1, <2>2 DEF CreateUser, Begin, UserTypeOK, Whole
<1>2. ASSUME NEW u \in Users, UpdateGet(c, u) PROVE Whole'
  <2>1. PICK w : copy' = [copy EXCEPT ![c] =
                           [Row(u) EXCEPT !.active = IF w = Keep THEN @ ELSE w]]
    BY <1>2 DEF UpdateGet
  <2>2. Pair(copy'[c])
    BY <1>2, <2>1 DEF UpdateGet, UserTypeOK, Whole
  <2> QED
    BY <1>2, <2>1, <2>2 DEF UpdateGet, Begin, UserTypeOK, Whole
<1>3. ASSUME NEW u \in Users, RotateGet(c, u) PROVE Whole'
  <2>1. PICK k \in Keys : copy' = [copy EXCEPT ![c] =
                           [hash |-> k, prefix |-> Prefix[k], active |-> active[u]]]
    BY <1>3 DEF RotateGet
  <2>2. Pair(copy'[c])
    BY <2>1 DEF UserTypeOK
  <2> QED
    BY <1>3, <2>1, <2>2 DEF RotateGet, Begin, UserTypeOK, Whole
<1>4. CASE Reload(c)
  BY <1>4 DEF Reload, UserTypeOK, Whole
<1>5. CASE Flush(c)
  <2> DEFINE u == target[c]
  <2>1. /\ u \in Users /\ Exists(u) /\ copy[c] \in Rows /\ loaded[c] \in Rows
        /\ Pair(copy[c]) /\ Pair(loaded[c]) /\ Pair(Row(u))
    BY <1>5 DEF Flush, UserTypeOK, Whole
  <2>2. copy[c].hash = loaded[c].hash <=> copy[c].prefix = loaded[c].prefix
    BY <2>1, PrefixAssumption DEF Rows
  <2>3. /\ hash' = [hash EXCEPT ![u] = Flushed(copy[c].hash, loaded[c].hash, @)]
        /\ prefix' = [prefix EXCEPT ![u] = Flushed(copy[c].prefix, loaded[c].prefix, @)]
    BY <1>5 DEF Flush
  <2>4. prefix'[u] = Prefix[hash'[u]]
    BY <2>1, <2>2, <2>3 DEF Flushed, UserTypeOK
  <2>5. \A v \in Users : Exists(v)' => Pair(Row(v))'
    BY <2>3, <2>4 DEF UserTypeOK, Whole
  <2> QED
    BY <1>5, <2>5 DEF Flush, UserTypeOK, Whole
<1>6. CASE CallFails(c)
  BY <1>6 DEF CallFails, UserTypeOK, Whole
<1> QED
  BY <1>1, <1>2, <1>3, <1>4, <1>5, <1>6 DEF CallStep

LEMMA BootWhole ==
  ASSUME UserTypeOK, Whole, NEW w \in Workers, BootStep(w) \/ WorkerDies(w)
  PROVE  Whole'
<1> USE DEF Exists, Saving, callVars, rowVars, Pair, Row
<1>1. CASE UNCHANGED <<rowVars, issued, callVars>>
  BY <1>1 DEF Whole
<1>2. ASSUME NEW u \in Users, NEW k \in Keys, Insert(u, k), UNCHANGED callVars
      PROVE  Whole'
  BY <1>2 DEF UserTypeOK, Insert, Whole
<1> QED
  BY <1>1, <1>2 DEF BootStep, EnsureCount, EnsureInsert, WorkerRestarts, WorkerDies

\* An INSERT or a rotation takes a new key for its user.
LEMMA CallShares ==
  ASSUME UserTypeOK, NoneShared, NEW c \in Calls, CallStep(c)
  PROVE  NoneShared'
<1> USE DEF Saving, GoTo, callVars, rowVars
<1>1. ASSUME NEW u \in Users, CreateUser(c, u) PROVE NoneShared'
  <2>1. PICK k \in Keys : Generate(k) /\ Insert(u, k)
    BY <1>1 DEF CreateUser
  <2>2. /\ \A v \in Users \ {u} : Held(v)' \subseteq Held(v)
        /\ Held(u)' \subseteq Held(u) \cup {k}
    BY <1>1, <2>1 DEF CreateUser, Begin, Insert, UserTypeOK, Held
  <2> QED
    BY <2>1, <2>2, StillNoneShared DEF Generate
<1>2. ASSUME NEW u \in Users, UpdateGet(c, u) PROVE NoneShared'
  <2>1. PICK w : copy' = [copy EXCEPT ![c] =
                           [Row(u) EXCEPT !.active = IF w = Keep THEN @ ELSE w]]
    BY <1>2 DEF UpdateGet
  <2>2. copy'[c].hash = hash[u]
    BY <2>1 DEF UserTypeOK, Row
  <2>3. \A v \in Users : Held(v)' \subseteq Held(v)
    BY <1>2, <2>1, <2>2 DEF UpdateGet, Begin, UserTypeOK, Held
  <2> QED
    BY <2>3 DEF NoneShared
<1>3. ASSUME NEW u \in Users, RotateGet(c, u) PROVE NoneShared'
  <2>1. PICK k \in Keys :
          /\ Generate(k)
          /\ copy' = [copy EXCEPT ![c] =
                       [hash |-> k, prefix |-> Prefix[k], active |-> active[u]]]
    BY <1>3 DEF RotateGet
  <2>2. copy'[c].hash = k
    BY <2>1 DEF UserTypeOK
  <2>3. /\ \A v \in Users \ {u} : Held(v)' \subseteq Held(v)
        /\ Held(u)' \subseteq Held(u) \cup {k}
    BY <1>3, <2>1, <2>2 DEF RotateGet, Begin, UserTypeOK, Held
  <2> QED
    BY <2>1, <2>3, StillNoneShared DEF Generate
<1>4. CASE Reload(c) \/ CallFails(c)
  <2>1. \A v \in Users : Held(v)' \subseteq Held(v)
    BY <1>4 DEF Reload, CallFails, UserTypeOK, Held
  <2> QED
    BY <2>1 DEF NoneShared
<1>5. CASE Flush(c)
  <2> DEFINE u == target[c]
  <2>1. hash' = [hash EXCEPT ![u] = Flushed(copy[c].hash, loaded[c].hash, @)]
    BY <1>5 DEF Flush
  <2>2. hash'[u] \in {copy[c].hash, hash[u]}
    BY <1>5, <2>1 DEF Flush, Flushed, UserTypeOK
  <2>3. \A v \in Users : Held(v)' \subseteq Held(v)
    BY <1>5, <2>1, <2>2 DEF Flush, UserTypeOK, Held
  <2> QED
    BY <2>3 DEF NoneShared
<1> QED
  BY <1>1, <1>2, <1>3, <1>4, <1>5 DEF CallStep

LEMMA BootShares ==
  ASSUME UserTypeOK, NoneShared, NEW w \in Workers, BootStep(w) \/ WorkerDies(w)
  PROVE  NoneShared'
<1> USE DEF Saving, callVars, rowVars
<1>1. CASE UNCHANGED <<rowVars, issued, callVars>>
  BY <1>1 DEF NoneShared, Held
<1>2. ASSUME NEW u \in Users, NEW k \in Keys, Generate(k), Insert(u, k), UNCHANGED callVars
      PROVE  NoneShared'
  <2>1. /\ \A v \in Users \ {u} : Held(v)' \subseteq Held(v)
        /\ Held(u)' \subseteq Held(u) \cup {k}
    BY <1>2 DEF Insert, UserTypeOK, Held
  <2> QED
    BY <1>2, <2>1, StillNoneShared DEF Generate
<1> QED
  BY <1>1, <1>2 DEF BootStep, EnsureCount, EnsureInsert, WorkerRestarts, WorkerDies

LEMMA KeyStep == KeyInv /\ [UserNext]_userVars => KeyInv'
<1> SUFFICES ASSUME KeyInv, [UserNext]_userVars PROVE Whole' /\ NoneShared'
  BY TypeStep DEF KeyInv
<1>1. CASE UNCHANGED userVars
  BY <1>1 DEF KeyInv, Whole, NoneShared, Held, userVars, rowVars, callVars,
              Exists, Saving, Row, Pair
<1> QED
  BY <1>1, CallWhole, BootWhole, CallShares, BootShares DEF KeyInv, UserNext, AllServed

LEMMA KeyInit == UserInit => KeyInv
<1> SUFFICES ASSUME UserInit PROVE Whole /\ NoneShared
  BY TypeInit DEF KeyInv
<1>1. Whole
  BY DEF UserInit, Whole, Exists, Saving
<1>2. \A u \in Users : Held(u) = {}
  BY NoKeyAssumption DEF UserInit, Held, Saving
<1> QED
  BY <1>1, <1>2 DEF NoneShared

LEMMA KeyInvGivesKeys == KeyInv => EveryKeyWorks
<1> SUFFICES ASSUME KeyInv, NEW u \in Users, Exists(u), active[u]
             PROVE  KeyOpens(hash[u]) = {u}
  BY DEF EveryKeyWorks
<1>1. hash[u] \in Keys /\ prefix[u] = Prefix[hash[u]]
  BY RowOfTable DEF KeyInv, Whole, Pair, Row
<1>2. \A v \in Users : hash[v] = hash[u] => v = u
  BY <1>1 DEF KeyInv, NoneShared, Held
<1> QED
  BY <1>1, <1>2 DEF KeyOpens

\* Whatever overlaps, an active user's key lets in that user and nobody else
\* (user_service.py:29-41, 83-91).
THEOREM KeysWork == UserSafety => []EveryKeyWorks
<1> QED
  BY KeyInit, KeyStep, KeyInvGivesKeys, PTL DEF UserSafety

-----------------------------------------------------------------------------
(* The first admin.  Nobody serves, so nobody can create a user, before the   *)
(* first admin is there: an empty table is the same as no first admin.        *)

FirstInv ==
  first = {} => /\ \A u \in Users : ~Exists(u)
                /\ \A w \in Workers : boot[w] # "up"

AdminInv == UserTypeOK /\ FirstInv

LEMMA FirstStep ==
  ASSUME UserTypeOK, FirstInv, [UserNext]_userVars
  PROVE  FirstInv'
<1> USE DEF callVars, rowVars, Exists
<1>1. CASE UNCHANGED userVars
  BY <1>1 DEF FirstInv, userVars
<1>2. ASSUME NEW c \in Calls, CallStep(c) PROVE FirstInv'
  <2>1. ASSUME NEW u \in Users, CreateUser(c, u) PROVE FirstInv'
    BY <2>1 DEF CreateUser, Begin, FirstInv
  <2>2. CASE Flush(c)
    <3>1. first # {}
      BY <2>2 DEF Flush, UserTypeOK, FirstInv, Saving
    <3> QED
      BY <2>2, <3>1 DEF Flush, FirstInv
  <2> QED
    BY <1>2, <2>1, <2>2
    DEF CallStep, UpdateGet, RotateGet, Reload, CallFails, FirstInv
<1>3. ASSUME NEW w \in Workers, BootStep(w) \/ WorkerDies(w) PROVE FirstInv'
  <2>1. CASE EnsureCount(w)
    BY <2>1 DEF EnsureCount, FirstInv, UserTypeOK
  <2>2. CASE EnsureInsert(w)
    BY <2>2 DEF EnsureInsert, FirstInv, UserTypeOK
  <2>3. CASE WorkerRestarts(w) \/ WorkerDies(w)
    BY <2>3 DEF WorkerRestarts, WorkerDies, FirstInv, UserTypeOK
  <2> QED
    BY <1>3, <2>1, <2>2, <2>3 DEF BootStep
<1> QED
  BY <1>1, <1>2, <1>3 DEF UserNext, AllServed

\* A boot that creates an admin found the table without a first admin.
LEMMA InsertStep ==
  ASSUME AdminInv, [UserNext]_userVars, NEW w \in Workers,
         boot[w] = "insert", boot'[w] = "up"
  PROVE  \A u \in Users : ~Exists(u)
<1>1. ASSUME NEW v \in Workers, BootStep(v) \/ WorkerDies(v)
      PROVE  v = w /\ EnsureInsert(w)
  BY <1>1 DEF AdminInv, UserTypeOK, BootStep, EnsureCount, EnsureInsert,
              WorkerRestarts, WorkerDies
<1>2. ASSUME NEW c \in Calls, CallStep(c) PROVE FALSE
  BY <1>2 DEF CallStep, CreateUser, UpdateGet, RotateGet, Reload, Flush, CallFails
<1>3. ~UNCHANGED userVars
  BY DEF userVars
<1>4. EnsureInsert(w)
  BY <1>1, <1>2, <1>3 DEF UserNext, AllServed
<1>5. first = {}
  BY <1>4 DEF EnsureInsert, AdminInv, UserTypeOK
<1> QED
  BY <1>5 DEF AdminInv, FirstInv

\* However many workers boot on an empty table at once, one creates an admin
\* (lifespan.py:45-52, user_service.py:93-103).
THEOREM OneFirstAdmin == UserSafety => FirstAdminOnly
<1>1. UserInit => AdminInv
  BY TypeInit DEF UserInit, AdminInv, FirstInv, Exists
<1>2. AdminInv /\ [UserNext]_userVars => AdminInv'
  BY TypeStep, FirstStep DEF AdminInv
<1>3. AdminInv /\ [UserNext]_userVars =>
        [\A w \in Workers :
           boot[w] = "insert" /\ boot'[w] = "up" => \A u \in Users : ~Exists(u)]_userVars
  BY InsertStep
<1> QED
  BY <1>1, <1>2, <1>3, PTL DEF UserSafety, FirstAdminOnly
=============================================================================

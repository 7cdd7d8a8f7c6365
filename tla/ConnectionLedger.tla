--------------------------- MODULE ConnectionLedger ---------------------------
(***************************************************************************)
(* What acquire and release of an account state manager                    *)
(* (src/src/domain/interfaces/account_state_manager.py) are there for:     *)
(* every request opens at most one connection, on one account, and gives   *)
(* back that one, once.  The count of an account changes in no other way,  *)
(* and it never has to be clamped at zero.  A request that is given up     *)
(* while its connection is open leaves it open for ever.                   *)
(***************************************************************************)
EXTENDS Integers

CONSTANTS Accounts, Requests, NoAccount

VARIABLES
  count,      \* open connections of an account
  stage,      \* "before", "open", "after"; "leaked" if it will stay open
  account     \* the account of the connection

ledgerVars == <<count, stage, account>>

MoveTo(r, s) == stage' = [stage EXCEPT ![r] = s]

LedgerInit ==
  /\ count = [a \in Accounts |-> 0]
  /\ stage = [r \in Requests |-> "before"]
  /\ account = [r \in Requests |-> NoAccount]

\* acquire; it may have counted although the request does not learn of it.
OpenConnection(r, a) ==
  /\ stage[r] = "before"
  /\ MoveTo(r, "open") \/ MoveTo(r, "leaked")
  /\ account' = [account EXCEPT ![r] = a]
  /\ count' = [count EXCEPT ![a] = @ + 1]

\* release.
CloseConnection(r) ==
  /\ stage[r] = "open"
  /\ MoveTo(r, "after")
  /\ count' = [count EXCEPT ![account[r]] = @ - 1]
  /\ UNCHANGED account

\* Requests end on the way: one by itself, or all those of a worker that dies.
GiveUp(S) ==
  /\ UNCHANGED <<count, account>>
  /\ stage' = [r \in Requests |->
                 IF r \notin S THEN stage[r]
                 ELSE CASE stage[r] = "before" -> "after"
                        [] stage[r] = "open" -> "leaked"
                        [] OTHER -> stage[r]]

LedgerNext ==
  \/ \E S \in SUBSET Requests : GiveUp(S)
  \/ \E r \in Requests : CloseConnection(r)
  \/ \E r \in Requests, a \in Accounts : OpenConnection(r, a)

LedgerSpec == LedgerInit /\ [][LedgerNext]_ledgerVars
=============================================================================

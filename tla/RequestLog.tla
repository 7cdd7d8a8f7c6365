------------------------------ MODULE RequestLog ------------------------------
(***************************************************************************)
(* The request log and what is read from it: how a request gets its token  *)
(* numbers (proxy_service.py: _sync_response, event_generator and          *)
(* _extract_usage_from_sse), when its row appears in request_logs, and the *)
(* pages of StatsService (log_repository.py).  PostgreSQL is external: a   *)
(* statement sees what is committed when it starts, created_at defaults to *)
(* now(), the time its transaction began, and the foreign key to the       *)
(* accounts is ON DELETE SET NULL.                                         *)
(*                                                                         *)
(* A line of a stream is what the parser makes of it: the "usage" of the   *)
(* event and the one inside its "message", both empty for a line that is   *)
(* no event, or fails, if looking for them raises.  The answer to a        *)
(* request that does not stream is one such line.                          *)
(*                                                                         *)
(* pc[r]: new, call (upstream), body (chunks of a stream), parse, log, end *)
(***************************************************************************)
EXTENDS Integers, Sequences

CONSTANTS
  Requests, Streams,    \* all requests, and those with "stream" set
  Users, User,          \* User[r] sent r
  Accounts, NoAccount,
  Fields,               \* token columns: input_tokens, output_tokens, ...
  Null, Counts,         \* SQL NULL, and the numbers that occur
  Lines,
  Windows,              \* values of the "days" parameter
  MaxLines, MaxDay      \* bounds for TLC: lines of a stream, days

Values == Counts \cup {Null}
Usage == UNION {[D -> Values] : D \in SUBSET Fields}

ASSUME LogUsersAssumption ==
  Streams \subseteq Requests /\ User \in [Requests -> Users]
ASSUME LogAccountAssumption == NoAccount \notin Accounts
ASSUME LinesAssumption ==
  Lines \subseteq [fails : BOOLEAN, usage : Usage, message : Usage]
ASSUME BoundsAssumption ==
  Windows \subseteq Nat /\ MaxLines \in Nat /\ MaxDay \in Nat

VARIABLES
  today,
  accounts,     \* rows of claude_accounts
  pc,
  acct,         \* the account that serves a request
  began,        \* the day its open transaction began, NoDay without one
  body,         \* the lines received so far
  whole,        \* the answer has arrived to its end
  next,         \* the line the parser is at
  tokens,       \* the token numbers of the RequestLog object
  row,          \* its row in request_logs
  page          \* the usage page that is being put together

reqLogVars == <<pc, acct, began, body, whole, next, tokens>>
logVars == <<today, accounts, reqLogVars, row, page>>

NoDay == -1
NoTokens == [f \in Fields |-> Null]
NoRow == [written |-> FALSE, account |-> NoAccount, day |-> 0, tokens |-> NoTokens]

LogGoTo(r, l) == pc' = [pc EXCEPT ![r] = l]
Get(u, f, default) == IF f \in DOMAIN u THEN u[f] ELSE default

-----------------------------------------------------------------------------
(* The pages: the rows each query counts, from a given day on.                *)

\* The overview and the page of the models count every row, whether its account
\* still exists or not.
Visible(from) == {r \in Requests : row[r].written /\ row[r].day >= from}

UserRows(u, from) == {r \in Visible(from) : User[r] = u}
AccountRows(a, from) == {r \in Visible(from) : row[r].account = a}

-----------------------------------------------------------------------------
(* Faulty variants of the operations below.  No specification uses them: each *)
(* is the bug that a property of this module is there to catch.               *)

\* usage.get(f): a later event wipes what it does not mention.
MergeWipes(t, u) == [f \in Fields |-> Get(u, f, Null)]

\* The usage is looked for chunk by chunk.
ReceiveAndParse(r) ==
  /\ pc[r] = "body"
  /\ Len(body[r]) < MaxLines
  /\ \E l \in Lines :
       /\ body' = [body EXCEPT ![r] = Append(body[r], l)]
       /\ tokens' = [tokens EXCEPT ![r] =
                       [f \in Fields |-> Get(l.usage, f, tokens[r][f])]]
  /\ UNCHANGED <<today, accounts, pc, acct, began, whole, next, row, page>>

\* ON DELETE CASCADE.
CascadeRow(a, r) == IF row[r].account = a THEN NoRow ELSE row[r]

\* account_id is no foreign key.
KeepRow(a, r) == row[r]

\* created_at comes from the transaction of the authentication, open or not.
InsertAsBegun(r) ==
  row' = [row EXCEPT ![r] = [written |-> TRUE, account |-> acct[r],
                             day |-> began[r], tokens |-> tokens[r]]]

\* The window of the second query is computed anew.
BreakdownNewWindow ==
  /\ page.at = "totals"
  /\ page' = [page EXCEPT !.at = "shown",
                          !.models = UserRows(page.user, today - page.days)]
  /\ UNCHANGED <<today, accounts, reqLogVars, row>>

-----------------------------------------------------------------------------
(* A request.                                                                 *)

\* The transaction of the authentication stays open unless the request streams.
Begin(r) ==
  /\ pc[r] = "new"
  /\ \E a \in accounts : acct' = [acct EXCEPT ![r] = a]
  /\ began' = [began EXCEPT ![r] = IF r \in Streams THEN NoDay ELSE today]
  /\ LogGoTo(r, "call")
  /\ UNCHANGED <<today, accounts, body, whole, next, tokens, row, page>>

\* A 200 that does not stream; an answer that is no such object raises.
Answer(r) ==
  /\ pc[r] = "call"
  /\ r \notin Streams
  /\ whole' = [whole EXCEPT ![r] = TRUE]
  /\ \E l \in Lines :
       tokens' = [tokens EXCEPT ![r] =
                    [f \in Fields |-> IF l.fails THEN Null
                                      ELSE Get(l.usage, f, Null)]]
  /\ LogGoTo(r, "log")
  /\ UNCHANGED <<today, accounts, acct, began, body, next, row, page>>

\* An error status or an exception.  The reaction to a 429 or a ban has committed.
Fail(r) ==
  /\ pc[r] \in {"call", "body"}
  /\ began' = began \/ began' = [began EXCEPT ![r] = NoDay]
  /\ LogGoTo(r, "log")
  /\ UNCHANGED <<today, accounts, acct, body, whole, next, tokens, row, page>>

OpenStream(r) ==
  /\ pc[r] = "call"
  /\ r \in Streams
  /\ LogGoTo(r, "body")
  /\ UNCHANGED <<today, accounts, acct, began, body, whole, next, tokens, row, page>>

\* Chunks are passed on and collected; where one ends does not matter.
Receive(r) ==
  /\ pc[r] = "body"
  /\ Len(body[r]) < MaxLines
  /\ \E l \in Lines : body' = [body EXCEPT ![r] = Append(body[r], l)]
  /\ UNCHANGED <<today, accounts, pc, acct, began, whole, next, tokens, row, page>>

EndBody(r) ==
  /\ pc[r] = "body"
  /\ whole' = [whole EXCEPT ![r] = TRUE]
  /\ LogGoTo(r, "parse")
  /\ UNCHANGED <<today, accounts, acct, began, body, next, tokens, row, page>>

\* An empty "usage" counts as none.
Said(l) == IF DOMAIN l.usage # {} THEN l.usage ELSE l.message
Merge(t, u) == [f \in Fields |-> Get(u, f, t[f])]

\* One turn of the loop over the lines; an exception ends the loop.
Parse(r) ==
  /\ pc[r] = "parse"
  /\ IF next[r] > Len(body[r]) \/ body[r][next[r]].fails
       THEN LogGoTo(r, "log") /\ UNCHANGED <<next, tokens>>
       ELSE /\ tokens' = [tokens EXCEPT ![r] = Merge(tokens[r], Said(body[r][next[r]]))]
            /\ next' = [next EXCEPT ![r] = next[r] + 1]
            /\ UNCHANGED pc
  /\ UNCHANGED <<today, accounts, acct, began, body, whole, row, page>>

\* The client of a stream goes away: there will be no row.
Vanish(r) ==
  /\ r \in Streams
  /\ pc[r] \in {"call", "body", "log"}
  /\ LogGoTo(r, "end")
  /\ UNCHANGED <<today, accounts, acct, began, body, whole, next, tokens, row, page>>

Insert(r) ==
  row' = [row EXCEPT ![r] = [written |-> TRUE, account |-> acct[r],
                             day |-> IF began[r] = NoDay THEN today ELSE began[r],
                             tokens |-> tokens[r]]]

\* The INSERT is refused when the account is gone, and when the x-request-id of
\* the client is longer than 64 characters or the model name than 100.
WriteLog(r) ==
  /\ pc[r] = "log"
  /\ \/ acct[r] \in accounts /\ Insert(r)
     \/ UNCHANGED row
  /\ LogGoTo(r, "end")
  /\ UNCHANGED <<today, accounts, acct, began, body, whole, next, tokens, page>>

-----------------------------------------------------------------------------
(* The accounts, the pages, and time.                                         *)

\* ON DELETE SET NULL.
RowAfterDelete(a, r) ==
  IF row[r].account = a THEN [row[r] EXCEPT !.account = NoAccount] ELSE row[r]

DeleteAccount(a) ==
  /\ a \in accounts
  /\ accounts' = accounts \ {a}
  /\ row' = [r \in Requests |-> RowAfterDelete(a, r)]
  /\ UNCHANGED <<today, reqLogVars, page>>

\* get_user_stats: the totals first ...
Totals(u, days) ==
  /\ page.at # "totals"
  /\ page' = [at |-> "totals", user |-> u, days |-> days, since |-> today - days,
              totals |-> UserRows(u, today - days), models |-> {}]
  /\ UNCHANGED <<today, accounts, reqLogVars, row>>

\* ... then the breakdown by model, over the same window.
Breakdown ==
  /\ page.at = "totals"
  /\ page' = [page EXCEPT !.at = "shown", !.models = UserRows(page.user, page.since)]
  /\ UNCHANGED <<today, accounts, reqLogVars, row>>

Tick ==
  /\ today < MaxDay
  /\ today' = today + 1
  /\ UNCHANGED <<accounts, reqLogVars, row, page>>

LogInit ==
  /\ today = 0
  /\ accounts = Accounts
  /\ pc = [r \in Requests |-> "new"]
  /\ acct = [r \in Requests |-> NoAccount]
  /\ began = [r \in Requests |-> NoDay]
  /\ body = [r \in Requests |-> <<>>]
  /\ whole = [r \in Requests |-> FALSE]
  /\ next = [r \in Requests |-> 1]
  /\ tokens = [r \in Requests |-> NoTokens]
  /\ row = [r \in Requests |-> NoRow]
  /\ \E u \in Users, d \in Windows :
       page = [at |-> "shown", user |-> u, days |-> d, since |-> 0 - d,
               totals |-> {}, models |-> {}]

LogStep(r) ==
  \/ Begin(r) \/ Answer(r) \/ Fail(r) \/ OpenStream(r) \/ Receive(r) \/ EndBody(r)
  \/ Parse(r) \/ Vanish(r) \/ WriteLog(r)

LogNext ==
  \/ \E r \in Requests : LogStep(r)
  \/ \E a \in Accounts : DeleteAccount(a)
  \/ \E u \in Users, d \in Windows : Totals(u, d)
  \/ Breakdown
  \/ Tick

LogSpec == LogInit /\ [][LogNext]_logVars

-----------------------------------------------------------------------------
(* Properties.                                                                *)

Rows == [written : BOOLEAN, account : Accounts \cup {NoAccount}, day : Nat,
         tokens : [Fields -> Values]]
Pages == [at : {"totals", "shown"}, user : Users, days : Windows, since : Int,
          totals : SUBSET Requests, models : SUBSET Requests]

LogTypeOK ==
  /\ today \in Nat
  /\ accounts \subseteq Accounts
  /\ pc \in [Requests -> {"new", "call", "body", "parse", "log", "end"}]
  /\ acct \in [Requests -> Accounts \cup {NoAccount}]
  /\ began \in [Requests -> Nat \cup {NoDay}]
  /\ body \in [Requests -> Seq(Lines)]
  /\ whole \in [Requests -> BOOLEAN]
  /\ next \in [Requests -> Nat \ {0}]
  /\ tokens \in [Requests -> [Fields -> Values]]
  /\ row \in [Requests -> Rows]
  /\ page \in Pages

\* The lines of the first n that the parser looks at: none after one that fails.
Heard(r, n) == {i \in 1..n : \A j \in 1..i : ~body[r][j].fails}

Mentions(r, i, f) == f \in DOMAIN Said(body[r][i])

\* v is the last word of the first n lines on f.
LastWord(r, n, f, v) ==
  \/ \E i \in Heard(r, n) :
       /\ Mentions(r, i, f) /\ v = Said(body[r][i])[f]
       /\ \A j \in Heard(r, n) : j > i => ~Mentions(r, j, f)
  \/ v = Null /\ \A i \in Heard(r, n) : ~Mentions(r, i, f)

\* The row of a stream that arrived to its end has, for every token column, the
\* last number an event of the stream names: message_start says what came in,
\* message_delta what went out, and neither wipes what the other said.
UsageIsLastWord ==
  \A r \in Streams : row[r].written /\ whole[r] =>
    \A f \in Fields : LastWord(r, Len(body[r]), f, row[r].tokens[f])

\* A row with token numbers stands for an answer that arrived to its end: what a
\* stream said before it broke off is in no statistics.
TokensMeanWhole ==
  \A r \in Requests : row[r].written /\ row[r].tokens # NoTokens => whole[r]

\* Every request in the totals of a usage page is in its breakdown by model, also
\* if requests end or the day turns in between.
BreakdownCovers == page.at = "shown" => page.totals \subseteq page.models

\* Deleting an account, or anything else that happens, takes nothing from the
\* usage of users and models; accounts lose only the rows of deleted ones.
HistoryKept ==
  [][\A r \in Requests : row[r].written =>
       /\ row'[r].written
       /\ row'[r].day = row[r].day /\ row'[r].tokens = row[r].tokens
       /\ row'[r].account = row[r].account \/ row[r].account \notin accounts'
    ]_logVars

\* The page of the accounts names accounts that exist only, whether a request was
\* logged before or while its account was deleted.
RowsNameAccounts ==
  \A a \in Accounts, d \in 0..MaxDay : AccountRows(a, d) # {} => a \in accounts
=============================================================================

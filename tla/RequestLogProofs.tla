--------------------------- MODULE RequestLogProofs ---------------------------
(***************************************************************************)
(* What RequestLog guarantees for any number of requests, accounts and     *)
(* days, and for streams of any length.                                    *)
(***************************************************************************)
EXTENDS RequestLog, TLAPS

\* The loop invariant: before line next[r], the parser knows the last word of the
\* lines it has read.
Parsed(r, n) == \A f \in Fields : LastWord(r, n, f, tokens[r][f])

ReqInv(r) ==
  /\ pc[r] \in {"body", "parse"} => r \in Streams
  /\ pc[r] \in {"new", "call", "body"} =>
       tokens[r] = NoTokens /\ ~whole[r] /\ next[r] = 1
  /\ tokens[r] # NoTokens => whole[r]
  /\ pc[r] = "parse" =>
       /\ whole[r] /\ next[r] <= Len(body[r]) + 1
       /\ \A j \in 1..(next[r] - 1) : ~body[r][j].fails
       /\ Parsed(r, next[r] - 1)
  /\ r \in Streams /\ pc[r] \in {"log", "end"} /\ whole[r] => Parsed(r, Len(body[r]))
  /\ row[r].written => pc[r] = "end" /\ row[r].tokens = tokens[r]
  /\ row[r].account \in accounts \cup {NoAccount}

\* What the first query of a page has counted is still there.
PageInv ==
  /\ page.at = "totals" => page.totals \subseteq UserRows(page.user, page.since)
  /\ BreakdownCovers

LogInv == LogTypeOK /\ (\A r \in Requests : ReqInv(r)) /\ PageInv

-----------------------------------------------------------------------------
(* The parser.                                                                *)

\* Nothing is read before the first line.
LEMMA NothingSaid ==
  ASSUME NEW r \in Requests, tokens[r] = NoTokens
  PROVE  Parsed(r, 0)
BY DEF Parsed, LastWord, Heard, NoTokens

\* A line that does not fail has its say.
LEMMA OneMoreLine ==
  ASSUME NEW r \in Requests, NEW n \in Nat \ {0}, Parsed(r, n - 1),
         \A j \in 1..n : ~body[r][j].fails,
         body' = body, tokens'[r] = Merge(tokens[r], Said(body[r][n]))
  PROVE  Parsed(r, n)'
<1> SUFFICES ASSUME NEW f \in Fields
             PROVE  LastWord(r, n, f, tokens[r][f])'
  BY DEF Parsed
<1>1. Heard(r, n - 1) = 1..(n - 1) /\ Heard(r, n)' = 1..n
  <2>1. \A i \in 1..n : \A j \in 1..i : j \in 1..n /\ ~body[r][j].fails
    OBVIOUS
  <2>2. \A i \in 1..(n - 1) : i \in 1..n
    OBVIOUS
  <2> QED
    BY <2>1, <2>2 DEF Heard
<1>2. \A i : /\ Mentions(r, i, f)' <=> Mentions(r, i, f)
             /\ Said(body[r][i])' = Said(body[r][i])
  BY DEF Mentions, Said
<1>3. LastWord(r, n - 1, f, tokens[r][f])
  BY DEF Parsed
<1>4. CASE Mentions(r, n, f)
  <2>1. tokens'[r][f] = Said(body[r][n])[f]
    BY <1>4 DEF Merge, Get, Mentions
  <2>2. n \in 1..n /\ \A j \in 1..n : ~(j > n)
    OBVIOUS
  <2>3. /\ n \in Heard(r, n)' /\ Mentions(r, n, f)'
        /\ tokens'[r][f] = Said(body[r][n])[f]'
        /\ \A j \in Heard(r, n)' : j > n => ~Mentions(r, j, f)'
    BY <1>1, <1>2, <1>4, <2>1, <2>2
  <2> QED
    BY <2>3 DEF LastWord
<1>5. CASE ~Mentions(r, n, f)
  <2>1. tokens'[r][f] = tokens[r][f]
    BY <1>5 DEF Merge, Get, Mentions
  <2>2. \A i \in 1..n : i = n \/ i \in 1..(n - 1)
    OBVIOUS
  <2>3. \A j \in Heard(r, n)' : Mentions(r, j, f)' => j \in Heard(r, n - 1)
    BY <1>1, <1>2, <1>5, <2>2
  <2>4. CASE \E i \in Heard(r, n - 1) :
               /\ Mentions(r, i, f) /\ tokens[r][f] = Said(body[r][i])[f]
               /\ \A j \in Heard(r, n - 1) : j > i => ~Mentions(r, j, f)
    <3>1. PICK i \in Heard(r, n - 1) :
               /\ Mentions(r, i, f) /\ tokens[r][f] = Said(body[r][i])[f]
               /\ \A j \in Heard(r, n - 1) : j > i => ~Mentions(r, j, f)
      BY <2>4
    <3>2. i \in Heard(r, n)'
      BY <1>1
    <3>3. /\ Mentions(r, i, f)' /\ tokens'[r][f] = Said(body[r][i])[f]'
          /\ \A j \in Heard(r, n)' : j > i => ~Mentions(r, j, f)'
      BY <1>2, <2>1, <2>3, <3>1
    <3> QED
      BY <3>2, <3>3 DEF LastWord
  <2>5. CASE tokens[r][f] = Null /\ \A i \in Heard(r, n - 1) : ~Mentions(r, i, f)
    BY <1>2, <2>1, <2>3, <2>5 DEF LastWord
  <2> QED
    BY <1>3, <2>4, <2>5 DEF LastWord
<1> QED
  BY <1>4, <1>5

\* The loop ends at a line that fails, or after the last one.
LEMMA LoopEnds ==
  ASSUME NEW r \in Requests, body[r] \in Seq(Lines),
         NEW n \in Nat \ {0}, Parsed(r, n - 1), n <= Len(body[r]) + 1,
         \A j \in 1..(n - 1) : ~body[r][j].fails,
         n > Len(body[r]) \/ body[r][n].fails
  PROVE  Parsed(r, Len(body[r]))
<1>1. Len(body[r]) \in Nat
  OBVIOUS
<1>2. Heard(r, Len(body[r])) = Heard(r, n - 1)
  BY <1>1 DEF Heard
<1> QED
  BY <1>2 DEF Parsed, LastWord

\* Parsed depends on the lines and the tokens only.
LEMMA ParsedFrame ==
  ASSUME NEW r \in Requests, body'[r] = body[r], tokens'[r] = tokens[r], NEW n
  PROVE  Parsed(r, n)' <=> Parsed(r, n)
BY DEF Parsed, LastWord, Heard, Mentions, Said

-----------------------------------------------------------------------------
(* Types.                                                                     *)

LEMMA GetType ==
  ASSUME NEW u \in Usage, NEW f \in Fields, NEW v \in Values
  PROVE  Get(u, f, v) \in Values
BY DEF Usage, Get

LEMMA LineUsage ==
  ASSUME NEW l \in Lines
  PROVE  /\ l.usage \in Usage /\ l.message \in Usage /\ Said(l) \in Usage
         /\ l.fails \in BOOLEAN
BY LinesAssumption DEF Said

\* The variables of the requests.
ReqTypes ==
  /\ pc \in [Requests -> {"new", "call", "body", "parse", "log", "end"}]
  /\ acct \in [Requests -> Accounts \cup {NoAccount}]
  /\ began \in [Requests -> Nat \cup {NoDay}]
  /\ body \in [Requests -> Seq(Lines)]
  /\ whole \in [Requests -> BOOLEAN]
  /\ next \in [Requests -> Nat \ {0}]
  /\ tokens \in [Requests -> [Fields -> Values]]
  /\ row \in [Requests -> Rows]

LEMMA RequestTypes ==
  ASSUME LogTypeOK, NEW r \in Requests, LogStep(r)
  PROVE  ReqTypes' /\ UNCHANGED <<today, accounts, page>>
<1> USE DEF LogTypeOK, ReqTypes, LogGoTo
<1>1. CASE Begin(r)
  BY <1>1 DEF Begin
<1>2. CASE Answer(r)
  <2>1. PICK l \in Lines :
          tokens' = [tokens EXCEPT ![r] =
                       [f \in Fields |-> IF l.fails THEN Null
                                         ELSE Get(l.usage, f, Null)]]
    BY <1>2 DEF Answer
  <2>2. \A f \in Fields : Get(l.usage, f, Null) \in Values /\ Null \in Values
    BY LineUsage, GetType DEF Values
  <2>3. tokens' \in [Requests -> [Fields -> Values]]
    BY <2>1, <2>2
  <2> QED
    BY <1>2, <2>3 DEF Answer
<1>3. CASE Fail(r) \/ OpenStream(r) \/ EndBody(r) \/ Vanish(r)
  BY <1>3 DEF Fail, OpenStream, EndBody, Vanish
<1>6. CASE Receive(r)
  <2>1. PICK l \in Lines : body' = [body EXCEPT ![r] = Append(body[r], l)]
    BY <1>6 DEF Receive
  <2>2. Append(body[r], l) \in Seq(Lines)
    OBVIOUS
  <2>3. body' \in [Requests -> Seq(Lines)]
    BY <2>1, <2>2
  <2> QED
    BY <1>6, <2>3 DEF Receive
<1>4. CASE Parse(r)
  <2>1. CASE next[r] > Len(body[r]) \/ body[r][next[r]].fails
    BY <1>4, <2>1 DEF Parse
  <2>2. CASE ~(next[r] > Len(body[r]) \/ body[r][next[r]].fails)
    <3>1. body[r][next[r]] \in Lines
      BY <2>2
    <3>2. \A f \in Fields : Get(Said(body[r][next[r]]), f, tokens[r][f]) \in Values
      BY <3>1, LineUsage, GetType
    <3>3. Merge(tokens[r], Said(body[r][next[r]])) \in [Fields -> Values]
      BY <3>2 DEF Merge
    <3>4. /\ tokens' = [tokens EXCEPT ![r] = Merge(tokens[r], Said(body[r][next[r]]))]
          /\ next' = [next EXCEPT ![r] = next[r] + 1]
          /\ UNCHANGED <<today, accounts, acct, began, body, whole, row, page, pc>>
      BY <1>4, <2>2 DEF Parse
    <3>5. tokens' \in [Requests -> [Fields -> Values]]
      BY <3>3, <3>4
    <3>6. next' \in [Requests -> Nat \ {0}]
      BY <3>4
    <3> QED
      BY <3>4, <3>5, <3>6
  <2> QED
    BY <2>1, <2>2
<1>5. CASE WriteLog(r)
  <2>1. row' = row \/ Insert(r)
    BY <1>5 DEF WriteLog
  <2>2. (IF began[r] = NoDay THEN today ELSE began[r]) \in Nat
    OBVIOUS
  <2>3. [written |-> TRUE, account |-> acct[r],
         day |-> IF began[r] = NoDay THEN today ELSE began[r],
         tokens |-> tokens[r]] \in Rows
    BY <2>2 DEF Rows
  <2>4. row' \in [Requests -> Rows]
    BY <2>1, <2>3 DEF Insert
  <2> QED
    BY <1>5, <2>4 DEF WriteLog
<1> QED
  BY <1>1, <1>2, <1>3, <1>4, <1>5, <1>6 DEF LogStep

LEMMA TypeStep ==
  ASSUME LogTypeOK, [LogNext]_logVars
  PROVE  LogTypeOK'
<1>1. ASSUME NEW r \in Requests, LogStep(r) PROVE LogTypeOK'
  BY <1>1, RequestTypes DEF ReqTypes, LogTypeOK, Pages
<1>2. ASSUME NEW a \in Accounts, DeleteAccount(a) PROVE LogTypeOK'
  <2>1. \A r \in Requests : RowAfterDelete(a, r) \in Rows
    BY DEF LogTypeOK, Rows, RowAfterDelete
  <2> QED
    BY <1>2, <2>1 DEF DeleteAccount, LogTypeOK, reqLogVars, Pages
<1>3. ASSUME NEW u \in Users, NEW d \in Windows, Totals(u, d) PROVE LogTypeOK'
  <2>1. page' \in Pages
    <3>1. today - d \in Int
      BY BoundsAssumption DEF LogTypeOK
    <3> QED
      BY <1>3, <3>1 DEF Totals, Pages, UserRows, Visible
  <2> QED
    BY <1>3, <2>1 DEF Totals, LogTypeOK, reqLogVars
<1>4. CASE Breakdown
  <2>1. page' \in Pages
    BY <1>4 DEF Breakdown, LogTypeOK, Pages, UserRows, Visible
  <2> QED
    BY <1>4, <2>1 DEF Breakdown, LogTypeOK, reqLogVars
<1>5. CASE Tick
  BY <1>5 DEF Tick, LogTypeOK, reqLogVars, Pages
<1>6. CASE UNCHANGED logVars
  BY <1>6 DEF logVars, LogTypeOK, reqLogVars, Pages
<1> QED
  BY <1>1, <1>2, <1>3, <1>4, <1>5, <1>6 DEF LogNext

-----------------------------------------------------------------------------
(* Requests.                                                                  *)

\* A request in the hands of others.
LEMMA RequestFrame ==
  ASSUME NEW s \in Requests, ReqInv(s),
         pc'[s] = pc[s], body'[s] = body[s], whole'[s] = whole[s],
         next'[s] = next[s], tokens'[s] = tokens[s],
         row'[s].written = row[s].written, row'[s].tokens = row[s].tokens,
         row'[s].account \in accounts' \cup {NoAccount}
  PROVE  ReqInv(s)'
<1>1. \A n : Parsed(s, n)' <=> Parsed(s, n)
  BY ParsedFrame
<1> QED
  BY <1>1 DEF ReqInv

\* The steps of one request are invisible to another.
LEMMA OtherRequests ==
  ASSUME LogTypeOK, NEW r \in Requests, LogStep(r), NEW s \in Requests, s # r
  PROVE  /\ pc'[s] = pc[s] /\ body'[s] = body[s] /\ whole'[s] = whole[s]
         /\ next'[s] = next[s] /\ tokens'[s] = tokens[s] /\ row'[s] = row[s]
<1> USE DEF LogTypeOK, LogGoTo
<1>1. CASE Begin(r) \/ Fail(r) \/ OpenStream(r) \/ Receive(r)
  BY <1>1 DEF Begin, Fail, OpenStream, Receive
<1>2. CASE Answer(r)
  BY <1>2 DEF Answer
<1>3. CASE EndBody(r) \/ Vanish(r)
  BY <1>3 DEF EndBody, Vanish
<1>4. CASE Parse(r)
  BY <1>4 DEF Parse
<1>5. CASE WriteLog(r)
  BY <1>5 DEF WriteLog, Insert
<1> QED
  BY <1>1, <1>2, <1>3, <1>4, <1>5 DEF LogStep

\* A step of a request keeps its own invariant: the parser hands over to the log
\* when it knows the last word of the whole body.
LEMMA OwnStep ==
  ASSUME LogTypeOK, NEW r \in Requests, ReqInv(r), LogStep(r)
  PROVE  ReqInv(r)'
<1> USE DEF LogTypeOK, LogGoTo
<1>1. CASE Begin(r) \/ OpenStream(r)
  BY <1>1, ParsedFrame DEF Begin, OpenStream, ReqInv
<1>2. CASE Answer(r)
  BY <1>2 DEF Answer, ReqInv
<1>3. CASE Fail(r)
  BY <1>3 DEF Fail, ReqInv
<1>4. CASE Receive(r)
  BY <1>4 DEF Receive, ReqInv
<1>5. CASE EndBody(r)
  <2>1. pc[r] = "body" /\ tokens[r] = NoTokens /\ next[r] = 1 /\ r \in Streams
    BY <1>5 DEF EndBody, ReqInv
  <2>2. Parsed(r, 0)'
    BY <1>5, <2>1, NothingSaid, ParsedFrame DEF EndBody
  <2>3. /\ pc'[r] = "parse" /\ whole'[r] /\ next'[r] = 1 /\ tokens'[r] = NoTokens
        /\ Len(body'[r]) \in Nat /\ row' = row /\ accounts' = accounts
    BY <1>5, <2>1 DEF EndBody
  <2>4. next'[r] - 1 = 0 /\ next'[r] <= Len(body'[r]) + 1 /\ 1..(next'[r] - 1) = {}
    BY <2>3
  <2> QED
    BY <2>1, <2>2, <2>3, <2>4 DEF ReqInv
<1>6. CASE Parse(r)
  <2>1. /\ pc[r] = "parse" /\ r \in Streams /\ whole[r]
        /\ next[r] <= Len(body[r]) + 1 /\ Parsed(r, next[r] - 1)
        /\ \A j \in 1..(next[r] - 1) : ~body[r][j].fails
        /\ UNCHANGED <<accounts, body, whole, row>>
        /\ next[r] \in Nat \ {0} /\ body[r] \in Seq(Lines) /\ Len(body[r]) \in Nat
        /\ ~row[r].written /\ row[r].account \in accounts \cup {NoAccount}
    BY <1>6 DEF Parse, ReqInv
  <2>2. CASE next[r] > Len(body[r]) \/ body[r][next[r]].fails
    <3>1. Parsed(r, Len(body[r]))
      BY <2>1, <2>2, LoopEnds
    <3>2. pc'[r] = "log" /\ UNCHANGED <<next, tokens>>
      BY <1>6, <2>2 DEF Parse
    <3>3. Parsed(r, Len(body[r]))'
      BY <2>1, <3>1, <3>2, ParsedFrame
    <3> QED
      BY <2>1, <3>2, <3>3 DEF ReqInv
  <2>3. CASE ~(next[r] > Len(body[r]) \/ body[r][next[r]].fails)
    <3>1. /\ pc'[r] = "parse" /\ next'[r] = next[r] + 1
          /\ tokens'[r] = Merge(tokens[r], Said(body[r][next[r]]))
      BY <1>6, <2>1, <2>3 DEF Parse
    <3>2. \A j \in 1..next[r] : ~body[r][j].fails
      <4>1. \A j \in 1..next[r] : j = next[r] \/ j \in 1..(next[r] - 1)
        BY <2>1
      <4> QED
        BY <2>1, <2>3, <4>1
    <3>3. ASSUME NEW n \in Nat \ {0}, n = next[r] PROVE Parsed(r, n)'
      BY <2>1, <3>1, <3>2, <3>3, OneMoreLine
    <3>4. next'[r] - 1 = next[r] /\ next'[r] <= Len(body'[r]) + 1
      BY <2>1, <2>3, <3>1
    <3>5. Parsed(r, next[r] - 1)'
      BY <2>1, <3>3, <3>4
    <3>6. \A j \in 1..(next'[r] - 1) : ~body'[r][j].fails
      BY <2>1, <3>2, <3>4
    <3> QED
      BY <2>1, <3>1, <3>4, <3>5, <3>6 DEF ReqInv
  <2> QED
    BY <2>2, <2>3
<1>7. CASE Vanish(r)
  <2>1. Parsed(r, Len(body[r]))' <=> Parsed(r, Len(body[r]))
    BY <1>7, ParsedFrame DEF Vanish
  <2> QED
    BY <1>7, <2>1 DEF Vanish, ReqInv
<1>8. CASE WriteLog(r)
  <2>1. Parsed(r, Len(body[r]))' <=> Parsed(r, Len(body[r]))
    BY <1>8, ParsedFrame DEF WriteLog
  <2> QED
    BY <1>8, <2>1 DEF WriteLog, Insert, ReqInv
<1> QED
  BY <1>1, <1>2, <1>3, <1>4, <1>5, <1>6, <1>7, <1>8 DEF LogStep

\* Whatever happens, every request keeps its invariant.
LEMMA EveryRequest ==
  ASSUME LogTypeOK, \A s \in Requests : ReqInv(s), [LogNext]_logVars
  PROVE  \A s \in Requests : ReqInv(s)'
<1> SUFFICES ASSUME NEW s \in Requests PROVE ReqInv(s)'
  OBVIOUS
<1>1. ASSUME NEW r \in Requests, LogStep(r) PROVE ReqInv(s)'
  <2>1. CASE s = r
    BY <1>1, <2>1, OwnStep
  <2>2. CASE s # r
    <3>1. UNCHANGED accounts
      BY <1>1, RequestTypes
    <3>2. row[s].account \in accounts \cup {NoAccount}
      BY DEF ReqInv
    <3> QED
      BY <1>1, <2>2, <3>1, <3>2, OtherRequests, RequestFrame
  <2> QED
    BY <2>1, <2>2
<1>2. ASSUME NEW a \in Accounts, DeleteAccount(a) PROVE ReqInv(s)'
  <2>1. row'[s] = RowAfterDelete(a, s) /\ accounts' = accounts \ {a}
    BY <1>2 DEF DeleteAccount
  <2>2. row[s] \in Rows /\ row[s].account \in accounts \cup {NoAccount}
    BY DEF LogTypeOK, ReqInv
  <2>3. /\ row'[s].written = row[s].written /\ row'[s].tokens = row[s].tokens
        /\ row'[s].account \in accounts' \cup {NoAccount}
    BY <2>1, <2>2, LogAccountAssumption DEF RowAfterDelete, Rows
  <2> QED
    BY <1>2, <2>3, RequestFrame DEF DeleteAccount, reqLogVars
<1>3. CASE UNCHANGED <<accounts, reqLogVars, row>>
  <2>1. row[s].account \in accounts \cup {NoAccount}
    BY DEF ReqInv
  <2> QED
    BY <1>3, <2>1, RequestFrame DEF reqLogVars
<1> QED
  BY <1>1, <1>2, <1>3 DEF LogNext, Totals, Breakdown, Tick, logVars

-----------------------------------------------------------------------------
(* The pages.                                                                 *)

\* A written row stays; it changes its account only when that is deleted.
Kept ==
  \A r \in Requests : row[r].written =>
    /\ row'[r].written
    /\ row'[r].day = row[r].day /\ row'[r].tokens = row[r].tokens
    /\ row'[r].account = row[r].account \/ row[r].account \notin accounts'

LEMMA RowsStay ==
  ASSUME LogTypeOK, \A s \in Requests : ReqInv(s), [LogNext]_logVars
  PROVE  Kept
<1>1. ASSUME NEW r \in Requests, LogStep(r) PROVE Kept
  <2>1. CASE WriteLog(r)
    <3>1. ~row[r].written
      BY <2>1 DEF WriteLog, ReqInv
    <3>2. \A s \in Requests \ {r} : row'[s] = row[s]
      BY <2>1 DEF WriteLog, Insert, LogTypeOK
    <3> QED
      BY <3>1, <3>2 DEF Kept
  <2>2. CASE ~WriteLog(r)
    BY <1>1, <2>2
    DEF LogStep, Begin, Answer, Fail, OpenStream, Receive, EndBody, Parse, Vanish, Kept
  <2> QED
    BY <2>1, <2>2
<1>2. ASSUME NEW a \in Accounts, DeleteAccount(a) PROVE Kept
  <2>1. \A r \in Requests : row[r] \in Rows /\ row'[r] = RowAfterDelete(a, r)
    BY <1>2 DEF DeleteAccount, LogTypeOK
  <2>2. a \notin accounts'
    BY <1>2 DEF DeleteAccount
  <2> QED
    BY <2>1, <2>2 DEF RowAfterDelete, Kept, Rows
<1>3. CASE UNCHANGED row
  BY <1>3 DEF Kept
<1> QED
  BY <1>1, <1>2, <1>3 DEF LogNext, Totals, Breakdown, Tick, logVars

\* What a query would have counted it still counts later.
LEMMA RowsStayVisible ==
  ASSUME Kept, NEW u, NEW from
  PROVE  UserRows(u, from) \subseteq UserRows(u, from)'
BY DEF Kept, UserRows, Visible

LEMMA PageStep ==
  ASSUME LogTypeOK, PageInv, Kept, [LogNext]_logVars
  PROVE  PageInv'
<1>1. ASSUME NEW u \in Users, NEW d \in Windows, Totals(u, d) PROVE PageInv'
  <2>1. /\ page'.at = "totals" /\ page'.user = u /\ page'.since = today - d
        /\ page'.totals = UserRows(u, today - d) /\ UNCHANGED row
    BY <1>1 DEF Totals
  <2>2. UserRows(page.user, page.since)' = UserRows(u, today - d)
    BY <2>1 DEF UserRows, Visible
  <2> QED
    BY <2>1, <2>2 DEF PageInv, BreakdownCovers
<1>2. CASE Breakdown
  <2>1. page \in Pages /\ page.totals \subseteq UserRows(page.user, page.since)
    BY <1>2 DEF Breakdown, LogTypeOK, PageInv
  <2>2. /\ page'.at = "shown" /\ page'.totals = page.totals
        /\ page'.models = UserRows(page.user, page.since)
    BY <1>2, <2>1 DEF Breakdown, Pages
  <2> QED
    BY <2>1, <2>2 DEF PageInv, BreakdownCovers
<1>3. CASE UNCHANGED page
  <2>1. UserRows(page.user, page.since) \subseteq UserRows(page.user, page.since)'
    BY <1>3, RowsStayVisible
  <2> QED
    BY <1>3, <2>1 DEF PageInv, BreakdownCovers
<1>4. ASSUME NEW r \in Requests, LogStep(r) PROVE UNCHANGED page
  BY <1>4, RequestTypes
<1> QED
  BY <1>1, <1>2, <1>3, <1>4 DEF LogNext, DeleteAccount, Tick, logVars

-----------------------------------------------------------------------------
(* Theorems.                                                                  *)

LEMMA LogInitially == LogInit => LogInv
<1> SUFFICES ASSUME LogInit PROVE LogInv
  OBVIOUS
<1>1. LogTypeOK
  <2>1. NoRow \in Rows /\ NoTokens \in [Fields -> Values]
    BY DEF NoRow, Rows, NoTokens, Values
  <2>2. page \in Pages
    <3>1. PICK u \in Users, d \in Windows :
            page = [at |-> "shown", user |-> u, days |-> d, since |-> 0 - d,
                    totals |-> {}, models |-> {}]
      BY DEF LogInit
    <3>2. 0 - d \in Int
      BY BoundsAssumption
    <3> QED
      BY <3>1, <3>2 DEF Pages
  <2>3. << >> \in Seq(Lines)
    OBVIOUS
  <2> QED
    BY <2>1, <2>2, <2>3 DEF LogInit, LogTypeOK
<1>2. ASSUME NEW r \in Requests PROVE ReqInv(r)
  BY DEF LogInit, ReqInv, NoRow
<1>3. PageInv
  BY DEF LogInit, PageInv, BreakdownCovers
<1> QED
  BY <1>1, <1>2, <1>3 DEF LogInv

LEMMA LogInvariant == LogSpec => []LogInv
<1>1. LogInv /\ [LogNext]_logVars => LogInv'
  BY TypeStep, EveryRequest, RowsStay, PageStep DEF LogInv
<1> QED
  BY <1>1, LogInitially, PTL DEF LogSpec

\* Every variable keeps its type: a row has a date, and token numbers or NULL.
THEOREM LogTypeCorrect == LogSpec => []LogTypeOK
BY LogInvariant, PTL DEF LogInv

\* However long a stream is and in whatever order its events come, its row has the
\* last word on every token column.
THEOREM LastWordIsLogged == LogSpec => []UsageIsLastWord
<1>1. LogInv => UsageIsLastWord
  BY LogUsersAssumption DEF LogInv, ReqInv, UsageIsLastWord, Parsed
<1> QED
  BY <1>1, LogInvariant, PTL

\* No row has token numbers from an answer that broke off.
THEOREM TokensNeverPartial == LogSpec => []TokensMeanWhole
<1>1. LogInv => TokensMeanWhole
  BY DEF LogInv, ReqInv, TokensMeanWhole
<1> QED
  BY <1>1, LogInvariant, PTL

\* The breakdown of a usage page covers its totals.
THEOREM BreakdownAlwaysCovers == LogSpec => []BreakdownCovers
BY LogInvariant, PTL DEF LogInv, PageInv

\* The page of the accounts names no account that is gone.
THEOREM RowsAlwaysNameAccounts == LogSpec => []RowsNameAccounts
<1>1. LogInv => RowsNameAccounts
  BY LogAccountAssumption
  DEF LogInv, ReqInv, RowsNameAccounts, AccountRows, Visible
<1> QED
  BY <1>1, LogInvariant, PTL

\* What is logged stays logged.
THEOREM HistoryIsKept == LogSpec => HistoryKept
<1>1. LogInv /\ [LogNext]_logVars => Kept
  BY RowsStay DEF LogInv
<1> QED
  BY <1>1, LogInvariant, PTL DEF LogSpec, HistoryKept, Kept
=============================================================================

---------------------------- MODULE BrowserProofs ----------------------------
(***************************************************************************)
(* Theorems about Browser, for any number of pages, tokens and requests,   *)
(* whatever answers are lost and however they overtake each other.         *)
(***************************************************************************)
EXTENDS Browser, SessionsProofs

USE TokensAssumption, ArgumentsAssumption, PagesAssumption

(* What a step does to the requests and the sessions, as far as the pages  *)
(* can tell.                                                               *)
Kept == \A t \in Tokens : /\ session[t] # "unused" => session'[t] # "unused"
                          /\ session[t] = "over" => session'[t] = "over"
Alone(r) == \A q \in Requests \ {r} :
  kind'[q] = kind[q] /\ at'[q] = at[q] /\ arg'[q] = arg[q]
Ended(r) == kind'[r] = "none" /\ at'[r] = "idle"

LEMMA NoArgIsNone == NoArg \notin Tokens
OBVIOUS

LEMMA BeginEffect ==
  ASSUME TypeOK, NEW r \in Requests, BeginAny(r)
  PROVE  /\ at[r] = "idle" /\ at'[r] \in {"revoke", "commit", "email"}
         /\ kind'[r] \notin {"none", "refresh"} /\ session' = session /\ Alone(r)
<1>1. ASSUME NEW k \in {"register", "login", "signin", "unlink", "profile", "reset",
                        "change", "delete"},
             NEW stage \in {"revoke", "commit", "email"}, NEW a, NEW e,
             Begin(r, k, stage, a, e)
      PROVE  /\ at[r] = "idle" /\ at'[r] \in {"revoke", "commit", "email"}
             /\ kind'[r] \notin {"none", "refresh"} /\ session' = session /\ Alone(r)
  BY <1>1 DEF TypeOK, Begin, Alone, ledger
<1>2. ASSUME NEW d, ResetBegin(r, d)
      PROVE  Begin(r, "reset", "revoke", d, epoch)
  BY <1>2 DEF ResetBegin
<1>3. ASSUME NEW p, SignInBegin(r, p) \/ UnlinkBegin(r, p)
      PROVE  \E k \in {"signin", "unlink"}, s \in {"commit", "email"} : Begin(r, k, s, p, epoch)
  BY <1>3 DEF SignInBegin, UnlinkBegin
<1>4. ASSUME RegisterBegin(r) \/ LoginBegin(r) \/ ChangeBegin(r) \/ DeleteBegin(r)
             \/ ProfileBegin(r)
      PROVE  \E k \in {"register", "login", "change", "delete", "profile"},
                s \in {"commit", "revoke"} : Begin(r, k, s, NoArg, epoch)
  BY <1>4 DEF RegisterBegin, LoginBegin, ChangeBegin, DeleteBegin, ProfileBegin
<1> QED BY <1>1, <1>2, <1>3, <1>4 DEF BeginAny

LEMMA RenewEffect ==
  ASSUME TypeOK, NEW r \in Requests, NEW t \in Tokens, RefreshBegin(r, t)
  PROVE  /\ at[r] = "idle" /\ kind'[r] = "refresh" /\ arg'[r] = t
         /\ at'[r] = IF session[t] = "live" THEN "user" ELSE "refused"
         /\ session[t] # "unused" /\ session' = session /\ Alone(r)
BY DEF TypeOK, RefreshBegin, Begin, Alone, ledger

LEMMA EndEffect ==
  ASSUME TypeOK, NEW r \in Requests, End(r)
  PROVE  Ended(r) /\ Alone(r)
BY DEF TypeOK, End, Ended, Alone

LEMMA WorkEffect ==
  ASSUME TypeOK, NEW r \in Requests, Work(r)
  PROVE  /\ at[r] \notin {"idle", "answer"} /\ Kept /\ Alone(r)
         /\ \/ Ended(r)
            \/ /\ kind'[r] = kind[r] /\ arg'[r] = arg[r] /\ kind[r] # "none"
               /\ at'[r] = "commit" \/ (at'[r] = "refused" /\ kind[r] = "refresh")
<1>1. CASE RefreshUser(r)
  BY <1>1 DEF TypeOK, RefreshUser, Goto, Kept, Alone, ledger
<1>2. CASE SignInEmail(r)
  <2>1. CASE End(r)
    BY <1>2, <2>1, EndEffect DEF SignInEmail, Kept, ledger
  <2>2. CASE Goto(r, "commit")
    BY <1>2, <2>2 DEF TypeOK, SignInEmail, Goto, Kept, Alone, ledger
  <2> QED BY <1>2, <2>1, <2>2 DEF SignInEmail
<1>3. CASE RevokeAll(r)
  BY <1>3 DEF TypeOK, RevokeAll, Kept, Alone, ledger, Changers
<1>4. CASE ResetCommit(r) \/ DeleteCommit(r)
  BY <1>4, EndEffect DEF ResetCommit, DeleteCommit, Closed, Kept
<1>5. CASE ProfileCommit(r) \/ UnlinkCommit(r) \/ Fail(r)
  BY <1>5, EndEffect DEF ProfileCommit, UnlinkCommit, Fail, Running, Kept, ledger
<1> QED BY <1>1, <1>2, <1>3, <1>4, <1>5 DEF Work

LEMMA PairEffect ==
  ASSUME TypeOK, NEW r \in Requests, NEW t \in Tokens, CommitPair(r, t)
  PROVE  /\ at[r] = "commit" /\ kind[r] # "none" /\ session[t] = "unused"
         /\ kind'[r] = "none" /\ at'[r] = "answer" /\ arg'[r] = t
         /\ session'[t] = "live" /\ Kept /\ Alone(r)
         /\ kind[r] = "refresh" /\ arg[r] \in Tokens /\ arg[r] # t => session'[arg[r]] = "over"
<1>1. Issue(r, t, asOf[r]) \/ Issue(r, t, IF asOf[r] = 0 THEN 0 ELSE epoch + 1)
  BY DEF CommitPair, RegisterCommit, LoginCommit, RefreshCommit, ChangeCommit, SignInCommit
<1>2. /\ session[t] = "unused" /\ kind'[r] = "none" /\ at'[r] = "answer" /\ arg'[r] = t
      /\ Alone(r)
  BY <1>1 DEF TypeOK, Issue, Alone
<1>3. CASE RegisterCommit(r, t) \/ LoginCommit(r, t) \/ SignInCommit(r, t)
  BY <1>2, <1>3 DEF TypeOK, RegisterCommit, LoginCommit, SignInCommit, Kept
<1>4. CASE RefreshCommit(r, t)
  BY <1>2, <1>4 DEF TypeOK, RefreshCommit, Kept
<1>5. CASE ChangeCommit(r, t)
  BY <1>2, <1>5 DEF TypeOK, ChangeCommit, Closed, Kept
<1> QED BY <1>2, <1>3, <1>4, <1>5 DEF CommitPair
-----------------------------------------------------------------------------
LEMMA LineFields ==
  ASSUME BrowserTypeOK, NEW u \in Tokens, NEW a, NEW g, NEW w
  PROVE  line[u] = [of |-> a, page |-> g, how |-> w] <=>
           line[u].of = a /\ line[u].page = g /\ line[u].how = w
BY DEF BrowserTypeOK

(* Every step of the browser is a step of the sessions.                    *)
LEMMA NextIsNext == [BrowserNext]_allVars => [Next]_vars
<1> SUFFICES ASSUME [BrowserNext]_allVars PROVE [Next]_vars
  OBVIOUS
<1>1. ASSUME NEW r \in Requests, NEW g \in Pages,
             Load(r, g) \/ Renew(r, g) \/ Submit(r, g)
      PROVE  Next
  BY <1>1 DEF Load, Renew, Submit, Next
<1>2. ASSUME NEW r \in Requests, NEW t \in Tokens, ServePair(r, t) PROVE Next
  BY <1>2 DEF ServePair, Next
<1>3. ASSUME NEW r \in Requests, Serve(r) \/ Arrive(r) \/ Lose(r) PROVE Next
  BY <1>3 DEF Serve, Arrive, Lose, Next
<1>4. Logout \/ (\E g \in Pages : LoadAnonymous(g)) => UNCHANGED vars
  BY DEF Logout, LoadAnonymous
<1>5. Elsewhere => Next
  BY DEF Elsewhere, Next
<1>6. UNCHANGED allVars => UNCHANGED vars
  BY DEF allVars
<1> QED BY <1>1, <1>2, <1>3, <1>4, <1>5, <1>6 DEF BrowserNext

LEMMA BrowserTypes == StageOK /\ BrowserTypeOK /\ [BrowserNext]_allVars => BrowserTypeOK'
<1> SUFFICES ASSUME StageOK, BrowserTypeOK, [BrowserNext]_allVars PROVE BrowserTypeOK'
  OBVIOUS
<1>1. ASSUME NEW r \in Requests, NEW g \in Pages,
             Load(r, g) \/ Renew(r, g) \/ Submit(r, g)
      PROVE  BrowserTypeOK'
  BY <1>1 DEF Load, Renew, Submit, Sends, BrowserTypeOK, Ways
<1>2. ASSUME NEW r \in Requests, NEW t \in Tokens, ServePair(r, t) PROVE BrowserTypeOK'
  <2>1. kind[r] = "refresh" => arg[r] \in Tokens
    BY DEF StageOK
  <2> QED BY <1>2, <2>1 DEF ServePair, BrowserTypeOK, Ways
<1>3. ASSUME NEW r \in Requests, Serve(r) PROVE BrowserTypeOK'
  BY <1>3 DEF Serve, Forgets, BrowserTypeOK, Ways
<1>4. ASSUME NEW r \in Requests, Arrive(r) \/ Lose(r) PROVE BrowserTypeOK'
  BY <1>4 DEF Arrive, Lose, Forgets, BrowserTypeOK, StageOK, Ways
<1>5. CASE Logout \/ Elsewhere \/ (\E g \in Pages : LoadAnonymous(g)) \/ UNCHANGED allVars
  BY <1>5 DEF Logout, Elsewhere, LoadAnonymous, browser, allVars, BrowserTypeOK, Ways
<1> QED BY <1>1, <1>2, <1>3, <1>4, <1>5 DEF BrowserNext
-----------------------------------------------------------------------------
Flow == StageOK /\ AnswersOK /\ LineOK /\ FlightOK /\ LoadedOnce /\ ForkTakesLoad

(* Whatever leaves the cookie and the lines alone, brings no request to an *)
(* answer and no page to a refresh, keeps the rest.                        *)
LEMMA QuietStep ==
  ASSUME BrowserInv, NEW r \in Requests, Kept, Alone(r), BrowserTypeOK',
         cookie' = cookie \/ cookie' = NoArg, line' = line, lost' = lost,
         \A q \in Requests \ {r} : page'[q] = page[q] /\ how'[q] = how[q],
         how'[r] = "other" \/ (how'[r] = how[r] /\ page'[r] = page[r]),
         loaded \subseteq loaded',
         at[r] # "answer", at'[r] # "answer",
         \/ Ended(r)
         \/ kind'[r] \notin {"none", "refresh"} /\ at'[r] \in {"email", "revoke", "commit"}
         \/ /\ kind[r] = "refresh" /\ kind'[r] = "refresh" /\ arg'[r] = arg[r]
            /\ page'[r] = page[r] /\ how'[r] = how[r] /\ at[r] # "refused" /\ at'[r] \in {"commit", "refused"}
  PROVE  Flow'
<1>0. /\ StageOK /\ AnswersOK /\ LineOK /\ FlightOK /\ LoadedOnce /\ ForkTakesLoad
      /\ BrowserTypeOK /\ TypeOK /\ NoArg \notin Tokens
  BY NoArgIsNone DEF BrowserInv
<1>1. \A q \in Requests : q # r => kind'[q] = kind[q] /\ at'[q] = at[q] /\ arg'[q] = arg[q]
                                     /\ page'[q] = page[q] /\ how'[q] = how[q]
  BY DEF Alone
<1>2. \A q \in Requests : kind'[q] = "refresh" =>
        /\ kind[q] = "refresh" /\ arg'[q] = arg[q]
        /\ page'[q] = page[q] /\ how'[q] = how[q]
  BY <1>1 DEF Ended
<1>3. \A q \in Requests : (at'[q] = "answer") = (at[q] = "answer")
                            /\ (at[q] = "answer" => q # r)
  BY <1>1
<1>4. StageOK'
  <2> SUFFICES ASSUME NEW q \in Requests
               PROVE  /\ at'[q] \in {"idle", "answer"} <=> kind'[q] = "none"
                      /\ at'[q] \in {"user", "refused"} => kind'[q] = "refresh"
                      /\ kind'[q] = "refresh" => at'[q] \in {"user", "commit", "refused"}
                      /\ kind'[q] = "refresh" \/ at'[q] = "answer" =>
                           arg'[q] \in Tokens /\ session'[arg'[q]] # "unused"
    BY DEF StageOK
  <2>1. /\ at[q] \in {"idle", "answer"} <=> kind[q] = "none"
        /\ at[q] \in {"user", "refused"} => kind[q] = "refresh"
        /\ kind[q] = "refresh" => at[q] \in {"user", "commit", "refused"}
        /\ kind[q] = "refresh" \/ at[q] = "answer" =>
             arg[q] \in Tokens /\ session[arg[q]] # "unused" /\ session'[arg[q]] # "unused"
    BY <1>0 DEF StageOK, Kept
  <2>2. CASE q # r
    BY <1>1, <2>1, <2>2
  <2>3. CASE q = r /\ Ended(r)
    BY <2>3 DEF Ended
  <2>4. CASE q = r /\ ~Ended(r)
    BY <2>1, <2>4
  <2> QED BY <2>2, <2>3, <2>4
<1>5. \A t \in Tokens : Presented(t)' => Presented(t)
  BY <1>0, <1>2 DEF Presented
<1>6. AnswersOK'
  <2>1. cookie' \in Tokens => session'[cookie'] # "unused"
    BY <1>0 DEF AnswersOK, Kept
  <2>2. ASSUME NEW q \in Requests, at'[q] = "answer"
        PROVE  /\ ~Presented(arg[q]) /\ arg'[q] = arg[q] /\ arg[q] \in Tokens
               /\ \A p \in Requests : at'[p] = "answer" /\ arg'[p] = arg[q] => p = q
    BY <1>0, <1>1, <1>3, <2>2 DEF AnswersOK, StageOK
  <2>3. ASSUME NEW q \in Requests, at'[q] = "answer"
        PROVE  ~Presented(arg[q])'
    <3>1. arg'[q] = arg[q] /\ arg[q] \in Tokens /\ ~Presented(arg[q])
      BY <2>2, <2>3
    <3>2. ASSUME NEW t \in Tokens, t = arg'[q], Presented(t)' PROVE FALSE
      BY <1>5, <3>1, <3>2
    <3> QED BY <3>1, <3>2 DEF Presented
  <2> QED BY <2>1, <2>2, <2>3 DEF AnswersOK
<1>7. LineOK'
  <2>1. \A u \in Tokens : OnItsWay(u) => OnItsWay(u)'
    BY <1>1, <1>3 DEF OnItsWay
  <2>2. \A u \in Tokens : line[u].of \in Tokens \cup {NoArg}
    BY <1>0 DEF BrowserTypeOK
  <2> QED BY <1>0, <2>1, <2>2 DEF LineOK, Kept
<1>8. FlightOK'
  <2>1. \A q \in Requests : Renewing(q)' =>
          Renewing(q) /\ page'[q] = page[q] /\ how'[q] = how[q]
    BY <1>1, <1>2, <1>3 DEF Renewing
  <2>2. \A q \in Requests : kind'[q] = "refresh" /\ at[q] = "refused" => at'[q] = "refused"
    BY <1>1, <1>2 DEF Ended
  <2> QED BY <1>0, <1>2, <2>1, <2>2 DEF FlightOK
<1>9. LoadedOnce' /\ ForkTakesLoad'
  BY <1>0, <1>1 DEF LoadedOnce, ForkTakesLoad
<1> QED BY <1>4, <1>6, <1>7, <1>8, <1>9 DEF Flow

LEMMA SubmitKeeps ==
  ASSUME BrowserInv, NEW r \in Requests, NEW g \in Pages, Submit(r, g), BrowserTypeOK'
  PROVE  Flow'
<1>1. TypeOK /\ BrowserTypeOK
  BY DEF BrowserInv
<1>2. /\ at[r] = "idle" /\ at'[r] \in {"revoke", "commit", "email"}
      /\ kind'[r] \notin {"none", "refresh"} /\ session' = session /\ Alone(r)
  BY <1>1, BeginEffect DEF Submit
<1>3. /\ UNCHANGED <<cookie, loaded, line, lost>> /\ how'[r] = "other"
      /\ \A q \in Requests \ {r} : page'[q] = page[q] /\ how'[q] = how[q]
  BY <1>1 DEF Submit, Sends, BrowserTypeOK
<1>4. Kept
  BY <1>2 DEF Kept
<1> QED BY <1>2, <1>3, <1>4, QuietStep

LEMMA ServeKeeps ==
  ASSUME BrowserInv, NEW r \in Requests, Serve(r), BrowserTypeOK'
  PROVE  Flow'
<1>1. TypeOK /\ BrowserTypeOK /\ StageOK
  BY DEF BrowserInv
<1>2. /\ at[r] \notin {"idle", "answer"} /\ Kept /\ Alone(r)
      /\ \/ Ended(r)
         \/ /\ kind'[r] = kind[r] /\ arg'[r] = arg[r] /\ kind[r] # "none"
            /\ at'[r] = "commit" \/ (at'[r] = "refused" /\ kind[r] = "refresh")
  BY <1>1, WorkEffect DEF Serve
<1>3. at[r] # "refused"
  BY <1>1 DEF Serve, Work, RefreshUser, SignInEmail, RevokeAll, ResetCommit, DeleteCommit,
              ProfileCommit, UnlinkCommit, Fail, Running
<1>4. /\ cookie' = cookie \/ cookie' = NoArg
      /\ line' = line /\ lost' = lost /\ loaded' = loaded
      /\ \A q \in Requests \ {r} : page'[q] = page[q] /\ how'[q] = how[q]
      /\ at'[r] # "idle" => page'[r] = page[r] /\ how'[r] = how[r]
      /\ at'[r] = "idle" => how'[r] = "other"
  BY <1>1 DEF Serve, Forgets, BrowserTypeOK
<1>5. at'[r] # "answer"
  BY <1>2 DEF Ended
<1>6. CASE Ended(r)
  BY <1>2, <1>4, <1>5, <1>6, QuietStep
<1>7. CASE kind'[r] = kind[r] /\ kind[r] \notin {"none", "refresh"} /\ at'[r] = "commit"
  BY <1>2, <1>4, <1>5, <1>7, QuietStep
<1>8. CASE /\ kind[r] = "refresh" /\ kind'[r] = "refresh" /\ arg'[r] = arg[r]
           /\ at'[r] \in {"commit", "refused"}
  BY <1>2, <1>3, <1>4, <1>5, <1>8, QuietStep
<1> QED BY <1>2, <1>6, <1>7, <1>8

LEMMA StillKeeps ==
  ASSUME BrowserInv,
         Logout \/ Elsewhere \/ (\E g \in Pages : LoadAnonymous(g)) \/ UNCHANGED allVars
  PROVE  Flow'
<1>0. /\ StageOK /\ AnswersOK /\ LineOK /\ FlightOK /\ LoadedOnce /\ ForkTakesLoad
      /\ BrowserTypeOK /\ TypeOK /\ NoArg \notin Tokens
  BY NoArgIsNone DEF BrowserInv
<1>1. /\ UNCHANGED <<kind, at, arg, page, how, line, lost>> /\ Kept
      /\ cookie' = cookie \/ cookie' = NoArg
      /\ loaded \subseteq loaded'
  BY <1>0 DEF Logout, Elsewhere, LoadAnonymous, MailLink, Expire, allVars, browser, vars, request, ledger,
              Kept, TypeOK
<1>2. \A t \in Tokens : Presented(t)' => Presented(t)
  BY <1>0, <1>1 DEF Presented
<1>3. \A u \in Tokens : line[u].of \in Tokens \cup {NoArg}
  BY <1>0 DEF BrowserTypeOK
<1>4. StageOK' /\ FlightOK' /\ LoadedOnce' /\ ForkTakesLoad'
  <2>1. \A q \in Requests : /\ kind'[q] = kind[q] /\ at'[q] = at[q] /\ arg'[q] = arg[q]
                             /\ Renewing(q)' = Renewing(q)
    BY <1>1 DEF Renewing
  <2>2. StageOK'
    BY <1>0, <1>1, <2>1 DEF StageOK, Kept
  <2>3. FlightOK'
    BY <1>0, <1>1, <2>1 DEF FlightOK
  <2>4. LoadedOnce' /\ ForkTakesLoad'
    BY <1>0, <1>1 DEF LoadedOnce, ForkTakesLoad
  <2> QED BY <2>2, <2>3, <2>4
<1>5. AnswersOK'
  <2>1. cookie' \in Tokens => session'[cookie'] # "unused"
    BY <1>0, <1>1 DEF AnswersOK, Kept
  <2>2. ASSUME NEW q \in Requests, at[q] = "answer" PROVE ~Presented(arg[q])'
    <3>1. arg' = arg /\ arg[q] \in Tokens /\ ~Presented(arg[q])
      BY <1>0, <1>1, <2>2 DEF AnswersOK, StageOK
    <3>2. ASSUME NEW t \in Tokens, t = arg[q], Presented(t)' PROVE FALSE
      BY <1>2, <3>1, <3>2
    <3> QED BY <3>1, <3>2 DEF Presented
  <2> QED BY <1>0, <1>1, <2>1, <2>2 DEF AnswersOK
<1>6. LineOK'
  BY <1>0, <1>1, <1>3 DEF LineOK, Kept, OnItsWay
<1> QED BY <1>4, <1>5, <1>6 DEF Flow

(* The cookie's token has no exchange of this page that arrived: one on    *)
(* its way would hold the page back, any other has replaced the cookie.    *)
LEMMA RenewKeeps ==
  ASSUME BrowserInv, NEW r \in Requests, NEW g \in Pages, NEW w \in {"load", "silent"},
         cookie \in Tokens, RefreshBegin(r, cookie), Sends(r, g, w),
         loaded' = loaded \cup {g}, BrowserTypeOK',
         \A q \in Requests : page[q] = g /\ how[q] = w => ~Renewing(q)
  PROVE  Flow'
<1> DEFINE c == cookie
<1>0. /\ StageOK /\ AnswersOK /\ LineOK /\ FlightOK /\ LoadedOnce /\ ForkTakesLoad
      /\ BrowserTypeOK /\ TypeOK /\ NoArg \notin Tokens
  BY NoArgIsNone DEF BrowserInv
<1>1. /\ at[r] = "idle" /\ kind'[r] = "refresh" /\ arg'[r] = c /\ c \in Tokens
      /\ at'[r] = (IF session[c] = "live" THEN "user" ELSE "refused")
      /\ session[c] # "unused" /\ session' = session
  BY <1>0, RenewEffect DEF Renew
<1>2. /\ UNCHANGED <<cookie, line, lost>> /\ page'[r] = g /\ how'[r] = w
      /\ \A q \in Requests : q # r =>
           /\ kind'[q] = kind[q] /\ at'[q] = at[q] /\ arg'[q] = arg[q]
           /\ page'[q] = page[q] /\ how'[q] = how[q]
  <2>1. Alone(r)
    BY <1>0, RenewEffect DEF Renew
  <2>2. \A q \in Requests : q # r =>
          kind'[q] = kind[q] /\ at'[q] = at[q] /\ arg'[q] = arg[q]
    BY <2>1 DEF Alone
  <2>3. /\ UNCHANGED <<cookie, line, lost>> /\ page'[r] = g /\ how'[r] = w
        /\ \A q \in Requests : q # r => page'[q] = page[q] /\ how'[q] = how[q]
    BY <1>0 DEF Sends, BrowserTypeOK
  <2> QED BY <2>2, <2>3
<1> HIDE DEF c
<1>3. StageOK'
  BY <1>0, <1>1, <1>2 DEF StageOK
<1>4. \A t \in Tokens : Presented(t)' => Presented(t)
  BY <1>1, <1>2 DEF Presented, c
<1>5. AnswersOK'
  <2>1. cookie' \in Tokens => session'[cookie'] # "unused"
    BY <1>0, <1>1, <1>2 DEF AnswersOK
  <2>2. ASSUME NEW q \in Requests, at'[q] = "answer"
        PROVE  /\ q # r /\ ~Presented(arg[q]) /\ arg'[q] = arg[q] /\ arg[q] \in Tokens
               /\ \A p \in Requests : at'[p] = "answer" /\ arg'[p] = arg[q] => p = q
    BY <1>0, <1>1, <1>2, <2>2 DEF AnswersOK, StageOK
  <2>3. ASSUME NEW q \in Requests, at'[q] = "answer" PROVE ~Presented(arg[q])'
    <3>1. arg'[q] = arg[q] /\ arg[q] \in Tokens /\ ~Presented(arg[q])
      BY <2>2, <2>3
    <3>2. ASSUME NEW t \in Tokens, t = arg'[q], Presented(t)' PROVE FALSE
      BY <1>4, <3>1, <3>2
    <3> QED BY <3>1, <3>2 DEF Presented
  <2> QED BY <2>1, <2>2, <2>3 DEF AnswersOK
<1>6. LineOK'
  <2>1. \A u \in Tokens : OnItsWay(u) => OnItsWay(u)'
    BY <1>1, <1>2 DEF OnItsWay
  <2> QED BY <1>0, <1>1, <1>2, <2>1 DEF LineOK
<1>7. FlightOK'
  <2>1. \A q \in Requests : q # r => (Renewing(q)' <=> Renewing(q))
    BY <1>2 DEF Renewing
  <2>2. ASSUME NEW p \in Requests, kind'[p] = "refresh", NEW q \in Requests,
               page'[q] = page'[p], how'[q] = how'[p], Renewing(q)'
        PROVE  q = p
    <3>1. kind'[p] = "refresh" => Renewing(p)'
      BY DEF Renewing
    <3> QED BY <1>0, <1>2, <2>1, <2>2, <3>1 DEF FlightOK
  <2>3. ASSUME NEW u \in Tokens, line[u].of = c, line[u].page = g, line[u].how = w
        PROVE  u \in lost /\ session[c] = "over"
    <3>1. session[c] = "over" /\ (u \in lost \/ OnItsWay(u))
      BY <1>0, <1>1, <2>3 DEF LineOK, c
    <3>2. ASSUME NEW q \in Requests, at[q] = "answer", arg[q] = u,
                 page[q] = line[u].page, how[q] = line[u].how
          PROVE  FALSE
      BY <1>0, <1>1, <1>2, <2>3, <3>2 DEF Renewing
    <3> QED BY <3>1, <3>2 DEF OnItsWay
  <2>4. ASSUME NEW p \in Requests, kind'[p] = "refresh", NEW u \in Tokens,
               line'[u] = [of |-> arg'[p], page |-> page'[p], how |-> how'[p]]
        PROVE  u \in lost' /\ at'[p] = "refused"
    <3>1. CASE p = r
      <4>1. line[u] = [of |-> c, page |-> g, how |-> w]
        BY <1>1, <1>2, <2>4, <3>1
      <4>2. line[u].of = c /\ line[u].page = g /\ line[u].how = w
        BY <1>0, <4>1, LineFields
      <4> QED BY <1>1, <1>2, <2>3, <3>1, <4>2
    <3>2. CASE p # r
      BY <1>0, <1>2, <2>4, <3>2 DEF FlightOK
    <3> QED BY <3>1, <3>2
  <2> QED BY <2>2, <2>4 DEF FlightOK
<1>8. LoadedOnce' /\ ForkTakesLoad'
  BY <1>0, <1>2 DEF LoadedOnce, ForkTakesLoad
<1> QED BY <1>3, <1>5, <1>6, <1>7, <1>8 DEF Flow

LEMMA PairKeeps ==
  ASSUME BrowserInv, NEW r \in Requests, NEW t \in Tokens, ServePair(r, t), BrowserTypeOK'
  PROVE  Flow'
<1> DEFINE o == IF kind[r] = "refresh" THEN arg[r] ELSE NoArg
<1>0. /\ StageOK /\ AnswersOK /\ LineOK /\ FlightOK /\ LoadedOnce /\ ForkTakesLoad
      /\ BrowserTypeOK /\ TypeOK /\ NoArg \notin Tokens
  BY NoArgIsNone DEF BrowserInv
<1>1. /\ at[r] = "commit" /\ kind[r] # "none" /\ session[t] = "unused"
      /\ kind'[r] = "none" /\ at'[r] = "answer" /\ arg'[r] = t
      /\ session'[t] = "live" /\ Kept /\ Alone(r)
      /\ kind[r] = "refresh" /\ arg[r] \in Tokens /\ arg[r] # t => session'[arg[r]] = "over"
  BY <1>0, PairEffect DEF ServePair
<1>2. /\ UNCHANGED <<cookie, page, how, loaded, lost>>
      /\ line'[t].of = o /\ line'[t].page = page[r] /\ line'[t].how = how[r]
      /\ \A u \in Tokens : u # t => line'[u] = line[u]
  BY <1>0 DEF ServePair, BrowserTypeOK
<1>3. o # NoArg => kind[r] = "refresh" /\ arg[r] = o /\ o \in Tokens /\ o # t
                     /\ session[o] # "unused" /\ session'[o] = "over"
  BY <1>0, <1>1 DEF StageOK
<1>4. \A q \in Requests : q # r => kind'[q] = kind[q] /\ at'[q] = at[q] /\ arg'[q] = arg[q]
  BY <1>1 DEF Alone
<1> HIDE DEF o
<1>5. /\ line[t].of = NoArg /\ cookie # t
      /\ \A u \in Tokens : line[u].of # t
      /\ \A q \in Requests : kind[q] = "refresh" \/ at[q] = "answer" => arg[q] # t
  <2>1. cookie # t /\ line[t].of = NoArg
    BY <1>0, <1>1 DEF AnswersOK, LineOK
  <2>2. \A u \in Tokens : line[u].of # t
    BY <1>0, <1>1 DEF LineOK
  <2>3. \A q \in Requests : kind[q] = "refresh" \/ at[q] = "answer" => arg[q] # t
    BY <1>0, <1>1 DEF StageOK
  <2> QED BY <2>1, <2>2, <2>3
<1>6. StageOK'
  <2> SUFFICES ASSUME NEW q \in Requests
               PROVE  /\ at'[q] \in {"idle", "answer"} <=> kind'[q] = "none"
                      /\ at'[q] \in {"user", "refused"} => kind'[q] = "refresh"
                      /\ kind'[q] = "refresh" => at'[q] \in {"user", "commit", "refused"}
                      /\ kind'[q] = "refresh" \/ at'[q] = "answer" =>
                           arg'[q] \in Tokens /\ session'[arg'[q]] # "unused"
    BY DEF StageOK
  <2>1. CASE q = r
    BY <1>1, <2>1
  <2>2. CASE q # r
    <3>1. /\ at[q] \in {"idle", "answer"} <=> kind[q] = "none"
          /\ at[q] \in {"user", "refused"} => kind[q] = "refresh"
          /\ kind[q] = "refresh" => at[q] \in {"user", "commit", "refused"}
      BY <1>0 DEF StageOK
    <3>2. kind[q] = "refresh" \/ at[q] = "answer" =>
            arg[q] \in Tokens /\ session'[arg[q]] # "unused"
      BY <1>0, <1>1 DEF StageOK, Kept
    <3> QED BY <1>4, <2>2, <3>1, <3>2
  <2> QED BY <2>1, <2>2
<1>7. \A q \in Requests : kind'[q] = "refresh" => q # r /\ kind[q] = "refresh" /\ arg'[q] = arg[q]
  BY <1>1, <1>4
<1>8. \A u \in Tokens : Presented(u)' => Presented(u)
  <2>1. ASSUME NEW u \in Tokens, NEW w \in Tokens, line'[w].of = u PROVE Presented(u)
    <3>1. CASE w = t
      BY <1>0, <1>2, <1>3, <2>1, <3>1 DEF Presented
    <3>2. CASE w # t
      BY <1>2, <2>1, <3>2 DEF Presented
    <3> QED BY <3>1, <3>2
  <2>2. ASSUME NEW u \in Tokens, NEW q \in Requests, kind'[q] = "refresh", arg'[q] = u
        PROVE  Presented(u)
    BY <1>7, <2>2 DEF Presented
  <2>3. ASSUME NEW u \in Tokens, cookie' = u PROVE Presented(u)
    BY <1>2, <2>3 DEF Presented
  <2> QED BY <2>1, <2>2, <2>3 DEF Presented
<1>9. AnswersOK'
  <2>1. cookie' \in Tokens => session'[cookie'] # "unused"
    BY <1>0, <1>1, <1>2 DEF AnswersOK, Kept
  <2>2. ~Presented(t)
    BY <1>5 DEF Presented
  <2>3. ASSUME NEW q \in Requests, at'[q] = "answer"
        PROVE  /\ arg'[q] \in Tokens /\ ~Presented(arg'[q])
               /\ \A p \in Requests : at'[p] = "answer" /\ arg'[p] = arg'[q] => p = q
    <3>1. CASE q = r
      BY <1>1, <1>4, <1>5, <2>2, <3>1
    <3>2. CASE q # r
      BY <1>0, <1>1, <1>4, <1>5, <2>3, <3>2 DEF AnswersOK, StageOK
    <3> QED BY <3>1, <3>2
  <2>4. ASSUME NEW q \in Requests, at'[q] = "answer" PROVE ~Presented(arg[q])'
    <3>1. ASSUME NEW u \in Tokens, u = arg'[q], Presented(u)' PROVE FALSE
      BY <1>8, <2>3, <2>4, <3>1
    <3> QED BY <2>3, <2>4, <3>1 DEF Presented
  <2> QED BY <2>1, <2>3, <2>4 DEF AnswersOK
<1>10. LineOK'
  <2>1. ASSUME NEW u \in Tokens, u # t, OnItsWay(u) PROVE OnItsWay(u)'
    BY <1>1, <1>2, <1>4, <2>1 DEF OnItsWay
  <2>2. OnItsWay(t)'
    BY <1>1, <1>2 DEF OnItsWay
  <2>3. \A u \in Tokens : line[u].of \in Tokens \cup {NoArg}
    BY <1>0 DEF BrowserTypeOK
  <2>4. ASSUME NEW u \in Tokens, line'[u].of # NoArg
        PROVE  /\ session'[u] # "unused" /\ session'[line'[u].of] = "over"
               /\ u \in lost' \/ OnItsWay(u)' \/ cookie' # line'[u].of
    <3>1. CASE u = t
      BY <1>1, <1>2, <1>3, <2>2, <2>4, <3>1
    <3>2. CASE u # t
      <4>1. line'[u] = line[u] /\ line[u].of \in Tokens
        BY <1>2, <2>3, <2>4, <3>2
      <4> QED BY <1>0, <1>1, <1>2, <2>1, <2>4, <3>2, <4>1 DEF LineOK, Kept
    <3> QED BY <3>1, <3>2
  <2> QED BY <2>4 DEF LineOK
<1>11. FlightOK'
  <2>1. ASSUME NEW q \in Requests, Renewing(q)' PROVE Renewing(q)
    <3>1. CASE q = r
      BY <1>1, <1>2, <1>3, <2>1, <3>1 DEF Renewing
    <3>2. CASE q # r
      <4>1. at[q] = "answer" => arg[q] \in Tokens /\ arg[q] # t
        BY <1>0, <1>5 DEF StageOK
      <4> QED BY <1>2, <1>4, <2>1, <3>2, <4>1 DEF Renewing
    <3> QED BY <3>1, <3>2
  <2>2. ASSUME NEW p \in Requests, kind'[p] = "refresh", NEW q \in Requests,
               page'[q] = page'[p], how'[q] = how'[p], Renewing(q)'
        PROVE  q = p
    BY <1>0, <1>2, <1>7, <2>1, <2>2 DEF FlightOK
  <2>3. ASSUME NEW p \in Requests, kind'[p] = "refresh", NEW u \in Tokens,
               line'[u] = [of |-> arg'[p], page |-> page'[p], how |-> how'[p]]
        PROVE  u \in lost' /\ at'[p] = "refused"
    <3>1. p # r /\ kind[p] = "refresh" /\ arg'[p] = arg[p] /\ arg[p] \in Tokens
      BY <1>0, <1>7, <2>3 DEF StageOK
    <3>2. CASE u = t
      <4>1. o = arg[p] /\ page[r] = page[p] /\ how[r] = how[p]
        BY <1>2, <2>3, <3>1, <3>2
      <4>2. Renewing(r)
        BY <1>0, <1>3, <3>1, <4>1 DEF Renewing
      <4> QED BY <1>0, <3>1, <4>1, <4>2 DEF FlightOK
    <3>3. CASE u # t
      BY <1>0, <1>2, <1>4, <2>3, <3>1, <3>3 DEF FlightOK
    <3> QED BY <3>2, <3>3
  <2> QED BY <2>2, <2>3 DEF FlightOK
<1>12. LoadedOnce' /\ ForkTakesLoad'
  <2>1. ASSUME NEW u \in Tokens, u # t, o # NoArg, line[u].of = o, line[u].page = page[r],
               line[u].how = how[r]
        PROVE  FALSE
    <3>1. line[u] = [of |-> arg[r], page |-> page[r], how |-> how[r]]
      BY <1>0, <1>3, <2>1, LineFields
    <3> QED BY <1>0, <1>1, <1>3, <2>1, <3>1 DEF FlightOK
  <2>2. ASSUME NEW u \in Tokens, NEW w \in Tokens, u # w, line'[u].of # NoArg,
               line'[u].of = line'[w].of, line'[u].page = line'[w].page
        PROVE  line'[u].how # line'[w].how
    <3>1. CASE u = t
      BY <1>2, <2>1, <2>2, <3>1
    <3>2. CASE w = t
      BY <1>2, <2>1, <2>2, <3>2
    <3>3. CASE u # t /\ w # t
      BY <1>0, <1>2, <2>2, <3>3 DEF ForkTakesLoad
    <3> QED BY <3>1, <3>2, <3>3
  <2> QED BY <1>0, <1>2, <2>2 DEF LoadedOnce, ForkTakesLoad
<1> QED BY <1>6, <1>9, <1>10, <1>11, <1>12 DEF Flow

(* An answer arrives or is lost.                                           *)
LEMMA AnsweredKeeps ==
  ASSUME BrowserInv, NEW r \in Requests, Arrive(r) \/ Lose(r), BrowserTypeOK'
  PROVE  Flow'
<1>0. /\ StageOK /\ AnswersOK /\ LineOK /\ FlightOK /\ LoadedOnce /\ ForkTakesLoad
      /\ BrowserTypeOK /\ TypeOK /\ NoArg \notin Tokens
  BY NoArgIsNone DEF BrowserInv
<1>1. /\ at[r] \in {"answer", "refused"} /\ Ended(r) /\ Alone(r) /\ session' = session
  BY <1>0, EndEffect DEF Arrive, Lose, Answered, ledger
<1>2. /\ line' = line /\ lost \subseteq lost'
      /\ \A q \in Requests : q # r => page'[q] = page[q] /\ how'[q] = how[q]
      /\ how'[r] = "other" /\ loaded' = loaded
      /\ cookie' = cookie \/ (at[r] = "answer" /\ cookie' = arg[r])
      /\ at[r] = "answer" => cookie' = arg[r] \/ arg[r] \in lost'
  BY <1>0 DEF Arrive, Lose, Forgets, BrowserTypeOK
<1>3. \A q \in Requests : q # r => kind'[q] = kind[q] /\ at'[q] = at[q] /\ arg'[q] = arg[q]
  BY <1>1 DEF Alone
<1>4. \A q \in Requests : kind'[q] # "none" \/ at'[q] # "idle" => q # r
  BY <1>1 DEF Ended
<1>5. StageOK'
  <2>1. \A q \in Requests : q = r => kind'[q] = "none" /\ at'[q] = "idle"
    BY <1>1 DEF Ended
  <2> QED BY <1>0, <1>1, <1>3, <2>1 DEF StageOK
<1>6. AnswersOK'
  <2>1. cookie' \in Tokens => session'[cookie'] # "unused"
    BY <1>0, <1>1, <1>2 DEF AnswersOK, StageOK
  <2>2. ASSUME NEW q \in Requests, at'[q] = "answer"
        PROVE  /\ q # r /\ at[q] = "answer" /\ arg'[q] = arg[q] /\ ~Presented(arg[q])
               /\ \A p \in Requests : at[p] = "answer" /\ arg[p] = arg[q] => p = q
    BY <1>0, <1>3, <1>4, <2>2 DEF AnswersOK
  <2>3. ASSUME NEW q \in Requests, at'[q] = "answer", Presented(arg[q])' PROVE FALSE
    <3>1. cookie' # arg'[q]
      BY <1>2, <2>2, <2>3 DEF Presented
    <3>2. \A p \in Requests : kind'[p] = "refresh" => arg'[p] # arg'[q]
      BY <1>3, <1>4, <2>2, <2>3 DEF Presented
    <3>3. \A u \in Tokens : line'[u].of # arg'[q]
      BY <1>2, <2>2, <2>3 DEF Presented
    <3> QED BY <2>3, <3>1, <3>2, <3>3 DEF Presented
  <2> QED BY <1>3, <1>4, <2>1, <2>2, <2>3 DEF AnswersOK
<1>7. LineOK'
  <2> SUFFICES ASSUME NEW u \in Tokens, line[u].of # NoArg
               PROVE  u \in lost' \/ OnItsWay(u)' \/ cookie' # line[u].of
    BY <1>0, <1>1, <1>2 DEF LineOK
  <2>1. at[r] = "answer" => arg[r] # line[u].of
    BY <1>0 DEF AnswersOK, Presented
  <2>2. ASSUME NEW q \in Requests, at[q] = "answer", arg[q] = u,
                 page[q] = line[u].page, how[q] = line[u].how
        PROVE  u \in lost' \/ OnItsWay(u)' \/ cookie' # line[u].of
    <3>1. CASE q = r
      BY <1>2, <2>1, <2>2, <3>1
    <3>2. CASE q # r
      BY <1>2, <1>3, <2>2, <3>2 DEF OnItsWay
    <3> QED BY <3>1, <3>2
  <2>3. u \in lost \/ OnItsWay(u) \/ cookie # line[u].of
    BY <1>0 DEF LineOK
  <2> QED BY <1>2, <2>1, <2>2, <2>3 DEF OnItsWay
<1>8. FlightOK'
  <2>1. \A q \in Requests : Renewing(q)' => Renewing(q) /\ q # r
    BY <1>2, <1>3, <1>4 DEF Renewing
  <2> QED BY <1>0, <1>2, <1>3, <1>4, <2>1 DEF FlightOK
<1>9. LoadedOnce' /\ ForkTakesLoad'
  BY <1>0, <1>2 DEF LoadedOnce, ForkTakesLoad
<1> QED BY <1>5, <1>6, <1>7, <1>8, <1>9 DEF Flow
-----------------------------------------------------------------------------
(* Every behaviour of the browser is one of the sessions: whatever is      *)
(* proved of them holds behind it.                                         *)
THEOREM BrowserImplementsSessions == BrowserSpec => Spec
<1>1. BrowserInit => Init
  BY DEF BrowserInit
<1> QED BY <1>1, NextIsNext, PTL DEF BrowserSpec, Spec

(* The inductive invariant, with the types the sessions already have.      *)
THEOREM BrowserInvariant == BrowserSpec => []BrowserInv
<1>1. BrowserInit /\ TypeOK => BrowserInv
  <2> SUFFICES ASSUME BrowserInit, TypeOK PROVE BrowserInv
    OBVIOUS
  <2>1. /\ \A r \in Requests : kind[r] = "none" /\ at[r] = "idle"
        /\ \A t \in Tokens : line[t].of = NoArg
        /\ cookie = NoArg
    BY DEF BrowserInit, Init
  <2>2. BrowserTypeOK
    BY DEF BrowserInit, BrowserTypeOK, Ways
  <2>3. StageOK /\ AnswersOK
    BY <2>1, NoArgIsNone DEF StageOK, AnswersOK
  <2>4. LineOK /\ FlightOK /\ LoadedOnce /\ ForkTakesLoad
    BY <2>1 DEF LineOK, FlightOK, LoadedOnce, ForkTakesLoad, BrowserInit
  <2> QED BY <2>2, <2>3, <2>4 DEF BrowserInv
<1>2. BrowserInv /\ TypeOK' /\ [BrowserNext]_allVars => BrowserInv'
  <2> SUFFICES ASSUME BrowserInv, TypeOK', [BrowserNext]_allVars PROVE BrowserInv'
    OBVIOUS
  <2>1. BrowserTypeOK'
    BY BrowserTypes DEF BrowserInv
  <2>2. ASSUME NEW r \in Requests, NEW g \in Pages, Renew(r, g) PROVE Flow'
    <3>1. loaded' = loaded \cup {g}
      BY <2>2 DEF Renew
    <3> QED BY <2>1, <2>2, <3>1, RenewKeeps DEF Renew
  <2>3. ASSUME NEW r \in Requests, NEW g \in Pages, Load(r, g) PROVE Flow'
    <3>1. \A q \in Requests : page[q] = g /\ how[q] = "load" => ~Renewing(q)
      BY <2>3 DEF Load, BrowserInv, LoadedOnce
    <3> QED BY <2>1, <2>3, <3>1, RenewKeeps DEF Load
  <2>4. Flow'
    BY <2>1, <2>2, <2>3, SubmitKeeps, ServeKeeps, StillKeeps, PairKeeps, AnsweredKeeps
    DEF BrowserNext
  <2> QED BY <2>1, <2>4 DEF BrowserInv, Flow
<1> QED BY <1>1, <1>2, SessionTypeOK, BrowserImplementsSessions, PTL DEF BrowserSpec

(* If one page exchanges a token twice, then once by its load and once     *)
(* silently.                                                               *)
THEOREM OnePageForksByLoad == BrowserSpec => []ForkTakesLoad
<1>1. BrowserInv => ForkTakesLoad
  BY DEF BrowserInv
<1> QED BY <1>1, BrowserInvariant, PTL

(* No page is refused by a refresh of one sort a token that it has itself  *)
(* exchanged by that sort, unless the answer was lost.                     *)
THEOREM RotationIsAccepted == BrowserSpec => []OwnRotationNotRefused
<1>1. BrowserInv => OwnRotationNotRefused
  BY DEF BrowserInv, FlightOK, StageOK, OwnRotationNotRefused
<1> QED BY <1>1, BrowserInvariant, PTL
=============================================================================

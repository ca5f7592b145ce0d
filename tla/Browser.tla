------------------------------- MODULE Browser -------------------------------
(***************************************************************************)
(* The pages of one browser in front of the sessions: api/client.ts and    *)
(* AuthContext.tsx.  The refresh token is in a cookie that every page      *)
(* shares and none can read.  A page refreshes once when it is loaded, and *)
(* silently whenever a request of it meets a 401; of the silent ones it    *)
(* has one in flight at a time, of which the other knows nothing, and two  *)
(* pages know nothing of each other.  Answers arrive late, in any order,   *)
(* or not at all.  A page loaded again is another page.                    *)
(***************************************************************************)
EXTENDS Sessions

CONSTANTS Pages, NoPage

ASSUME PagesAssumption == NoPage \notin Pages

VARIABLES
  cookie,       \* the token in vpanfi_refresh, NoArg without it
  page,         \* the page a request was made by
  how,          \* a refresh of a page that is loaded, a silent one, or another
  loaded,       \* the pages whose effects have run
  line,         \* history: what a token was exchanged for, how, and by which page
  lost          \* history: tokens whose answer never arrived

browser == <<cookie, page, how, loaded, line, lost>>
allVars == <<vars, browser>>
-----------------------------------------------------------------------------
BrowserInit ==
  /\ Init
  /\ cookie = NoArg
  /\ page = [r \in Requests |-> NoPage]
  /\ how = [r \in Requests |-> "other"]
  /\ loaded = {}
  /\ line = [t \in Tokens |-> [of |-> NoArg, page |-> NoPage, how |-> "other"]]
  /\ lost = {}

Sends(r, g, w) ==
  /\ page' = [page EXCEPT ![r] = g]
  /\ how' = [how EXCEPT ![r] = w]
  /\ UNCHANGED <<cookie, line, lost>>

Forgets(r) ==
  /\ page' = [page EXCEPT ![r] = NoPage]
  /\ how' = [how EXCEPT ![r] = "other"]

(* A refresh on its way there or back.                                     *)
Renewing(q) == \/ kind[q] = "refresh"
               \/ at[q] = "answer" /\ line[arg[q]].of # NoArg

(* refreshSession, which the effect of AuthProvider sends once: request()  *)
(* itself, past refreshInFlight.  (StrictMode runs the effect twice, in    *)
(* development only.)                                                      *)
Load(r, g) ==
  /\ g \notin loaded
  /\ cookie \in Tokens
  /\ RefreshBegin(r, cookie)
  /\ Sends(r, g, "load")
  /\ loaded' = loaded \cup {g}

(* The same without a cookie is answered 401, which changes nothing.       *)
LoadAnonymous(g) ==
  /\ g \notin loaded
  /\ cookie = NoArg
  /\ loaded' = loaded \cup {g}
  /\ UNCHANGED <<vars, cookie, page, how, line, lost>>

(* Mutant: each request that meets an expired access token renews it.      *)
RenewEach(r, g) ==
  /\ g \in loaded
  /\ cookie \in Tokens
  /\ RefreshBegin(r, cookie)
  /\ Sends(r, g, "silent")
  /\ UNCHANGED loaded

(* refreshAccessToken: whoever meets a 401 waits for the one in flight.    *)
Renew(r, g) ==
  /\ g \in loaded
  /\ cookie \in Tokens
  /\ \A q \in Requests : page[q] = g /\ how[q] = "silent" => ~Renewing(q)
  /\ RefreshBegin(r, cookie)
  /\ Sends(r, g, "silent")
  /\ UNCHANGED loaded

(* Effects of the pages below AuthProvider run before its own: a sign-in   *)
(* that comes back to AuthCallbackPage is sent ahead of the load.          *)
Submit(r, g) ==
  /\ BeginAny(r)
  /\ g \in loaded \/ kind'[r] = "signin"
  /\ Sends(r, g, "other")
  /\ UNCHANGED loaded

(* The request goes on, or ends without tokens; the answer to             *)
(* delete_account takes the cookie away, if it arrives.                    *)
Serve(r) ==
  /\ Work(r)
  /\ IF at'[r] = "idle" THEN Forgets(r) ELSE UNCHANGED <<page, how>>
  /\ \/ UNCHANGED cookie
     \/ DeleteCommit(r) /\ cookie' = NoArg
  /\ UNCHANGED <<loaded, line, lost>>

(* A commit with a pair of tokens, its answer on its way.                  *)
ServePair(r, t) ==
  /\ CommitPair(r, t)
  /\ line' = [line EXCEPT ![t] =
       [of |-> IF kind[r] = "refresh" THEN arg[r] ELSE NoArg, page |-> page[r], how |-> how[r]]]
  /\ UNCHANGED <<cookie, page, how, loaded, lost>>

(* Mutant: refresh does not set the cookie.                                *)
ArriveOld(r) ==
  /\ Answered(r) /\ Forgets(r)
  /\ page[r] \in loaded
  /\ cookie' = IF at[r] = "answer" /\ line[arg[r]].of = NoArg THEN arg[r] ELSE cookie
  /\ UNCHANGED <<loaded, line, lost>>

(* set_refresh_cookie; a refusal leaves the cookie as it is.  No answer is *)
(* there before all effects have run.                                      *)
Arrive(r) ==
  /\ Answered(r) /\ Forgets(r)
  /\ page[r] \in loaded
  /\ cookie' = IF at[r] = "answer" THEN arg[r] ELSE cookie
  /\ UNCHANGED <<loaded, line, lost>>

Lose(r) ==
  /\ Answered(r) /\ Forgets(r)
  /\ lost' = lost \cup (IF at[r] = "answer" THEN {arg[r]} ELSE {})
  /\ UNCHANGED <<cookie, loaded, line>>

(* logout takes the cookie; the session stays in the table.                *)
Logout ==
  /\ cookie # NoArg
  /\ cookie' = NoArg
  /\ UNCHANGED <<vars, page, how, loaded, line, lost>>

Elsewhere ==
  /\ MailLink \/ \E t \in Tokens : Expire(t)
  /\ UNCHANGED browser

BrowserNext ==
  \/ \E r \in Requests :
       \/ \E g \in Pages : Load(r, g) \/ Renew(r, g) \/ Submit(r, g)
       \/ \E t \in Tokens : ServePair(r, t)
       \/ Serve(r) \/ Arrive(r) \/ Lose(r)
  \/ \E g \in Pages : LoadAnonymous(g)
  \/ Logout \/ Elsewhere

BrowserSpec == BrowserInit /\ [][BrowserNext]_allVars
-----------------------------------------------------------------------------
(* Requests that run beside each other wait for one and the same refresh   *)
(* (refreshAccessToken): two exchanges of one token, both of which succeed *)
(* because refresh reads the session before it revokes it, come from two   *)
(* pages.  It fails: the refresh of a page that is loaded is not one that  *)
(* the others wait for.                                                    *)
NoForkInOnePage == \A t, u \in Tokens :
  t # u /\ line[t].of # NoArg /\ line[t].of = line[u].of => line[t].page # line[u].page

(* What the single flight does give: if one page makes two of one token,   *)
(* then one of the two by its load, the other silently.                    *)
ForkTakesLoad == \A t, u \in Tokens :
  /\ t # u /\ line[t].of # NoArg
  /\ line[t].of = line[u].of /\ line[t].page = line[u].page
  => line[t].how # line[u].how

(* A page is refused a token that it has itself exchanged only if the      *)
(* answer was lost, or if it did so by its load while the other refresh    *)
(* was silent: no page logs itself out by its silent refreshes.            *)
OwnRotationNotRefused == \A r \in Requests : at[r] = "refused" =>
  \A u \in Tokens :
    line[u] = [of |-> arg[r], page |-> page[r], how |-> how[r]] => u \in lost
-----------------------------------------------------------------------------
(* The inductive invariant, beside TypeOK.  A token on its way is known to *)
(* no page; one that was exchanged is over, and no longer in the cookie    *)
(* once what it was exchanged for has arrived.  A page with a refresh on   *)
(* its way has no other of that sort, and has not exchanged that token by  *)
(* one before.  A page loads once.                                         *)
Ways == {"load", "silent", "other"}
BrowserTypeOK ==
  /\ cookie \in Tokens \cup {NoArg}
  /\ page \in [Requests -> Pages \cup {NoPage}]
  /\ how \in [Requests -> Ways]
  /\ loaded \subseteq Pages
  /\ line \in [Tokens -> [of : Tokens \cup {NoArg}, page : Pages \cup {NoPage}, how : Ways]]
  /\ lost \subseteq Tokens

StageOK == \A r \in Requests :
  /\ at[r] \in {"idle", "answer"} <=> kind[r] = "none"
  /\ at[r] \in {"user", "refused"} => kind[r] = "refresh"
  /\ kind[r] = "refresh" => at[r] \in {"user", "commit", "refused"}
  /\ kind[r] = "refresh" \/ at[r] = "answer" => arg[r] \in Tokens /\ session[arg[r]] # "unused"

Presented(t) == \/ cookie = t
                \/ \E r \in Requests : kind[r] = "refresh" /\ arg[r] = t
                \/ \E u \in Tokens : line[u].of = t

AnswersOK ==
  /\ cookie \in Tokens => session[cookie] # "unused"
  /\ \A q \in Requests : at[q] = "answer" =>
       /\ ~Presented(arg[q])
       /\ \A r \in Requests : at[r] = "answer" /\ arg[r] = arg[q] => r = q

OnItsWay(u) == \E q \in Requests :
  at[q] = "answer" /\ arg[q] = u /\ page[q] = line[u].page /\ how[q] = line[u].how
LineOK == \A u \in Tokens : line[u].of # NoArg =>
  /\ session[u] # "unused" /\ session[line[u].of] = "over"
  /\ u \in lost \/ OnItsWay(u) \/ cookie # line[u].of

FlightOK == \A r \in Requests : kind[r] = "refresh" =>
  /\ \A q \in Requests : page[q] = page[r] /\ how[q] = how[r] /\ Renewing(q) => q = r
  /\ \A u \in Tokens : line[u] = [of |-> arg[r], page |-> page[r], how |-> how[r]] =>
       u \in lost /\ at[r] = "refused"

LoadedOnce == \A r \in Requests : how[r] = "load" => page[r] \in loaded

BrowserInv == /\ TypeOK /\ BrowserTypeOK /\ StageOK /\ AnswersOK /\ LineOK /\ FlightOK
              /\ LoadedOnce /\ ForkTakesLoad
=============================================================================
